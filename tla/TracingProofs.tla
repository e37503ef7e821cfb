--------------------------- MODULE TracingProofs ---------------------------
(***************************************************************************)
(* Proofs about Tracing, for any number of tasks, errors and spans and any *)
(* caps of the tracker.                                                    *)
(***************************************************************************)
EXTENDS ErrorTrackingProofs, Tracing

-----------------------------------------------------------------------------
(* The spans sp, the stores st and the frames fr have their types.         *)
SpanRecords ==
  [kind : Kinds, parent : Nat \cup {None}, root : Nat, store : Nat, end : Ends,
   err : Outcome, kept : Nat \cup {None}]
StoreRecords == [root : Nat, stack : Seq(Nat)]
FrameRecords == [span : Nat \cup {None}, store : Nat]

(* A span is of the trace of its parent and of its store, whose stack it   *)
(* never leaves if it is a scope; an open one failed nowhere yet, and one  *)
(* that ended at home can only be a candidate of its own root.             *)
SpanOK(sp, st, i) ==
  /\ sp[i].root \in 1 .. i /\ sp[sp[i].root].kind = "root"
  /\ sp[i].kind = "root" => sp[i].parent = None /\ sp[i].root = i
  /\ sp[i].kind # "root" => sp[i].parent \in 1 .. i - 1 /\ sp[sp[i].parent].root = sp[i].root
  /\ sp[i].store \in 1 .. Len(st) /\ st[sp[i].store].root = sp[i].root
  /\ sp[i].end = "open" => sp[i].err = None /\ sp[i].kept = None
  /\ sp[i].end \in {"home", "crossed"} => sp[i].kept \in {None, sp[i].root}
  /\ sp[i].kind \in {"root", "scope"} =>
       \E n \in 1 .. Len(st[sp[i].store].stack) : st[sp[i].store].stack[n] = i

(* The stack of the store j: spans of one trace, each once, its root first *)
(* and a span of this very store last.  A manual span of this store is     *)
(* above another of it, and is open or was ended in another context.       *)
StackOK(sp, j, root, stack) ==
  /\ Len(stack) >= 1 /\ stack[1] = root
  /\ \A n \in 1 .. Len(stack) :
       /\ stack[n] \in 1 .. Len(sp) /\ sp[stack[n]].root = root
       /\ sp[stack[n]].kind # "leaf"
  /\ \A n, m \in 1 .. Len(stack) : stack[n] = stack[m] => n = m
  /\ sp[stack[Len(stack)]].store = j
  /\ \A n \in 1 .. Len(stack) :
       sp[stack[n]].store = j /\ sp[stack[n]].kind = "manual" =>
         /\ n > 1 /\ sp[stack[n - 1]].store = j
         /\ sp[stack[n]].end \in {"open", "abroad"}

Tree(sp, st) ==
  /\ sp \in Seq(SpanRecords) /\ st \in Seq(StoreRecords)
  /\ \A i \in 1 .. Len(sp) : SpanOK(sp, st, i)
  /\ \A j \in 1 .. Len(st) : StackOK(sp, j, st[j].root, st[j].stack)

(* The calls a task is in: a scope of its own, open and in no other call.  *)
FrameOK(sp, st, f) ==
  /\ f.store \in 1 .. Len(st)
  /\ f.span # None => /\ f.span \in 1 .. Len(sp) /\ sp[f.span].store = f.store
                      /\ sp[f.span].kind \in {"root", "scope"} /\ sp[f.span].end = "open"
FramesOK(sp, st, fr) ==
  /\ fr \in [Tasks -> Seq(FrameRecords)]
  /\ \A k \in Tasks : \A n \in 1 .. Len(fr[k]) : FrameOK(sp, st, fr[k][n])
  /\ \A k, l \in Tasks : \A n \in 1 .. Len(fr[k]), m \in 1 .. Len(fr[l]) :
       fr[k][n].span # None /\ fr[k][n].span = fr[l][m].span => k = l /\ n = m

(* The distance of a span from its root, and where the stacks agree with   *)
(* it: in a trace that is nested, that is, whose spans all ended, if they  *)
(* did, where they began and in order.                                     *)
Nested(sp, root) ==
  \A i \in 1 .. Len(sp) : sp[i].root = root => sp[i].end \in {"open", "home"}
Levels(sp, lev) ==
  /\ lev \in [1 .. Len(sp) -> Nat]
  /\ \A i \in 1 .. Len(sp) :
       lev[i] = IF sp[i].kind = "root" THEN 0 ELSE lev[sp[i].parent] + 1
Aligned(sp, st, lev) ==
  \A j \in 1 .. Len(st) : Nested(sp, st[j].root) =>
    \A n \in 1 .. Len(st[j].stack) : lev[st[j].stack[n]] = n - 1

LEMMA TreeTypes ==
  ASSUME NEW sp, NEW st, Tree(sp, st)
  PROVE  /\ Len(sp) \in Nat /\ DOMAIN sp = 1 .. Len(sp)
         /\ Len(st) \in Nat /\ DOMAIN st = 1 .. Len(st)
         /\ \A i \in 1 .. Len(sp) : sp[i] \in SpanRecords /\ SpanOK(sp, st, i)
         /\ \A j \in 1 .. Len(st) :
              /\ st[j] \in StoreRecords /\ StackOK(sp, j, st[j].root, st[j].stack)
              /\ st[j].stack \in Seq(Nat) /\ Len(st[j].stack) \in Nat
              /\ DOMAIN st[j].stack = 1 .. Len(st[j].stack)
<1>1. /\ Len(sp) \in Nat /\ DOMAIN sp = 1 .. Len(sp)
      /\ Len(st) \in Nat /\ DOMAIN st = 1 .. Len(st)
  BY LenProperties DEF Tree
<1>2. /\ \A i \in 1 .. Len(sp) : sp[i] \in SpanRecords
      /\ \A j \in 1 .. Len(st) : st[j] \in StoreRecords
  BY ElementOfSeq DEF Tree
<1>3. \A j \in 1 .. Len(st) : st[j].stack \in Seq(Nat)
  BY <1>2 DEF StoreRecords
<1>4. \A j \in 1 .. Len(st) : /\ Len(st[j].stack) \in Nat
                              /\ DOMAIN st[j].stack = 1 .. Len(st[j].stack)
  BY <1>3, LenProperties
<1> QED BY <1>1, <1>2, <1>3, <1>4 DEF Tree

-----------------------------------------------------------------------------
(* A span begins: sp grows by s, which is open.                            *)
Opens(sp, sq, s) ==
  /\ Len(sq) = Len(sp) + 1 /\ sq[Len(sp) + 1] = s
  /\ \A i \in 1 .. Len(sp) : sq[i] = sp[i]

LEMMA AppendOpens ==
  ASSUME NEW S, NEW sp \in Seq(S), NEW s \in S
  PROVE  Append(sp, s) \in Seq(S) /\ Opens(sp, Append(sp, s), s) /\ Len(sp) \in Nat
BY AppendProperties, LenProperties DEF Opens

LEMMA StackStays ==
  ASSUME NEW sp, NEW sq, NEW s, Opens(sp, sq, s), Len(sp) \in Nat, NEW j, NEW root,
         NEW stack, Len(stack) \in Nat, StackOK(sp, j, root, stack)
  PROVE  StackOK(sq, j, root, stack)
<1>1. \A n \in 1 .. Len(stack) :
        stack[n] \in 1 .. Len(sq) /\ sq[stack[n]] = sp[stack[n]]
  BY DEF StackOK, Opens
<1>2. /\ 1 \in 1 .. Len(stack) /\ Len(stack) \in 1 .. Len(stack)
      /\ \A n \in 1 .. Len(stack) : n > 1 => n - 1 \in 1 .. Len(stack)
  BY DEF StackOK
<1>3. \A n \in 1 .. Len(stack) :
       sq[stack[n]].store = j /\ sq[stack[n]].kind = "manual" =>
         /\ n > 1 /\ sq[stack[n - 1]].store = j
         /\ sq[stack[n]].end \in {"open", "abroad"}
  BY <1>1, <1>2 DEF StackOK
<1> QED BY <1>1, <1>2, <1>3 DEF StackOK

(* withSpan() pushes on a copy, for a store of its own; startSpan() on the *)
(* stack of the running context.                                           *)
LEMMA StackPushed ==
  ASSUME NEW sp, NEW sq, NEW s, Opens(sp, sq, s), Len(sp) \in Nat, NEW i, NEW j, NEW root,
         NEW stack \in Seq(Nat), StackOK(sp, i, root, stack), s.root = root, s.store = j,
         \/ s.kind = "scope" /\ \A n \in 1 .. Len(sp) : sp[n].store # j
         \/ s.kind = "manual" /\ i = j /\ s.end = "open"
  PROVE  StackOK(sq, j, root, Append(stack, Len(sp) + 1))
<1> DEFINE pushed == Append(stack, Len(sp) + 1)
<1>1. /\ Len(stack) \in Nat /\ Len(pushed) = Len(stack) + 1
      /\ pushed[Len(stack) + 1] = Len(sp) + 1
      /\ \A n \in 1 .. Len(stack) : pushed[n] = stack[n]
  BY AppendProperties, LenProperties
<1> HIDE DEF pushed
<1>2. StackOK(sq, i, root, stack)
  BY <1>1, StackStays
<1>3. /\ sq[Len(sp) + 1] = s /\ Len(sp) + 1 \in 1 .. Len(sq)
      /\ \A n \in 1 .. Len(stack) : stack[n] \in 1 .. Len(sp) /\ sq[stack[n]] = sp[stack[n]]
  BY <1>1 DEF Opens, StackOK
<1>4. \A n \in 1 .. Len(pushed) : n \in 1 .. Len(stack) \/ n = Len(stack) + 1
  BY <1>1
<1>5. Len(pushed) >= 1 /\ pushed[1] = root /\ sq[pushed[Len(pushed)]].store = j
  BY <1>1, <1>2, <1>3 DEF StackOK
<1>6. \A n \in 1 .. Len(pushed) :
        /\ pushed[n] \in 1 .. Len(sq) /\ sq[pushed[n]].root = root
        /\ sq[pushed[n]].kind # "leaf"
  BY <1>1, <1>2, <1>3, <1>4 DEF StackOK
<1>7. \A n, m \in 1 .. Len(pushed) : pushed[n] = pushed[m] => n = m
  <2>1. \A n, m \in 1 .. Len(stack) : stack[n] = stack[m] => n = m
    BY DEF StackOK
  <2>2. \A n \in 1 .. Len(stack) : stack[n] # Len(sp) + 1
    BY <1>3
  <2> QED BY <1>1, <1>4, <2>1, <2>2
<1>8. ASSUME NEW n \in 1 .. Len(pushed), sq[pushed[n]].store = j,
             sq[pushed[n]].kind = "manual"
      PROVE  /\ n > 1 /\ sq[pushed[n - 1]].store = j
             /\ sq[pushed[n]].end \in {"open", "abroad"}
  <2>1. i = j
    BY <1>1, <1>3, <1>4, <1>8
  <2>2. CASE n \in 1 .. Len(stack)
    <3>1. pushed[n] = stack[n]
      BY <1>1, <2>2
    <3>2. n > 1 /\ sq[stack[n - 1]].store = j /\ sq[stack[n]].end \in {"open", "abroad"}
      BY <1>2, <1>8, <2>1, <2>2, <3>1 DEF StackOK
    <3>3. pushed[n - 1] = stack[n - 1]
      BY <1>1, <2>2, <3>2
    <3> QED BY <3>1, <3>2, <3>3
  <2>3. CASE n = Len(stack) + 1
    <3>1. sq[stack[Len(stack)]].store = j /\ Len(stack) >= 1
      BY <1>2, <2>1 DEF StackOK
    <3>2. n - 1 = Len(stack) /\ pushed[n - 1] = stack[Len(stack)] /\ n > 1
      BY <1>1, <2>3, <3>1
    <3>3. sq[pushed[n]] = s
      BY <1>1, <1>3, <2>3
    <3> QED BY <1>8, <3>1, <3>2, <3>3
  <2> QED BY <1>4, <2>2, <2>3
<1> QED BY <1>5, <1>6, <1>7, <1>8 DEF StackOK, pushed

LEMMA StackOfRoot ==
  ASSUME NEW sq, NEW n \in Nat, n >= 1, n <= Len(sq), Len(sq) \in Nat, NEW j,
         sq[n].kind = "root", sq[n].root = n, sq[n].store = j
  PROVE  StackOK(sq, j, n, <<n>>)
BY DEF StackOK

(* What holds of the older spans holds once a span began, if the stores    *)
(* keep their roots and their stacks lose nothing.                         *)
StacksGrow(st, su) ==
  /\ Len(st) <= Len(su)
  /\ \A j \in 1 .. Len(st) :
       /\ su[j].root = st[j].root /\ Len(st[j].stack) <= Len(su[j].stack)
       /\ \A n \in 1 .. Len(st[j].stack) : su[j].stack[n] = st[j].stack[n]

LEMMA SpanStays ==
  ASSUME NEW sp, NEW st, Tree(sp, st), NEW sq, NEW s, Opens(sp, sq, s), NEW su,
         Len(su) \in Nat, \A j \in 1 .. Len(su) : Len(su[j].stack) \in Nat,
         StacksGrow(st, su), NEW i \in 1 .. Len(sp)
  PROVE  SpanOK(sq, su, i)
<1>1. /\ Len(sp) \in Nat /\ SpanOK(sp, st, i) /\ Len(st) \in Nat
      /\ \A j \in 1 .. Len(st) : Len(st[j].stack) \in Nat
  BY TreeTypes
<1>2. sq[i] = sp[i]
  BY DEF Opens
<1>3. /\ sp[i].root \in 1 .. i /\ sp[sp[i].root].kind = "root"
      /\ sp[i].kind # "root" => sp[i].parent \in 1 .. i - 1 /\ sp[sp[i].parent].root = sp[i].root
  BY <1>1 DEF SpanOK
<1>4. sq[sp[i].root] = sp[sp[i].root]
      /\ (sp[i].kind # "root" => sq[sp[i].parent] = sp[sp[i].parent])
  <2>1. \A p \in 1 .. i : p \in 1 .. Len(sp)
    BY <1>1
  <2>2. \A p \in 1 .. i - 1 : p \in 1 .. Len(sp)
    BY <1>1
  <2>3. \A p \in 1 .. Len(sp) : sq[p] = sp[p]
    BY DEF Opens
  <2> QED BY <1>3, <2>1, <2>2, <2>3
<1>5. sp[i].store \in 1 .. Len(st) /\ st[sp[i].store].root = sp[i].root
  BY <1>1 DEF SpanOK
<1>6. sp[i].store \in 1 .. Len(su) /\ su[sp[i].store].root = sp[i].root
  BY <1>1, <1>5 DEF StacksGrow
<1>7. ASSUME sp[i].kind \in {"root", "scope"}
      PROVE  \E n \in 1 .. Len(su[sp[i].store].stack) : su[sp[i].store].stack[n] = i
  <2>1. PICK n \in 1 .. Len(st[sp[i].store].stack) : st[sp[i].store].stack[n] = i
    BY <1>1, <1>7 DEF SpanOK
  <2>2. Len(st[sp[i].store].stack) <= Len(su[sp[i].store].stack)
        /\ su[sp[i].store].stack[n] = st[sp[i].store].stack[n]
    BY <1>5, <2>1 DEF StacksGrow
  <2>3. Len(st[sp[i].store].stack) \in Nat /\ Len(su[sp[i].store].stack) \in Nat
    BY <1>1, <1>5, <1>6
  <2>4. n \in 1 .. Len(su[sp[i].store].stack)
    BY <2>1, <2>2, <2>3
  <2> QED BY <2>1, <2>2, <2>4
<1> QED BY <1>1, <1>2, <1>3, <1>4, <1>6, <1>7 DEF SpanOK

LEMMA FrameStays ==
  ASSUME NEW sp, NEW st, NEW sq, NEW s, Opens(sp, sq, s), Len(sp) \in Nat,
         NEW su, Len(st) \in Nat, Len(su) \in Nat, Len(st) <= Len(su),
         NEW f, FrameOK(sp, st, f)
  PROVE  FrameOK(sq, su, f)
BY DEF FrameOK, Opens

(* The levels of the older spans stay what they are. *)
Deepened(sp, lev, s) ==
  [i \in 1 .. Len(sp) + 1 |-> IF i = Len(sp) + 1
                              THEN IF s.kind = "root" THEN 0 ELSE lev[s.parent] + 1
                              ELSE lev[i]]

LEMMA LevelsStay ==
  ASSUME NEW sp, NEW st, Tree(sp, st), NEW sq, NEW s, Opens(sp, sq, s), NEW lev,
         Levels(sp, lev), s.kind # "root" => s.parent \in 1 .. Len(sp)
  PROVE  /\ Levels(sq, Deepened(sp, lev, s))
         /\ \A i \in 1 .. Len(sp) : Deepened(sp, lev, s)[i] = lev[i]
         /\ Deepened(sp, lev, s)[Len(sp) + 1]
              = IF s.kind = "root" THEN 0 ELSE lev[s.parent] + 1
<1> DEFINE lew == Deepened(sp, lev, s)
<1>1. Len(sp) \in Nat /\ \A i \in 1 .. Len(sp) : SpanOK(sp, st, i)
  BY TreeTypes
<1>2. /\ lew \in [1 .. Len(sp) + 1 -> Nat]
      /\ \A i \in 1 .. Len(sp) : lew[i] = lev[i]
      /\ lew[Len(sp) + 1] = IF s.kind = "root" THEN 0 ELSE lev[s.parent] + 1
  BY <1>1 DEF Deepened, Levels
<1> HIDE DEF lew
<1>3. ASSUME NEW i \in 1 .. Len(sq)
      PROVE  lew[i] = IF sq[i].kind = "root" THEN 0 ELSE lew[sq[i].parent] + 1
  <2>1. CASE i \in 1 .. Len(sp)
    <3>1. sq[i] = sp[i] /\ lew[i] = lev[i]
      BY <1>2, <2>1 DEF Opens
    <3>2. sp[i].kind # "root" => sp[i].parent \in 1 .. Len(sp)
      BY <1>1, <2>1 DEF SpanOK
    <3>3. sp[i].kind # "root" => lew[sp[i].parent] = lev[sp[i].parent]
      BY <1>2, <3>2
    <3> QED BY <2>1, <3>1, <3>3 DEF Levels
  <2>2. CASE i = Len(sp) + 1
    <3>1. sq[i] = s
      BY <2>2 DEF Opens
    <3> QED BY <1>2, <2>2, <3>1
  <2> QED BY <1>1, <2>1, <2>2 DEF Opens
<1>4. Levels(sq, lew)
  BY <1>2, <1>3 DEF Levels, Opens
<1> QED BY <1>2, <1>4 DEF lew

LEMMA NestedBefore ==
  ASSUME NEW sp, NEW sq, NEW s, Opens(sp, sq, s), Len(sp) \in Nat, NEW root,
         Nested(sq, root)
  PROVE  Nested(sp, root)
BY DEF Nested, Opens

-----------------------------------------------------------------------------
(* A call is entered, and the innermost one left.                          *)
LEMMA FrameTypes ==
  ASSUME NEW sp, NEW st, NEW fr, FramesOK(sp, st, fr), NEW k \in Tasks
  PROVE  /\ fr[k] \in Seq(FrameRecords) /\ Len(fr[k]) \in Nat
         /\ \A n \in 1 .. Len(fr[k]) : fr[k][n] \in FrameRecords /\ FrameOK(sp, st, fr[k][n])
<1>1. fr[k] \in Seq(FrameRecords)
  BY DEF FramesOK
<1>2. Len(fr[k]) \in Nat /\ \A n \in 1 .. Len(fr[k]) : fr[k][n] \in FrameRecords
  BY <1>1, LenProperties, ElementOfSeq
<1> QED BY <1>1, <1>2 DEF FramesOK

LEMMA FramesStay ==
  ASSUME NEW sp, NEW st, NEW fr, FramesOK(sp, st, fr), NEW sq, NEW su,
         \A k \in Tasks : \A n \in 1 .. Len(fr[k]) :
           FrameOK(sp, st, fr[k][n]) => FrameOK(sq, su, fr[k][n])
  PROVE  FramesOK(sq, su, fr)
BY DEF FramesOK

Fresh(fr, span) ==
  span # None => \A k \in Tasks : \A n \in 1 .. Len(fr[k]) : fr[k][n].span # span

LEMMA FrameEntered ==
  ASSUME NEW sp, NEW st, NEW fr, FramesOK(sp, st, fr), NEW k \in Tasks,
         NEW f \in FrameRecords, FrameOK(sp, st, f), Fresh(fr, f.span)
  PROVE  FramesOK(sp, st, [fr EXCEPT ![k] = Append(fr[k], f)])
<1> DEFINE gr == [fr EXCEPT ![k] = Append(fr[k], f)]
<1>1. \A l \in Tasks : fr[l] \in Seq(FrameRecords) /\ Len(fr[l]) \in Nat
  BY FrameTypes
<1>2. /\ Append(fr[k], f) \in Seq(FrameRecords) /\ Len(Append(fr[k], f)) = Len(fr[k]) + 1
      /\ Append(fr[k], f)[Len(fr[k]) + 1] = f
      /\ \A n \in 1 .. Len(fr[k]) : Append(fr[k], f)[n] = fr[k][n]
  BY <1>1, AppendProperties
<1>3. /\ gr \in [Tasks -> Seq(FrameRecords)] /\ gr[k] = Append(fr[k], f)
      /\ \A l \in Tasks : l # k => gr[l] = fr[l]
  BY <1>2 DEF FramesOK
<1> HIDE DEF gr
<1>4. ASSUME NEW l \in Tasks, NEW n \in 1 .. Len(gr[l])
      PROVE  \/ n \in 1 .. Len(fr[l]) /\ gr[l][n] = fr[l][n]
             \/ l = k /\ n = Len(fr[k]) + 1 /\ gr[l][n] = f
  BY <1>1, <1>2, <1>3
<1>5. \A l \in Tasks : \A n \in 1 .. Len(gr[l]) : FrameOK(sp, st, gr[l][n])
  BY <1>4 DEF FramesOK
<1>6. ASSUME NEW l \in Tasks, NEW o \in Tasks, NEW n \in 1 .. Len(gr[l]),
             NEW m \in 1 .. Len(gr[o]), gr[l][n].span # None, gr[l][n].span = gr[o][m].span
      PROVE  l = o /\ n = m
  <2>1. \/ n \in 1 .. Len(fr[l]) /\ gr[l][n] = fr[l][n]
        \/ l = k /\ n = Len(fr[k]) + 1 /\ gr[l][n] = f
    BY <1>4
  <2>2. \/ m \in 1 .. Len(fr[o]) /\ gr[o][m] = fr[o][m]
        \/ o = k /\ m = Len(fr[k]) + 1 /\ gr[o][m] = f
    BY <1>4
  <2>3. \A a \in 1 .. Len(fr[l]), b \in 1 .. Len(fr[o]) :
          fr[l][a].span # None /\ fr[l][a].span = fr[o][b].span => l = o /\ a = b
    BY DEF FramesOK
  <2>4. /\ f.span # None => \A a \in 1 .. Len(fr[l]) : fr[l][a].span # f.span
        /\ f.span # None => \A b \in 1 .. Len(fr[o]) : fr[o][b].span # f.span
    BY DEF Fresh
  <2> HIDE DEF gr
  <2> QED BY <1>6, <2>1, <2>2, <2>3, <2>4
<1>7. FramesOK(sp, st, gr)
  BY <1>3, <1>5, <1>6 DEF FramesOK
<1> QED BY <1>7 DEF gr

LEMMA FrameLeft ==
  ASSUME NEW sp, NEW st, NEW fr, FramesOK(sp, st, fr), NEW k \in Tasks, fr[k] # <<>>
  PROVE  /\ Len(fr[k]) >= 1 /\ Last(fr[k]) = fr[k][Len(fr[k])]
         /\ FramesOK(sp, st, [fr EXCEPT ![k] = Front(fr[k])])
         /\ Fresh([fr EXCEPT ![k] = Front(fr[k])], Last(fr[k]).span)
<1> DEFINE gr == [fr EXCEPT ![k] = Front(fr[k])]
           top == Len(fr[k])
<1>1. \A l \in Tasks : fr[l] \in Seq(FrameRecords) /\ Len(fr[l]) \in Nat
  BY FrameTypes
<1>2. Len(fr[k]) >= 1 /\ Last(fr[k]) = fr[k][top]
  <2>1. Len(fr[k]) # 0
    BY <1>1, EmptySeq, SeqEqual
  <2> QED BY <1>1, <2>1 DEF Last
<1>3. /\ Front(fr[k]) \in Seq(FrameRecords) /\ Len(Front(fr[k])) = top - 1
      /\ \A n \in 1 .. top - 1 : Front(fr[k])[n] = fr[k][n]
  <2>1. \A n \in 1 .. top - 1 : fr[k][n] \in FrameRecords
    BY <1>1, FrameTypes
  <2>2. /\ SubSeq(fr[k], 1, top - 1) \in Seq(FrameRecords)
        /\ Len(SubSeq(fr[k], 1, top - 1)) = IF 1 <= top - 1 THEN (top - 1) - 1 + 1 ELSE 0
        /\ \A n \in 1 .. (top - 1) - 1 + 1 : SubSeq(fr[k], 1, top - 1)[n] = fr[k][1 + n - 1]
    BY <1>1, <1>2, <2>1, SubSeqProperties
  <2> QED BY <1>1, <1>2, <2>2 DEF Front
<1>4. /\ gr \in [Tasks -> Seq(FrameRecords)] /\ gr[k] = Front(fr[k])
      /\ \A l \in Tasks : l # k => gr[l] = fr[l]
  BY <1>3 DEF FramesOK
<1> HIDE DEF gr
<1>5. \A l \in Tasks : \A n \in 1 .. Len(gr[l]) :
        n \in 1 .. Len(fr[l]) /\ gr[l][n] = fr[l][n] /\ (l = k => n < top)
  BY <1>1, <1>3, <1>4
<1>6. \A l \in Tasks : \A n \in 1 .. Len(gr[l]) : FrameOK(sp, st, gr[l][n])
  BY <1>5 DEF FramesOK
<1>7. \A l, o \in Tasks : \A n \in 1 .. Len(gr[l]), m \in 1 .. Len(gr[o]) :
        gr[l][n].span # None /\ gr[l][n].span = gr[o][m].span => l = o /\ n = m
  <2>1. \A l, o \in Tasks : \A n \in 1 .. Len(fr[l]), m \in 1 .. Len(fr[o]) :
          fr[l][n].span # None /\ fr[l][n].span = fr[o][m].span => l = o /\ n = m
    BY DEF FramesOK
  <2>2. ASSUME NEW l \in Tasks, NEW o \in Tasks, NEW n \in 1 .. Len(gr[l]),
               NEW m \in 1 .. Len(gr[o]), gr[l][n].span # None,
               gr[l][n].span = gr[o][m].span
        PROVE  l = o /\ n = m
    <3>1. n \in 1 .. Len(fr[l]) /\ gr[l][n] = fr[l][n]
      BY <1>5
    <3>2. m \in 1 .. Len(fr[o]) /\ gr[o][m] = fr[o][m]
      BY <1>5
    <3> QED BY <2>1, <2>2, <3>1, <3>2
  <2> QED BY <2>2
<1>8. FramesOK(sp, st, gr)
  BY <1>4, <1>6, <1>7 DEF FramesOK
<1>9. Fresh(gr, fr[k][top].span)
  <2>1. top \in 1 .. Len(fr[k])
    BY <1>1, <1>2
  <2>2. ASSUME fr[k][top].span # None, NEW l \in Tasks, NEW n \in 1 .. Len(gr[l]),
               gr[l][n].span = fr[k][top].span
        PROVE  FALSE
    <3>1. l = k /\ n = top
      <4>1. n \in 1 .. Len(fr[l]) /\ fr[l][n].span = fr[k][top].span
        BY <1>5, <2>2
      <4>2. \A i \in 1 .. Len(fr[l]), m \in 1 .. Len(fr[k]) :
              fr[l][i].span # None /\ fr[l][i].span = fr[k][m].span => l = k /\ i = m
        BY DEF FramesOK
      <4> QED BY <2>1, <2>2, <4>1, <4>2
    <3> QED BY <1>1, <1>5, <3>1
  <2> QED BY <2>2 DEF Fresh
<1> QED BY <1>2, <1>8, <1>9 DEF gr

-----------------------------------------------------------------------------
(* The actions that begin a span.                                          *)
Shape(sp, st, fr) == Tree(sp, st) /\ FramesOK(sp, st, fr)

Begins(sp, sq, su, gr, lev, s) ==
  /\ Shape(sq, su, gr) /\ Opens(sp, sq, s)
  /\ s.end = "open" /\ s.err = None /\ s.kept = None
  /\ s.kind = "root" => s.parent = None
  /\ s.kind # "root" => s.parent \in 1 .. Len(sp)
  /\ Aligned(sq, su, Deepened(sp, lev, s))

LEMMA ContextOf ==
  ASSUME Shape(spans, stores, frames), NEW k \in Tasks
  PROVE  /\ Context(k) = None <=> frames[k] = <<>>
         /\ Context(k) # None =>
              /\ Context(k) \in 1 .. Len(stores)
              /\ RootOf(Context(k)) = stores[Context(k)].root
              /\ StackOf(Context(k)) = stores[Context(k)].stack
              /\ Context(k) = frames[k][Len(frames[k])].store
              /\ Last(frames[k]) = frames[k][Len(frames[k])] /\ Len(frames[k]) >= 1
<1>1. FramesOK(spans, stores, frames) /\ None \notin Nat
  BY TracingAssumption DEF Shape
<1>2. CASE frames[k] = <<>>
  BY <1>2 DEF Context
<1>3. CASE frames[k] # <<>>
  <2>1. Len(frames[k]) >= 1 /\ Last(frames[k]) = frames[k][Len(frames[k])]
    BY <1>1, <1>3, FrameLeft
  <2>2. Len(frames[k]) \in 1 .. Len(frames[k])
    BY <1>1, <2>1, FrameTypes
  <2>3. /\ frames[k][Len(frames[k])] \in FrameRecords
        /\ frames[k][Len(frames[k])].store \in 1 .. Len(stores)
    BY <1>1, <2>2, FrameTypes DEF FrameOK
  <2>4. Context(k) = frames[k][Len(frames[k])].store
    BY <1>3, <2>1 DEF Context
  <2>5. Context(k) # None
    BY <1>1, <2>3, <2>4 DEF FrameRecords
  <2> QED BY <1>3, <2>1, <2>3, <2>4, <2>5 DEF RootOf, StackOf
<1> QED BY <1>2, <1>3

LEMMA NoneIsNoNumber == None \notin Nat
BY TracingAssumption

(* A new store, for a root or a scope.                                     *)
LEMMA StoreOpens ==
  ASSUME NEW sp, NEW st, NEW fr, Shape(sp, st, fr), NEW lev, Levels(sp, lev),
         Aligned(sp, st, lev), NEW s \in SpanRecords, NEW stack \in Seq(Nat),
         s.kind \in {"root", "scope"}, s.store = Len(st) + 1, s.end = "open",
         s.err = None, s.kept = None,
         LET sq == Append(sp, s) IN
           /\ s.root \in 1 .. Len(sp) + 1 /\ sq[s.root].kind = "root"
           /\ s.kind = "root" => s.parent = None /\ s.root = Len(sp) + 1
           /\ s.kind # "root" => s.parent \in 1 .. Len(sp) /\ sp[s.parent].root = s.root
           /\ StackOK(sq, Len(st) + 1, s.root, stack)
           /\ stack[Len(stack)] = Len(sp) + 1
           /\ Nested(sq, s.root) => \A n \in 1 .. Len(stack) :
                Deepened(sp, lev, s)[stack[n]] = n - 1,
         NEW k \in Tasks
  PROVE  Begins(sp, Append(sp, s), Append(st, [root |-> s.root, stack |-> stack]),
                [fr EXCEPT ![k] = Append(fr[k], [span |-> Len(sp) + 1, store |-> Len(st) + 1])],
                lev, s)
<1> DEFINE sq == Append(sp, s)
           r == [root |-> s.root, stack |-> stack]
           su == Append(st, r)
           f == [span |-> Len(sp) + 1, store |-> Len(st) + 1]
           gr == [fr EXCEPT ![k] = Append(fr[k], f)]
           lew == Deepened(sp, lev, s)
<1>1. /\ Tree(sp, st) /\ FramesOK(sp, st, fr) /\ Len(sp) \in Nat /\ Len(st) \in Nat
      /\ Len(stack) \in Nat
  BY TreeTypes, LenProperties DEF Shape
<1>2. sq \in Seq(SpanRecords) /\ Opens(sp, sq, s)
  BY AppendOpens DEF Shape, Tree
<1>3. r \in StoreRecords /\ r.root = s.root /\ r.stack = stack
  BY DEF StoreRecords, SpanRecords
<1> HIDE DEF r
<1>4. /\ su \in Seq(StoreRecords) /\ Len(su) = Len(st) + 1 /\ su[Len(st) + 1] = r
      /\ \A j \in 1 .. Len(st) : su[j] = st[j]
  BY <1>1, <1>3, AppendProperties DEF Tree
<1> HIDE DEF su
<1>5. \A j \in 1 .. Len(su) : j \in 1 .. Len(st) \/ j = Len(st) + 1
  BY <1>1, <1>4
<1>6. /\ StackOK(sq, Len(st) + 1, s.root, stack) /\ stack[Len(stack)] = Len(sp) + 1
      /\ s.root \in 1 .. Len(sp) + 1 /\ sq[s.root].kind = "root"
      /\ s.kind = "root" => s.parent = None /\ s.root = Len(sp) + 1
      /\ s.kind # "root" => s.parent \in 1 .. Len(sp) /\ sp[s.parent].root = s.root
      /\ Nested(sq, s.root) => \A n \in 1 .. Len(stack) : lew[stack[n]] = n - 1
  OBVIOUS
<1> HIDE DEF sq, lew
<1>7. Len(sq) = Len(sp) + 1 /\ sq[Len(sp) + 1] = s /\ \A i \in 1 .. Len(sp) : sq[i] = sp[i]
  BY <1>2 DEF Opens
<1>8. SpanOK(sq, su, Len(sp) + 1)
  <2>1. s.kind # "root" => s.parent \in 1 .. (Len(sp) + 1) - 1 /\ sq[s.parent].root = s.root
    BY <1>1, <1>6, <1>7
  <2>2. s.store \in 1 .. Len(su) /\ su[s.store].root = s.root /\ su[s.store].stack = stack
    BY <1>1, <1>3, <1>4
  <2>3. \E n \in 1 .. Len(su[s.store].stack) : su[s.store].stack[n] = Len(sp) + 1
    <3>1. Len(stack) \in 1 .. Len(stack)
      BY <1>1, <1>6 DEF StackOK
    <3> QED BY <1>6, <2>2, <3>1
  <2> QED BY <1>6, <1>7, <2>1, <2>2, <2>3 DEF SpanOK
<1>9. StacksGrow(st, su) /\ \A j \in 1 .. Len(su) : Len(su[j].stack) \in Nat
  <2>1. \A j \in 1 .. Len(st) : Len(st[j].stack) \in Nat
    BY <1>1, TreeTypes
  <2>2. \A j \in 1 .. Len(st) : Len(st[j].stack) <= Len(st[j].stack)
    BY <2>1
  <2>3. Len(st) <= Len(su)
    BY <1>1, <1>4
  <2> QED BY <1>1, <1>3, <1>4, <1>5, <2>1, <2>2, <2>3 DEF StacksGrow
<1>10. Len(su) \in Nat
  BY <1>1, <1>4
<1>11. \A i \in 1 .. Len(sq) : SpanOK(sq, su, i)
  <2>1. \A i \in 1 .. Len(sp) : SpanOK(sq, su, i)
    BY <1>1, <1>2, <1>9, <1>10, SpanStays
  <2> QED BY <1>1, <1>7, <1>8, <2>1
<1>12. \A j \in 1 .. Len(su) : StackOK(sq, j, su[j].root, su[j].stack)
  <2>1. ASSUME NEW j \in 1 .. Len(st) PROVE StackOK(sq, j, su[j].root, su[j].stack)
    <3>1. StackOK(sp, j, st[j].root, st[j].stack) /\ Len(st[j].stack) \in Nat
      BY <1>1, TreeTypes
    <3> QED BY <1>1, <1>2, <1>4, <3>1, StackStays
  <2> QED BY <1>3, <1>4, <1>5, <1>6, <2>1
<1>13. Tree(sq, su)
  BY <1>2, <1>4, <1>11, <1>12 DEF Tree
<1>14. FramesOK(sq, su, gr)
  <2>1. FramesOK(sq, su, fr)
    <3>1. ASSUME NEW g, FrameOK(sp, st, g) PROVE FrameOK(sq, su, g)
      <4>1. Len(st) <= Len(su)
        BY <1>1, <1>4
      <4> QED BY <1>1, <1>2, <1>10, <3>1, <4>1, FrameStays
    <3> QED BY <1>1, <3>1, FramesStay
  <2>2. f \in FrameRecords /\ f.span = Len(sp) + 1
    BY <1>1 DEF FrameRecords
  <2>3. FrameOK(sq, su, f)
    <3>1. f.store = Len(st) + 1 /\ f.store \in 1 .. Len(su) /\ f.span \in 1 .. Len(sq)
      BY <1>1, <1>4, <1>7
    <3> QED BY <1>7, <2>2, <3>1 DEF FrameOK
  <2>4. Fresh(fr, f.span)
    <3>1. ASSUME NEW l \in Tasks, NEW n \in 1 .. Len(fr[l]) PROVE fr[l][n].span # Len(sp) + 1
      <4>1. FrameOK(sp, st, fr[l][n])
        BY <1>1 DEF FramesOK
      <4> QED BY <1>1, <4>1, NoneIsNoNumber DEF FrameOK
    <3> QED BY <2>2, <3>1 DEF Fresh
  <2> HIDE DEF f
  <2> QED BY <2>1, <2>2, <2>3, <2>4, FrameEntered
<1>15. /\ \A i \in 1 .. Len(sp) : lew[i] = lev[i]
  BY <1>1, <1>2, <1>6, LevelsStay DEF lew
<1>16. Aligned(sq, su, lew)
  <2>1. ASSUME NEW j \in 1 .. Len(st), Nested(sq, su[j].root)
        PROVE  \A n \in 1 .. Len(su[j].stack) : lew[su[j].stack[n]] = n - 1
    <3>1. Nested(sp, st[j].root) /\ su[j] = st[j]
      BY <1>1, <1>2, <1>4, <2>1, NestedBefore
    <3>2. \A n \in 1 .. Len(st[j].stack) :
            st[j].stack[n] \in 1 .. Len(sp) /\ lev[st[j].stack[n]] = n - 1
      BY <1>1, <3>1, TreeTypes DEF StackOK, Aligned
    <3> QED BY <1>15, <3>1, <3>2
  <2>2. ASSUME Nested(sq, su[Len(st) + 1].root)
        PROVE  \A n \in 1 .. Len(stack) : lew[stack[n]] = n - 1
    BY <1>3, <1>4, <1>6, <2>2
  <2> QED BY <1>3, <1>4, <1>5, <2>1, <2>2 DEF Aligned
<1>17. Begins(sp, sq, su, gr, lev, s)
  BY <1>2, <1>6, <1>13, <1>14, <1>16 DEF Begins, Shape, lew
<1> QED BY <1>17 DEF sq, su, gr, r

LEMMA WithTraceBegins ==
  ASSUME Shape(spans, stores, frames), NEW lev, Levels(spans, lev),
         Aligned(spans, stores, lev), NEW k \in Tasks, WithTrace(k)
  PROVE  \E s \in SpanRecords : Begins(spans, spans', stores', frames', lev, s)
<1> DEFINE s == Opened("root", None, New, Len(stores) + 1)
           sq == Append(spans, s)
           lew == Deepened(spans, lev, s)
<1>1. Tree(spans, stores) /\ Len(spans) \in Nat /\ Len(stores) \in Nat /\ New = Len(spans) + 1
  BY TreeTypes DEF Shape, New
<1>2. s \in SpanRecords
  BY <1>1 DEF SpanRecords, Opened, Kinds, Ends, Outcome
<1>3. /\ s.kind = "root" /\ s.parent = None /\ s.root = Len(spans) + 1
      /\ s.store = Len(stores) + 1 /\ s.end = "open" /\ s.err = None /\ s.kept = None
  BY <1>1 DEF Opened
<1> HIDE DEF s
<1>4. sq \in Seq(SpanRecords) /\ Opens(spans, sq, s)
  BY <1>1, <1>2, AppendOpens DEF Tree
<1> HIDE DEF sq
<1>5. <<New>> \in Seq(Nat) /\ Len(<<New>>) = 1 /\ <<New>>[1] = Len(spans) + 1
  BY <1>1
<1>6. Len(sq) = Len(spans) + 1 /\ sq[Len(spans) + 1] = s
  BY <1>4 DEF Opens
<1>7. StackOK(sq, Len(stores) + 1, s.root, <<New>>)
  <2>1. Len(spans) + 1 \in Nat /\ Len(spans) + 1 >= 1 /\ Len(sq) \in Nat
        /\ Len(spans) + 1 <= Len(sq)
    BY <1>1, <1>6
  <2>2. StackOK(sq, Len(stores) + 1, Len(spans) + 1, <<Len(spans) + 1>>)
    BY <1>3, <1>6, <2>1, StackOfRoot
  <2> QED BY <1>1, <1>3, <2>2
<1>8. \A n \in 1 .. Len(<<New>>) : lew[<<New>>[n]] = n - 1
  <2>1. lew[Len(spans) + 1] = 0
    BY <1>1, <1>3, <1>4, LevelsStay
  <2> HIDE DEF lew
  <2> QED BY <1>5, <2>1
<1>9. /\ s.root \in 1 .. Len(spans) + 1 /\ sq[s.root].kind = "root"
      /\ <<New>>[Len(<<New>>)] = Len(spans) + 1
  BY <1>1, <1>3, <1>5, <1>6
<1>10. Begins(spans, Append(spans, s), Append(stores, [root |-> s.root, stack |-> <<New>>]),
              [frames EXCEPT ![k] = Append(frames[k], [span |-> Len(spans) + 1,
                                                       store |-> Len(stores) + 1])], lev, s)
  BY <1>2, <1>3, <1>5, <1>7, <1>8, <1>9, StoreOpens DEF sq, lew
<1>11. /\ spans' = Append(spans, s)
       /\ stores' = Append(stores, [root |-> s.root, stack |-> <<New>>])
       /\ frames' = [frames EXCEPT ![k] = Append(frames[k], [span |-> Len(spans) + 1,
                                                             store |-> Len(stores) + 1])]
  BY <1>1, <1>3 DEF WithTrace, s
<1> QED BY <1>2, <1>10, <1>11

LEMMA WithSpanBegins ==
  ASSUME Shape(spans, stores, frames), NEW lev, Levels(spans, lev),
         Aligned(spans, stores, lev), NEW k \in Tasks, WithSpan(k)
  PROVE  \E s \in SpanRecords : Begins(spans, spans', stores', frames', lev, s)
<1> DEFINE outer == Context(k)
           stack == stores[outer].stack
           root == stores[outer].root
           s == Opened("scope", Last(stack), root, Len(stores) + 1)
           sq == Append(spans, s)
           lew == Deepened(spans, lev, s)
           pushed == Append(stack, New)
<1>1. Tree(spans, stores) /\ Len(spans) \in Nat /\ Len(stores) \in Nat /\ New = Len(spans) + 1
  BY TreeTypes DEF Shape, New
<1>2. /\ outer \in 1 .. Len(stores) /\ RootOf(outer) = root /\ StackOf(outer) = stack
  BY ContextOf DEF WithSpan
<1>3. /\ StackOK(spans, outer, root, stack) /\ stack \in Seq(Nat) /\ Len(stack) \in Nat
  BY <1>1, <1>2, TreeTypes
<1>4. /\ Last(stack) = stack[Len(stack)] /\ Last(stack) \in 1 .. Len(spans)
      /\ spans[Last(stack)].root = root /\ Len(stack) >= 1
  BY <1>3 DEF StackOK, Last
<1>5. root \in 1 .. Len(spans) /\ spans[root].kind = "root"
  <2>1. 1 \in 1 .. Len(stack) /\ stack[1] = root
    BY <1>3 DEF StackOK
  <2>2. root \in 1 .. Len(spans) /\ spans[root].root = root
    BY <1>3, <2>1 DEF StackOK
  <2> QED BY <1>1, <2>2, TreeTypes DEF SpanOK
<1>6. s \in SpanRecords
  BY <1>1, <1>4, <1>5 DEF SpanRecords, Opened, Kinds, Ends, Outcome
<1>7. /\ s.kind = "scope" /\ s.parent = Last(stack) /\ s.root = root
      /\ s.store = Len(stores) + 1 /\ s.end = "open" /\ s.err = None /\ s.kept = None
  BY DEF Opened
<1> HIDE DEF s
<1>8. sq \in Seq(SpanRecords) /\ Opens(spans, sq, s)
  BY <1>1, <1>6, AppendOpens DEF Tree
<1> HIDE DEF sq
<1>9. /\ pushed \in Seq(Nat) /\ Len(pushed) = Len(stack) + 1
      /\ pushed[Len(stack) + 1] = Len(spans) + 1
      /\ \A n \in 1 .. Len(stack) : pushed[n] = stack[n]
  BY <1>1, <1>3, AppendProperties
<1>10. StackOK(sq, Len(stores) + 1, root, pushed)
  <2>1. \A n \in 1 .. Len(spans) : spans[n].store # Len(stores) + 1
    BY <1>1, TreeTypes DEF SpanOK
  <2> QED BY <1>1, <1>3, <1>7, <1>8, <2>1, StackPushed
<1> HIDE DEF pushed, stack, root
<1>11. ASSUME Nested(sq, root), NEW n \in 1 .. Len(pushed) PROVE lew[pushed[n]] = n - 1
  <2>1. Nested(spans, root)
    BY <1>1, <1>8, <1>11, NestedBefore
  <2>2. \A m \in 1 .. Len(stack) : lev[stack[m]] = m - 1
    BY <1>2, <2>1 DEF Aligned, stack, root
  <2>3. /\ \A i \in 1 .. Len(spans) : lew[i] = lev[i]
        /\ lew[Len(spans) + 1] = lev[Last(stack)] + 1
    BY <1>1, <1>4, <1>7, <1>8, LevelsStay
  <2> HIDE DEF lew
  <2>4. CASE n \in 1 .. Len(stack)
    BY <1>3, <1>9, <2>2, <2>3, <2>4 DEF StackOK
  <2>5. CASE n = Len(stack) + 1
    <3>1. Len(stack) \in 1 .. Len(stack)
      BY <1>3, <1>4
    <3>2. lev[Last(stack)] = Len(stack) - 1
      BY <1>4, <2>2, <3>1
    <3> QED BY <1>3, <1>9, <2>3, <2>5, <3>2
  <2> QED BY <1>3, <1>9, <2>4, <2>5
<1>12. /\ s.root \in 1 .. Len(spans) + 1 /\ sq[s.root].kind = "root"
       /\ pushed[Len(pushed)] = Len(spans) + 1
  BY <1>1, <1>5, <1>7, <1>8, <1>9 DEF Opens
<1>13. Begins(spans, Append(spans, s), Append(stores, [root |-> s.root, stack |-> pushed]),
              [frames EXCEPT ![k] = Append(frames[k], [span |-> Len(spans) + 1,
                                                       store |-> Len(stores) + 1])], lev, s)
  BY <1>4, <1>6, <1>7, <1>9, <1>10, <1>11, <1>12, StoreOpens DEF sq, lew
<1>14. /\ spans' = Append(spans, s)
       /\ stores' = Append(stores, [root |-> s.root, stack |-> pushed])
       /\ frames' = [frames EXCEPT ![k] = Append(frames[k], [span |-> Len(spans) + 1,
                                                             store |-> Len(stores) + 1])]
  BY <1>1, <1>2, <1>7 DEF WithSpan, s, pushed, stack, root
<1> QED BY <1>6, <1>13, <1>14

(* The stack of the running context.                                       *)
LEMMA RunningStack ==
  ASSUME Shape(spans, stores, frames), NEW k \in Tasks, Context(k) # None
  PROVE  LET store == Context(k)
             stack == stores[store].stack
             root == stores[store].root
         IN /\ store \in 1 .. Len(stores) /\ RootOf(store) = root /\ StackOf(store) = stack
            /\ StackOK(spans, store, root, stack)
            /\ stack \in Seq(Nat) /\ Len(stack) \in Nat /\ Len(stack) >= 1
            /\ Last(stack) = stack[Len(stack)] /\ Last(stack) \in 1 .. Len(spans)
            /\ spans[Last(stack)].root = root
            /\ root \in 1 .. Len(spans) /\ spans[root].kind = "root"
<1> DEFINE store == Context(k)
           stack == stores[store].stack
           root == stores[store].root
<1>1. Tree(spans, stores) /\ Len(spans) \in Nat
  BY TreeTypes DEF Shape
<1>2. store \in 1 .. Len(stores) /\ RootOf(store) = root /\ StackOf(store) = stack
  BY ContextOf
<1>3. StackOK(spans, store, root, stack) /\ stack \in Seq(Nat) /\ Len(stack) \in Nat
  BY <1>1, <1>2, TreeTypes
<1> HIDE DEF stack, root, store
<1>4. /\ Last(stack) = stack[Len(stack)] /\ Last(stack) \in 1 .. Len(spans)
      /\ spans[Last(stack)].root = root /\ Len(stack) >= 1
  BY <1>3 DEF StackOK, Last
<1>5. root \in 1 .. Len(spans) /\ spans[root].kind = "root"
  <2>1. 1 \in 1 .. Len(stack) /\ stack[1] = root
    BY <1>3 DEF StackOK
  <2>2. root \in 1 .. Len(spans) /\ spans[root].root = root
    BY <1>3, <2>1 DEF StackOK
  <2> QED BY <1>1, <2>2, TreeTypes DEF SpanOK
<1> QED BY <1>2, <1>3, <1>4, <1>5 DEF stack, root, store

(* No new store: a manual span or a leaf.                                  *)
LEMMA SpanBegins ==
  ASSUME NEW sp, NEW st, NEW fr, Shape(sp, st, fr), NEW lev, Levels(sp, lev),
         NEW s \in SpanRecords, s.kind \in {"manual", "leaf"}, s.end = "open",
         s.err = None, s.kept = None, s.parent \in 1 .. Len(sp),
         sp[s.parent].root = s.root, s.root \in 1 .. Len(sp), sp[s.root].kind = "root",
         s.store \in 1 .. Len(st), st[s.store].root = s.root,
         NEW su \in Seq(StoreRecords), Len(su) = Len(st), StacksGrow(st, su),
         \A j \in 1 .. Len(su) : StackOK(Append(sp, s), j, su[j].root, su[j].stack),
         Aligned(Append(sp, s), su, Deepened(sp, lev, s))
  PROVE  Begins(sp, Append(sp, s), su, fr, lev, s)
<1> DEFINE sq == Append(sp, s)
<1>1. /\ Tree(sp, st) /\ FramesOK(sp, st, fr) /\ Len(sp) \in Nat /\ Len(st) \in Nat
  BY TreeTypes DEF Shape
<1>2. sq \in Seq(SpanRecords) /\ Opens(sp, sq, s)
  BY AppendOpens DEF Shape, Tree
<1>3. \A j \in 1 .. Len(su) : StackOK(sq, j, su[j].root, su[j].stack)
  OBVIOUS
<1> HIDE DEF sq
<1>4. Len(sq) = Len(sp) + 1 /\ sq[Len(sp) + 1] = s /\ \A i \in 1 .. Len(sp) : sq[i] = sp[i]
  BY <1>2 DEF Opens
<1>5. SpanOK(sq, su, Len(sp) + 1)
  <2>1. su[s.store].root = s.root /\ s.store \in 1 .. Len(su)
    BY <1>1 DEF StacksGrow
  <2>2. s.parent \in 1 .. (Len(sp) + 1) - 1 /\ sq[s.parent].root = s.root
    BY <1>1, <1>4
  <2>3. s.root \in 1 .. Len(sp) + 1 /\ sq[s.root].kind = "root"
    BY <1>1, <1>4
  <2> QED BY <1>4, <2>1, <2>2, <2>3 DEF SpanOK
<1>6. \A j \in 1 .. Len(su) : Len(su[j].stack) \in Nat
  <2>1. ASSUME NEW j \in 1 .. Len(su) PROVE Len(su[j].stack) \in Nat
    <3>1. su[j] \in StoreRecords
      BY ElementOfSeq
    <3>2. su[j].stack \in Seq(Nat)
      BY <3>1 DEF StoreRecords
    <3> QED BY <3>2, LenProperties
  <2> QED BY <2>1
<1>7. \A i \in 1 .. Len(sq) : SpanOK(sq, su, i)
  <2>1. \A i \in 1 .. Len(sp) : SpanOK(sq, su, i)
    BY <1>1, <1>2, <1>6, SpanStays
  <2> QED BY <1>1, <1>4, <1>5, <2>1
<1>8. Tree(sq, su)
  BY <1>2, <1>3, <1>7 DEF Tree
<1>9. FramesOK(sq, su, fr)
  <2>1. ASSUME NEW g, FrameOK(sp, st, g) PROVE FrameOK(sq, su, g)
    <3>1. Len(st) <= Len(su) /\ Len(su) \in Nat
      BY <1>1
    <3> QED BY <1>1, <1>2, <2>1, <3>1, FrameStays
  <2> QED BY <1>1, <2>1, FramesStay
<1> QED BY <1>2, <1>8, <1>9 DEF Begins, Shape, sq

LEMMA BeginLeafBegins ==
  ASSUME Shape(spans, stores, frames), NEW lev, Levels(spans, lev),
         Aligned(spans, stores, lev), NEW k \in Tasks, BeginLeaf(k)
  PROVE  \E s \in SpanRecords : Begins(spans, spans', stores', frames', lev, s)
<1> DEFINE store == Context(k)
           stack == stores[store].stack
           root == stores[store].root
           s == Opened("leaf", Last(stack), root, store)
           sq == Append(spans, s)
           lew == Deepened(spans, lev, s)
<1>1. /\ Tree(spans, stores) /\ Len(spans) \in Nat /\ Len(stores) \in Nat
      /\ stores \in Seq(StoreRecords)
  BY TreeTypes DEF Shape, Tree
<1>2. /\ store \in 1 .. Len(stores) /\ RootOf(store) = root /\ StackOf(store) = stack
      /\ Last(stack) \in 1 .. Len(spans) /\ spans[Last(stack)].root = root
      /\ root \in 1 .. Len(spans) /\ spans[root].kind = "root"
  BY RunningStack DEF BeginLeaf
<1>3. spans' = sq /\ stores' = stores /\ frames' = frames
  BY <1>2 DEF BeginLeaf
<1>4. s \in SpanRecords
  BY <1>1, <1>2 DEF SpanRecords, Opened, Kinds, Ends, Outcome
<1>5. /\ s.kind = "leaf" /\ s.parent = Last(stack) /\ s.root = root
      /\ s.store = store /\ s.end = "open" /\ s.err = None /\ s.kept = None
  BY DEF Opened
<1> HIDE DEF s
<1>6. sq \in Seq(SpanRecords) /\ Opens(spans, sq, s)
  BY <1>1, <1>4, AppendOpens DEF Tree
<1>7. StacksGrow(stores, stores)
  <2>1. /\ Len(stores) <= Len(stores)
        /\ \A j \in 1 .. Len(stores) : Len(stores[j].stack) <= Len(stores[j].stack)
    BY <1>1, TreeTypes
  <2> QED BY <2>1 DEF StacksGrow
<1>8. \A j \in 1 .. Len(stores) : StackOK(sq, j, stores[j].root, stores[j].stack)
  <2>1. ASSUME NEW j \in 1 .. Len(stores)
        PROVE  StackOK(sq, j, stores[j].root, stores[j].stack)
    <3>1. StackOK(spans, j, stores[j].root, stores[j].stack) /\ Len(stores[j].stack) \in Nat
      BY <1>1, TreeTypes
    <3> QED BY <1>1, <1>6, <3>1, StackStays
  <2> QED BY <2>1
<1>9. \A i \in 1 .. Len(spans) : lew[i] = lev[i]
  BY <1>1, <1>2, <1>5, <1>6, LevelsStay
<1>10. Aligned(sq, stores, lew)
  <2> HIDE DEF sq, lew
  <2>1. ASSUME NEW j \in 1 .. Len(stores), Nested(sq, stores[j].root)
        PROVE  \A n \in 1 .. Len(stores[j].stack) : lew[stores[j].stack[n]] = n - 1
    <3>1. Nested(spans, stores[j].root)
      BY <1>1, <1>6, <2>1, NestedBefore
    <3>2. \A n \in 1 .. Len(stores[j].stack) :
            stores[j].stack[n] \in 1 .. Len(spans) /\ lev[stores[j].stack[n]] = n - 1
      BY <1>1, <3>1, TreeTypes DEF StackOK, Aligned
    <3> QED BY <1>9, <3>2
  <2> QED BY <2>1 DEF Aligned
<1>11. Begins(spans, sq, stores, frames, lev, s)
  <2> HIDE DEF lew, store, stack, root
  <2>1. s.kind \in {"manual", "leaf"}
    BY <1>5
  <2>2. /\ s.parent \in 1 .. Len(spans) /\ spans[s.parent].root = s.root
        /\ s.root \in 1 .. Len(spans) /\ spans[s.root].kind = "root"
        /\ s.store \in 1 .. Len(stores) /\ stores[s.store].root = s.root
    BY <1>2, <1>5 DEF root
  <2> QED BY <1>1, <1>4, <1>5, <1>7, <1>8, <1>10, <2>1, <2>2, SpanBegins DEF lew
<1> QED BY <1>3, <1>4, <1>11

LEMMA StartSpanBegins ==
  ASSUME Shape(spans, stores, frames), NEW lev, Levels(spans, lev),
         Aligned(spans, stores, lev), NEW k \in Tasks, StartSpan(k)
  PROVE  \E s \in SpanRecords : Begins(spans, spans', stores', frames', lev, s)
<1> DEFINE store == Context(k)
           stack == stores[store].stack
           root == stores[store].root
           s == Opened("manual", Last(stack), root, store)
           sq == Append(spans, s)
           pushed == Append(stack, New)
           su == [stores EXCEPT ![store].stack = pushed]
           lew == Deepened(spans, lev, s)
<1>1. /\ Tree(spans, stores) /\ Len(spans) \in Nat /\ Len(stores) \in Nat
      /\ stores \in Seq(StoreRecords) /\ New = Len(spans) + 1
  BY TreeTypes DEF Shape, Tree, New
<1>2. /\ store \in 1 .. Len(stores) /\ RootOf(store) = root /\ StackOf(store) = stack
      /\ StackOK(spans, store, root, stack) /\ stack \in Seq(Nat) /\ Len(stack) \in Nat
      /\ Len(stack) >= 1 /\ Last(stack) = stack[Len(stack)]
      /\ Last(stack) \in 1 .. Len(spans) /\ spans[Last(stack)].root = root
      /\ root \in 1 .. Len(spans) /\ spans[root].kind = "root"
  BY RunningStack DEF StartSpan
<1>3. spans' = sq /\ stores' = su /\ frames' = frames
  BY <1>2 DEF StartSpan
<1>4. s \in SpanRecords
  BY <1>1, <1>2 DEF SpanRecords, Opened, Kinds, Ends, Outcome
<1>5. /\ s.kind = "manual" /\ s.parent = Last(stack) /\ s.root = root
      /\ s.store = store /\ s.end = "open" /\ s.err = None /\ s.kept = None
  BY DEF Opened
<1> HIDE DEF s
<1>6. sq \in Seq(SpanRecords) /\ Opens(spans, sq, s)
  BY <1>1, <1>4, AppendOpens DEF Tree
<1> HIDE DEF sq
<1>7. /\ pushed \in Seq(Nat) /\ Len(pushed) = Len(stack) + 1
      /\ pushed[Len(stack) + 1] = Len(spans) + 1
      /\ \A n \in 1 .. Len(stack) : pushed[n] = stack[n]
  BY <1>1, <1>2, AppendProperties
<1>8. StackOK(sq, store, root, pushed)
  BY <1>1, <1>2, <1>5, <1>6, StackPushed
<1> HIDE DEF pushed
<1>9. /\ su \in Seq(StoreRecords) /\ Len(su) = Len(stores)
      /\ \A j \in 1 .. Len(stores) : su[j] = IF j = store THEN [root |-> root, stack |-> pushed]
                                                           ELSE stores[j]
  <2> DEFINE r == [root |-> root, stack |-> pushed]
  <2>1. stores[store] \in StoreRecords
    BY <1>1, <1>2, TreeTypes
  <2>2. r \in StoreRecords
    BY <1>7, <2>1 DEF StoreRecords
  <2>3. su = [stores EXCEPT ![store] = r]
    <3>1. [stores[store] EXCEPT !.stack = pushed] = r
      BY <2>1 DEF StoreRecords
    <3> HIDE DEF r, stack, root, store
    <3> QED BY <3>1
  <2> HIDE DEF r, su
  <2> QED BY <1>1, <1>2, <2>2, <2>3, ExceptSeq DEF r
<1> HIDE DEF su
<1>10. StacksGrow(stores, su)
  <2>1. ASSUME NEW j \in 1 .. Len(stores)
        PROVE  /\ su[j].root = stores[j].root /\ Len(stores[j].stack) <= Len(su[j].stack)
               /\ \A n \in 1 .. Len(stores[j].stack) : su[j].stack[n] = stores[j].stack[n]
    <3>1. CASE j = store
      <4>1. /\ su[j].root = root /\ su[j].stack = pushed
            /\ stores[j].root = root /\ stores[j].stack = stack
        BY <1>9, <3>1
      <4> HIDE DEF stack, root, store
      <4>2. Len(stack) <= Len(pushed)
        BY <1>2, <1>7
      <4> QED BY <1>7, <4>1, <4>2
    <3>2. CASE j # store
      <4>1. Len(stores[j].stack) \in Nat
        BY <1>1, TreeTypes
      <4> QED BY <1>9, <3>2, <4>1
    <3> QED BY <3>1, <3>2
  <2>2. Len(stores) <= Len(su)
    BY <1>1, <1>9
  <2> QED BY <2>1, <2>2 DEF StacksGrow
<1>11. ASSUME NEW j \in 1 .. Len(su)
       PROVE  StackOK(sq, j, su[j].root, su[j].stack)
  <2>1. CASE j = store
    BY <1>2, <1>8, <1>9, <2>1
  <2>2. CASE j # store
    <3>1. StackOK(spans, j, stores[j].root, stores[j].stack) /\ Len(stores[j].stack) \in Nat
      BY <1>1, <1>9, TreeTypes
    <3>2. StackOK(sq, j, stores[j].root, stores[j].stack)
      BY <1>1, <1>6, <3>1, StackStays
    <3> QED BY <1>9, <2>2, <3>2
  <2> QED BY <2>1, <2>2
<1>12. /\ \A i \in 1 .. Len(spans) : lew[i] = lev[i]
       /\ lew[Len(spans) + 1] = lev[Last(stack)] + 1
  BY <1>1, <1>2, <1>5, <1>6, LevelsStay
<1> HIDE DEF lew, stack, root, store
<1>13. Aligned(sq, su, lew)
  <2>1. ASSUME NEW j \in 1 .. Len(su), Nested(sq, su[j].root), NEW n \in 1 .. Len(su[j].stack)
        PROVE  lew[su[j].stack[n]] = n - 1
    <3>1. j \in 1 .. Len(stores) /\ su[j].root = stores[j].root
      BY <1>9, <1>10 DEF StacksGrow
    <3>2. Nested(spans, stores[j].root)
      BY <1>1, <1>6, <2>1, <3>1, NestedBefore
    <3>3. /\ \A m \in 1 .. Len(stores[j].stack) :
               stores[j].stack[m] \in 1 .. Len(spans) /\ lev[stores[j].stack[m]] = m - 1
      BY <1>1, <3>1, <3>2, TreeTypes DEF StackOK, Aligned
    <3>4. CASE n \in 1 .. Len(stores[j].stack)
      <4>1. su[j].stack[n] = stores[j].stack[n]
        BY <1>10, <3>1, <3>4 DEF StacksGrow
      <4> QED BY <1>12, <3>3, <3>4, <4>1
    <3>5. CASE n \notin 1 .. Len(stores[j].stack)
      <4>1. j = store /\ su[j].stack = pushed /\ stores[j].stack = stack
        <5>1. j = store
          BY <1>9, <2>1, <3>1, <3>5
        <5> QED BY <1>9, <3>1, <5>1 DEF stack
      <4>2. n = Len(stack) + 1
        BY <1>2, <1>7, <3>5, <4>1
      <4>3. Len(stack) \in 1 .. Len(stack)
        BY <1>2
      <4>4. lev[Last(stack)] = Len(stack) - 1
        BY <1>2, <3>3, <4>1, <4>3
      <4> QED BY <1>2, <1>7, <1>12, <4>1, <4>2, <4>4
    <3> QED BY <3>4, <3>5
  <2> QED BY <2>1 DEF Aligned
<1>14. Begins(spans, sq, su, frames, lev, s)
  <2>1. s.kind \in {"manual", "leaf"}
    BY <1>5
  <2>2. /\ s.parent \in 1 .. Len(spans) /\ spans[s.parent].root = s.root
        /\ s.root \in 1 .. Len(spans) /\ spans[s.root].kind = "root"
        /\ s.store \in 1 .. Len(stores) /\ stores[s.store].root = s.root
    BY <1>2, <1>5 DEF root
  <2>3. \A j \in 1 .. Len(su) : StackOK(sq, j, su[j].root, su[j].stack)
    BY <1>11
  <2> QED BY <1>4, <1>5, <1>9, <1>10, <1>13, <2>1, <2>2, <2>3, SpanBegins DEF lew, sq
<1> QED BY <1>3, <1>4, <1>14

-----------------------------------------------------------------------------
(* A span ends: it alone changes, and it was open.                         *)
Closes(sp, sq, s, how, err, kept) ==
  /\ Len(sq) = Len(sp) /\ s \in 1 .. Len(sp)
  /\ sp[s].end = "open" /\ sq[s].end = how /\ sq[s].err = err /\ sq[s].kept = kept
  /\ \A i \in 1 .. Len(sp) :
       /\ i # s => sq[i] = sp[i]
       /\ sq[i].kind = sp[i].kind /\ sq[i].parent = sp[i].parent
       /\ sq[i].root = sp[i].root /\ sq[i].store = sp[i].store

LEMMA EndedCloses ==
  ASSUME NEW sp \in Seq(SpanRecords), NEW s \in 1 .. Len(sp), NEW how \in Ends,
         NEW err \in Outcome, NEW kept \in Nat \cup {None}, sp[s].end = "open"
  PROVE  LET sq == [sp EXCEPT ![s].end = how, ![s].err = err, ![s].kept = kept]
         IN sq \in Seq(SpanRecords) /\ Closes(sp, sq, s, how, err, kept)
<1> DEFINE sq == [sp EXCEPT ![s].end = how, ![s].err = err, ![s].kept = kept]
           r == [kind |-> sp[s].kind, parent |-> sp[s].parent, root |-> sp[s].root,
                 store |-> sp[s].store, end |-> how, err |-> err, kept |-> kept]
<1>1. /\ sp[s] \in SpanRecords /\ DOMAIN sp = 1 .. Len(sp)
      /\ \A i \in 1 .. Len(sp) : sp[i] \in SpanRecords
  BY ElementOfSeq, LenProperties
<1>2. r \in SpanRecords
  BY <1>1 DEF SpanRecords
<1>3. sq = [sp EXCEPT ![s] = r]
  <2> DEFINE e == [sp[s] EXCEPT !.end = how, !.err = err, !.kept = kept]
  <2>1. e = r
    <3>1. /\ e \in SpanRecords
          /\ e.kind = sp[s].kind /\ e.parent = sp[s].parent /\ e.root = sp[s].root
          /\ e.store = sp[s].store /\ e.end = how /\ e.err = err /\ e.kept = kept
      BY <1>1 DEF SpanRecords
    <3>2. e = [kind |-> e.kind, parent |-> e.parent, root |-> e.root, store |-> e.store,
               end |-> e.end, err |-> e.err, kept |-> e.kept]
      <4> HIDE DEF e
      <4> QED BY <3>1 DEF SpanRecords
    <3> HIDE DEF e
    <3> QED BY <3>1, <3>2
  <2> HIDE DEF r
  <2> QED BY <1>1, <2>1
<1>4. /\ r.kind = sp[s].kind /\ r.parent = sp[s].parent /\ r.root = sp[s].root
      /\ r.store = sp[s].store /\ r.end = how /\ r.err = err /\ r.kept = kept
  OBVIOUS
<1> HIDE DEF r, sq
<1>5. /\ sq \in Seq(SpanRecords) /\ Len(sq) = Len(sp)
      /\ \A j \in 1 .. Len(sp) : sq[j] = IF j = s THEN r ELSE sp[j]
  BY <1>2, <1>3, ExceptSeq
<1> QED BY <1>4, <1>5 DEF Closes, sq

LEMMA NestedWhenClosed ==
  ASSUME NEW sp, NEW sq, NEW s, NEW how, NEW err, NEW kept,
         Closes(sp, sq, s, how, err, kept), NEW root, Nested(sq, root)
  PROVE  Nested(sp, root) /\ (sp[s].root = root => how \in {"open", "home"})
BY DEF Nested, Closes

LEMMA LevelsWhenClosed ==
  ASSUME NEW sp, NEW sq, NEW s, NEW how, NEW err, NEW kept,
         Closes(sp, sq, s, how, err, kept), NEW lev, Levels(sp, lev)
  PROVE  Levels(sq, lev)
BY DEF Levels, Closes

LEMMA StackWhenClosed ==
  ASSUME NEW sp, NEW sq, NEW s, NEW how, NEW err, NEW kept,
         Closes(sp, sq, s, how, err, kept), NEW j, NEW root, NEW stack,
         Len(stack) \in Nat, StackOK(sp, j, root, stack),
         sp[s].kind = "manual" /\ sp[s].store = j /\ (\E n \in 1 .. Len(stack) : stack[n] = s)
           => how = "abroad"
  PROVE  StackOK(sq, j, root, stack)
<1>1. /\ 1 \in 1 .. Len(stack) /\ Len(stack) \in 1 .. Len(stack)
      /\ \A n \in 1 .. Len(stack) : n > 1 => n - 1 \in 1 .. Len(stack)
  BY DEF StackOK
<1>2. \A n \in 1 .. Len(stack) :
        /\ stack[n] \in 1 .. Len(sp) /\ sq[stack[n]].root = sp[stack[n]].root
        /\ sq[stack[n]].kind = sp[stack[n]].kind /\ sq[stack[n]].store = sp[stack[n]].store
  BY DEF StackOK, Closes
<1>3. ASSUME NEW n \in 1 .. Len(stack), sq[stack[n]].store = j,
             sq[stack[n]].kind = "manual"
      PROVE  /\ n > 1 /\ sq[stack[n - 1]].store = j
             /\ sq[stack[n]].end \in {"open", "abroad"}
  <2>1. /\ n > 1 /\ sp[stack[n - 1]].store = j
        /\ sp[stack[n]].end \in {"open", "abroad"}
    BY <1>2, <1>3 DEF StackOK
  <2>2. sq[stack[n - 1]].store = j
    BY <1>1, <1>2, <2>1
  <2>3. CASE stack[n] = s
    <3>1. how = "abroad"
      BY <1>2, <1>3, <2>3
    <3> QED BY <2>1, <2>2, <2>3, <3>1 DEF Closes
  <2>4. CASE stack[n] # s
    BY <1>2, <2>1, <2>2, <2>4 DEF Closes
  <2> QED BY <2>3, <2>4
<1>4. \A n \in 1 .. Len(stack) :
        /\ stack[n] \in 1 .. Len(sq) /\ sq[stack[n]].root = root
        /\ sq[stack[n]].kind # "leaf"
  BY <1>2 DEF StackOK, Closes
<1>5. /\ Len(stack) >= 1 /\ stack[1] = root /\ sq[stack[Len(stack)]].store = j
      /\ \A n, m \in 1 .. Len(stack) : stack[n] = stack[m] => n = m
  BY <1>1, <1>2 DEF StackOK
<1> QED BY <1>3, <1>4, <1>5 DEF StackOK

(* popActiveSpan(): a manual span leaves the stack, wherever it is in it.  *)
Pops(sp, j, root, stack, s, popped) ==
  /\ popped \in Seq(Nat) /\ StackOK(sp, j, root, popped)
  /\ \A n \in 1 .. Len(popped) : popped[n] # s
  /\ \A n \in 1 .. Len(stack) :
       stack[n] # s => \E m \in 1 .. Len(popped) : popped[m] = stack[n]
  /\ (\A n \in 1 .. Len(stack) : stack[n] = s => n = Len(stack)) =>
       \A n \in 1 .. Len(popped) : n \in 1 .. Len(stack) /\ popped[n] = stack[n]

LEMMA PopLeaves ==
  ASSUME NEW sp, NEW j, NEW root, NEW stack \in Seq(Nat), StackOK(sp, j, root, stack),
         sp[root].kind = "root", NEW s, sp[s].kind = "manual"
  PROVE  Pops(sp, j, root, stack, s, PopActiveSpan(stack, s))
<1> DEFINE popped == PopActiveSpan(stack, s)
           p == SelectLastInSeq(stack, LAMBDA v : v = s)
           len == Len(stack)
<1>1. len \in Nat /\ DOMAIN stack = 1 .. len /\ len >= 1
  BY LenProperties DEF StackOK
<1>2. CASE s \notin ToSet(stack)
  <2>1. popped = stack /\ \A n \in 1 .. len : stack[n] # s
    BY <1>1, <1>2 DEF PopActiveSpan, ToSet
  <2> HIDE DEF popped
  <2> QED BY <2>1 DEF Pops, popped
<1>3. CASE s \in ToSet(stack)
  <2>1. \E i \in 1 .. len : stack[i] = s
    BY <1>1, <1>3 DEF ToSet
  <2>2. p \in 1 .. len /\ stack[p] = s
    BY <1>1, <2>1, LastPosition
  <2>3. popped = RemoveAt(stack, p)
    BY <1>3 DEF PopActiveSpan
  <2> HIDE DEF p, popped
  <2>4. /\ popped \in Seq(Nat) /\ Len(popped) = len - 1
        /\ \A n \in 1 .. len - 1 : popped[n] = IF n < p THEN stack[n] ELSE stack[n + 1]
    BY <2>2, <2>3, RemoveAtProperties
  <2> HIDE DEF len
  <2>5. /\ stack[1] = root /\ sp[stack[len]].store = j
        /\ \A n \in 1 .. len : /\ stack[n] \in 1 .. Len(sp) /\ sp[stack[n]].root = root
                               /\ sp[stack[n]].kind # "leaf"
        /\ \A n, m \in 1 .. len : stack[n] = stack[m] => n = m
        /\ \A n \in 1 .. len : sp[stack[n]].store = j /\ sp[stack[n]].kind = "manual" =>
             /\ n > 1 /\ sp[stack[n - 1]].store = j
             /\ sp[stack[n]].end \in {"open", "abroad"}
    BY DEF StackOK, len
  <2>6. p > 1 /\ len > 1
    <3>1. p # 1
      BY <2>2, <2>5
    <3> QED BY <1>1, <2>2, <3>1
  <2>7. ASSUME NEW n \in 1 .. len - 1
        PROVE  \E i \in 1 .. len : /\ popped[n] = stack[i] /\ i # p
                                   /\ i = IF n < p THEN n ELSE n + 1
    <3>1. (IF n < p THEN n ELSE n + 1) \in 1 .. len
      BY <1>1
    <3>2. (IF n < p THEN n ELSE n + 1) # p
      BY <2>2
    <3>3. popped[n] = stack[IF n < p THEN n ELSE n + 1]
      BY <2>4
    <3> QED BY <3>1, <3>2, <3>3
  <2>8. \A n \in 1 .. len - 1 : popped[n] # s
    BY <2>2, <2>5, <2>7
  <2>9. \A n \in 1 .. len : stack[n] # s => \E m \in 1 .. len - 1 : popped[m] = stack[n]
    BY <1>1, <2>2, <2>3, RemoveAtKeeps DEF len
  <2>10. ASSUME NEW n \in 1 .. len - 1, NEW m \in 1 .. len - 1, popped[n] = popped[m]
         PROVE  n = m
    <3>1. PICK i \in 1 .. len : popped[n] = stack[i] /\ i = IF n < p THEN n ELSE n + 1
      BY <2>7
    <3>2. PICK l \in 1 .. len : popped[m] = stack[l] /\ l = IF m < p THEN m ELSE m + 1
      BY <2>7
    <3>3. i = l
      <4>1. stack[i] = stack[l]
        BY <2>10, <3>1, <3>2
      <4> QED BY <2>5, <4>1
    <3> QED BY <1>1, <2>2, <3>1, <3>2, <3>3
  <2>11. popped[1] = root /\ Len(popped) >= 1
    BY <1>1, <2>2, <2>4, <2>5, <2>6
  <2>12. sp[popped[len - 1]].store = j
    <3>1. len - 1 \in 1 .. len - 1
      BY <1>1, <2>6
    <3>2. CASE p = len
      <4>1. popped[len - 1] = stack[len - 1]
        BY <1>1, <2>4, <3>1, <3>2
      <4>2. len \in 1 .. len
        BY <1>1
      <4>3. sp[stack[len - 1]].store = j
        BY <2>2, <2>5, <3>2, <4>2
      <4> QED BY <4>1, <4>3
    <3>3. CASE p # len
      <4>1. ~(len - 1 < p) /\ (len - 1) + 1 = len
        BY <1>1, <2>2, <3>3
      <4>2. popped[len - 1] = stack[len]
        BY <2>4, <3>1, <4>1
      <4> QED BY <2>5, <4>2
    <3> QED BY <3>2, <3>3
  <2>13. ASSUME NEW n \in 1 .. len - 1, sp[popped[n]].store = j, sp[popped[n]].kind = "manual"
         PROVE  /\ n > 1 /\ sp[popped[n - 1]].store = j
                /\ sp[popped[n]].end \in {"open", "abroad"}
    <3>1. PICK i \in 1 .. len : /\ popped[n] = stack[i] /\ i # p
                                /\ i = IF n < p THEN n ELSE n + 1
      BY <2>7
    <3>2. i > 1 /\ sp[stack[i - 1]].store = j /\ sp[popped[n]].end \in {"open", "abroad"}
      BY <2>5, <2>13, <3>1
    <3>3. CASE n < p
      <4>1. n > 1 /\ n - 1 \in 1 .. len - 1 /\ n - 1 < p /\ i - 1 = n - 1
        BY <1>1, <2>2, <3>1, <3>2, <3>3
      <4>2. popped[n - 1] = stack[i - 1]
        BY <2>4, <4>1
      <4> QED BY <3>2, <4>1, <4>2
    <3>4. CASE n = p
      <4>1. i - 1 = p /\ n > 1 /\ n - 1 \in 1 .. len - 1 /\ n - 1 < p /\ p - 1 = n - 1
        BY <1>1, <2>2, <2>6, <3>1, <3>4
      <4>2. sp[stack[p - 1]].store = j
        BY <2>2, <2>5, <3>2, <4>1
      <4>3. popped[n - 1] = stack[p - 1]
        BY <2>4, <4>1
      <4> QED BY <3>2, <4>1, <4>2, <4>3
    <3>5. CASE n > p
      <4>1. i - 1 = n /\ n > 1 /\ n - 1 \in 1 .. len - 1 /\ ~(n - 1 < p) /\ (n - 1) + 1 = n
        BY <1>1, <2>2, <3>1, <3>5
      <4>2. popped[n - 1] = stack[i - 1]
        BY <2>4, <4>1
      <4> QED BY <3>2, <4>1, <4>2
    <3> QED BY <2>2, <3>3, <3>4, <3>5
  <2>14. StackOK(sp, j, root, popped)
    <3>1. \A n \in 1 .. len - 1 : /\ popped[n] \in 1 .. Len(sp) /\ sp[popped[n]].root = root
                                  /\ sp[popped[n]].kind # "leaf"
      <4>1. ASSUME NEW n \in 1 .. len - 1
            PROVE  /\ popped[n] \in 1 .. Len(sp) /\ sp[popped[n]].root = root
                   /\ sp[popped[n]].kind # "leaf"
        <5>1. PICK i \in 1 .. len : popped[n] = stack[i]
          BY <2>7
        <5> QED BY <2>5, <5>1
      <4> QED BY <4>1
    <3> QED BY <2>4, <2>10, <2>11, <2>12, <2>13, <3>1 DEF StackOK
  <2>15. ASSUME \A n \in 1 .. len : stack[n] = s => n = len, NEW n \in 1 .. len - 1
         PROVE  n \in 1 .. len /\ popped[n] = stack[n]
    <3>1. p = len
      BY <2>2, <2>15
    <3> QED BY <1>1, <2>4, <3>1
  <2> QED BY <2>4, <2>8, <2>9, <2>14, <2>15 DEF Pops, len, popped
<1> QED BY <1>2, <1>3

(* What the end of a span leaves of the spans, stores, frames and levels.  *)
Finishes(sp, sq, su, gr, lev, s, how, err, kept) ==
  /\ Shape(sq, su, gr) /\ Levels(sq, lev) /\ Aligned(sq, su, lev)
  /\ Closes(sp, sq, s, how, err, kept)

LEMMA SpanFinishes ==
  ASSUME NEW sp, NEW st, NEW fr, Shape(sp, st, fr), NEW lev, Levels(sp, lev),
         NEW s, NEW how \in Ends \ {"open"}, NEW err, NEW kept,
         NEW sq \in Seq(SpanRecords), Closes(sp, sq, s, how, err, kept),
         how \in {"home", "crossed"} => kept \in {None, sp[s].root},
         NEW su \in Seq(StoreRecords), Len(su) = Len(st),
         \A j \in 1 .. Len(st) : su[j].root = st[j].root,
         \A j \in 1 .. Len(st) : \A n \in 1 .. Len(st[j].stack) :
           \/ \E m \in 1 .. Len(su[j].stack) : su[j].stack[m] = st[j].stack[n]
           \/ sp[st[j].stack[n]].kind = "manual",
         \A j \in 1 .. Len(st) : StackOK(sq, j, su[j].root, su[j].stack),
         \A j \in 1 .. Len(st) : Nested(sq, su[j].root) =>
           \A n \in 1 .. Len(su[j].stack) : lev[su[j].stack[n]] = n - 1,
         NEW gr, FramesOK(sp, st, gr), Fresh(gr, s)
  PROVE  Finishes(sp, sq, su, gr, lev, s, how, err, kept)
<1>1. /\ Tree(sp, st) /\ Len(sp) \in Nat /\ Len(st) \in Nat
  BY TreeTypes DEF Shape
<1>2. ASSUME NEW i \in 1 .. Len(sq) PROVE SpanOK(sq, su, i)
  <2>1. i \in 1 .. Len(sp) /\ SpanOK(sp, st, i)
    BY <1>1, TreeTypes DEF Closes
  <2>2. /\ sq[i].kind = sp[i].kind /\ sq[i].parent = sp[i].parent
        /\ sq[i].root = sp[i].root /\ sq[i].store = sp[i].store
    BY <2>1 DEF Closes
  <2>3. sp[i].root \in 1 .. Len(sp)
        /\ (sp[i].kind # "root" => sp[i].parent \in 1 .. Len(sp))
    <3>1. /\ \A p \in 1 .. i : p \in 1 .. Len(sp)
          /\ \A p \in 1 .. i - 1 : p \in 1 .. Len(sp)
      BY <1>1, <2>1
    <3> QED BY <2>1, <3>1 DEF SpanOK
  <2>4. /\ sq[i].root \in 1 .. i /\ sq[sq[i].root].kind = "root"
        /\ sq[i].kind = "root" => sq[i].parent = None /\ sq[i].root = i
        /\ sq[i].kind # "root" => sq[i].parent \in 1 .. i - 1 /\ sq[sq[i].parent].root = sq[i].root
    BY <2>1, <2>2, <2>3 DEF SpanOK, Closes
  <2>5. sq[i].store \in 1 .. Len(su) /\ su[sq[i].store].root = sq[i].root
    BY <1>1, <2>1, <2>2 DEF SpanOK
  <2>6. /\ sq[i].end = "open" => sq[i].err = None /\ sq[i].kept = None
        /\ sq[i].end \in {"home", "crossed"} => sq[i].kept \in {None, sq[i].root}
    <3>1. CASE i = s
      BY <2>2, <3>1 DEF Closes
    <3>2. CASE i # s
      BY <2>1, <3>2 DEF SpanOK, Closes
    <3> QED BY <3>1, <3>2
  <2>7. ASSUME sq[i].kind \in {"root", "scope"}
        PROVE  \E m \in 1 .. Len(su[sq[i].store].stack) : su[sq[i].store].stack[m] = i
    <3>1. PICK n \in 1 .. Len(st[sp[i].store].stack) : st[sp[i].store].stack[n] = i
      BY <2>1, <2>2, <2>7 DEF SpanOK
    <3>2. sp[i].store \in 1 .. Len(st) /\ sp[i].kind # "manual"
      BY <2>1, <2>2, <2>7 DEF SpanOK
    <3> QED BY <2>2, <3>1, <3>2
  <2> QED BY <2>4, <2>5, <2>6, <2>7 DEF SpanOK
<1>3. \A j \in 1 .. Len(su) : StackOK(sq, j, su[j].root, su[j].stack)
  OBVIOUS
<1>4. Tree(sq, su)
  BY <1>2, <1>3 DEF Tree
<1>5. FramesOK(sq, su, gr)
  <2>1. ASSUME NEW k \in Tasks, NEW n \in 1 .. Len(gr[k]), FrameOK(sp, st, gr[k][n])
        PROVE  FrameOK(sq, su, gr[k][n])
    <3>1. gr[k][n].span # None => gr[k][n].span # s
      BY TracingAssumption, <1>1 DEF Fresh, Closes
    <3> QED BY <2>1, <3>1 DEF FrameOK, Closes
  <2> QED BY <2>1, FramesStay
<1>6. Levels(sq, lev)
  BY LevelsWhenClosed
<1>7. Aligned(sq, su, lev)
  BY DEF Aligned
<1> QED BY <1>4, <1>5, <1>6, <1>7 DEF Finishes, Shape

(* Where nothing is popped.                                                *)
LEMMA UnpoppedFinishes ==
  ASSUME NEW sp, NEW st, NEW fr, Shape(sp, st, fr), NEW lev, Levels(sp, lev),
         Aligned(sp, st, lev),
         NEW s, NEW how \in Ends \ {"open"}, NEW err, NEW kept,
         NEW sq \in Seq(SpanRecords), Closes(sp, sq, s, how, err, kept),
         how \in {"home", "crossed"} => kept \in {None, sp[s].root},
         sp[s].kind = "manual" => how = "abroad",
         NEW gr, FramesOK(sp, st, gr), Fresh(gr, s)
  PROVE  Finishes(sp, sq, st, gr, lev, s, how, err, kept)
<1>1. /\ Tree(sp, st) /\ Len(sp) \in Nat /\ Len(st) \in Nat /\ st \in Seq(StoreRecords)
  BY TreeTypes DEF Shape, Tree
<1>2. \A j \in 1 .. Len(st) : StackOK(sq, j, st[j].root, st[j].stack)
  <2>1. ASSUME NEW j \in 1 .. Len(st) PROVE StackOK(sq, j, st[j].root, st[j].stack)
    <3>1. StackOK(sp, j, st[j].root, st[j].stack) /\ Len(st[j].stack) \in Nat
      BY <1>1, TreeTypes
    <3> QED BY <3>1, StackWhenClosed
  <2> QED BY <2>1
<1>3. \A j \in 1 .. Len(st) : Nested(sq, st[j].root) =>
        \A n \in 1 .. Len(st[j].stack) : lev[st[j].stack[n]] = n - 1
  BY NestedWhenClosed DEF Aligned
<1>4. \A j \in 1 .. Len(st) : \A n \in 1 .. Len(st[j].stack) :
           \/ \E m \in 1 .. Len(st[j].stack) : st[j].stack[m] = st[j].stack[n]
           \/ sp[st[j].stack[n]].kind = "manual"
  OBVIOUS
<1> QED BY <1>1, <1>2, <1>3, <1>4, SpanFinishes

-----------------------------------------------------------------------------
(* The actions that end a span: what becomes of the spans, and what the    *)
(* tracker is told.  At home the span's own root answers for it, and in a  *)
(* nested trace its depth is its distance from the root.                   *)
Told(lev, s, store, trace, err, how) ==
  /\ trace \in Nat \cup {None} /\ Key(store, trace) \in Nat \cup {None}
  /\ how \in {"home", "crossed"} => trace = spans[s].root /\ Key(store, trace) = spans[s].root
  /\ SpanDepth(s, store) \in Nat
  /\ Nested(spans, spans[s].root) /\ how = "home" => SpanDepth(s, store) = lev[s]

Ending(lev, sq, su, gr, s, store, trace, err, how) ==
  /\ Finishes(spans, sq, su, gr, lev, s, how, err, KeptBy(Key(store, trace), err))
  /\ Told(lev, s, store, trace, err, how) /\ how \in Ends \ {"open"} /\ err \in Outcome

LEMMA DepthInStack ==
  ASSUME Shape(spans, stores, frames), NEW lev, Aligned(spans, stores, lev), NEW s,
         NEW store \in 1 .. Len(stores)
  PROVE  /\ SpanDepth(s, store) \in Nat
         /\ StackOf(store) = stores[store].stack /\ RootOf(store) = stores[store].root
         /\ (\E n \in 1 .. Len(stores[store].stack) : stores[store].stack[n] = s) =>
              (Nested(spans, stores[store].root) => SpanDepth(s, store) = lev[s])
         /\ ~(\E n \in 1 .. Len(stores[store].stack) : stores[store].stack[n] = s) =>
              SpanDepth(s, store) = Len(stores[store].stack)
<1> DEFINE stack == stores[store].stack
           p == SelectInSeq(stack, LAMBDA v : v = s)
<1>1. Tree(spans, stores) /\ Len(stores) \in Nat
  BY TreeTypes DEF Shape
<1>2. Len(stack) \in Nat /\ DOMAIN stack = 1 .. Len(stack)
  BY <1>1, TreeTypes
<1>3. store # None
  BY <1>1, NoneIsNoNumber
<1>4. StackOf(store) = stack /\ RootOf(store) = stores[store].root
  BY <1>3 DEF StackOf, RootOf
<1>5. s \in ToSet(stack) <=> \E n \in 1 .. Len(stack) : stack[n] = s
  BY <1>2 DEF ToSet
<1>6. CASE \E n \in 1 .. Len(stack) : stack[n] = s
  <2>1. p \in 1 .. Len(stack) /\ stack[p] = s
    BY <1>2, <1>6, FirstPosition
  <2>2. SpanDepth(s, store) = p - 1
    BY <1>4, <1>5, <1>6 DEF SpanDepth
  <2> HIDE DEF p
  <2>3. Nested(spans, stores[store].root) => lev[stack[p]] = p - 1
    BY <2>1 DEF Aligned
  <2> QED BY <1>2, <1>4, <1>6, <2>1, <2>2, <2>3
<1>7. CASE ~(\E n \in 1 .. Len(stack) : stack[n] = s)
  <2>1. SpanDepth(s, store) = Len(stack)
    BY <1>4, <1>5, <1>7 DEF SpanDepth
  <2> QED BY <1>2, <1>4, <1>7, <2>1
<1> QED BY <1>6, <1>7

LEMMA EndedSpan ==
  ASSUME Shape(spans, stores, frames), NEW s \in 1 .. Len(spans), spans[s].end = "open",
         NEW how \in Ends, NEW err \in Outcome, NEW key \in Nat \cup {None},
         Ended(s, how, err, key)
  PROVE  /\ spans' \in Seq(SpanRecords)
         /\ Closes(spans, spans', s, how, err, KeptBy(key, err))
         /\ KeptBy(key, err) \in {None, key}
<1>1. spans \in Seq(SpanRecords)
  BY DEF Shape, Tree
<1>2. KeptBy(key, err) \in {None, key}
  BY DEF KeptBy
<1>3. KeptBy(key, err) \in Nat \cup {None}
  BY <1>2
<1>4. spans' = [spans EXCEPT ![s].end = how, ![s].err = err, ![s].kept = KeptBy(key, err)]
  BY DEF Ended
<1> QED BY <1>1, <1>2, <1>3, <1>4, EndedCloses

(* The innermost call of a task, if it is a span.                          *)
LEMMA InnermostSpan ==
  ASSUME Shape(spans, stores, frames), NEW lev, Aligned(spans, stores, lev), NEW k \in Tasks,
         frames[k] # <<>>, Last(frames[k]).span # None
  PROVE  LET s == Last(frames[k]).span  store == Context(k)
         IN /\ s \in 1 .. Len(spans) /\ spans[s].store = store /\ spans[s].end = "open"
            /\ spans[s].kind \in {"root", "scope"} /\ store \in 1 .. Len(stores)
            /\ RootOf(store) = spans[s].root /\ spans[s].root \in Nat
            /\ Key(store, spans[s].root) = spans[s].root
            /\ SpanDepth(s, store) \in Nat
            /\ Nested(spans, spans[s].root) => SpanDepth(s, store) = lev[s]
            /\ FramesOK(spans, stores, [frames EXCEPT ![k] = Front(frames[k])])
            /\ Fresh([frames EXCEPT ![k] = Front(frames[k])], s)
<1> DEFINE s == Last(frames[k]).span
           store == Context(k)
<1>1. Tree(spans, stores) /\ FramesOK(spans, stores, frames) /\ Len(spans) \in Nat
  BY TreeTypes DEF Shape
<1>2. /\ Len(frames[k]) >= 1 /\ Last(frames[k]) = frames[k][Len(frames[k])]
      /\ FramesOK(spans, stores, [frames EXCEPT ![k] = Front(frames[k])])
      /\ Fresh([frames EXCEPT ![k] = Front(frames[k])], s)
  BY <1>1, FrameLeft
<1>3. Len(frames[k]) \in 1 .. Len(frames[k])
  BY <1>1, <1>2, FrameTypes
<1>4. FrameOK(spans, stores, Last(frames[k]))
  BY <1>1, <1>2, <1>3, FrameTypes
<1>5. store = Last(frames[k]).store
  BY DEF Context
<1>6. /\ s \in 1 .. Len(spans) /\ spans[s].store = store /\ spans[s].end = "open"
      /\ spans[s].kind \in {"root", "scope"} /\ store \in 1 .. Len(stores)
  BY <1>4, <1>5 DEF FrameOK
<1> HIDE DEF s, store
<1>7. SpanOK(spans, stores, s)
  BY <1>1, <1>6, TreeTypes
<1>8. /\ stores[store].root = spans[s].root /\ spans[s].root \in Nat
      /\ \E n \in 1 .. Len(stores[store].stack) : stores[store].stack[n] = s
  BY <1>1, <1>6, <1>7 DEF SpanOK
<1>9. /\ SpanDepth(s, store) \in Nat /\ RootOf(store) = stores[store].root
      /\ Nested(spans, spans[s].root) => SpanDepth(s, store) = lev[s]
  BY <1>6, <1>8, DepthInStack
<1>10. Key(store, spans[s].root) = spans[s].root
  BY <1>8, <1>9 DEF Key
<1> QED BY <1>2, <1>6, <1>8, <1>9, <1>10 DEF s, store

LEMMA ScopeEndsEnding ==
  ASSUME Shape(spans, stores, frames), NEW lev, Levels(spans, lev),
         Aligned(spans, stores, lev), NEW k \in Tasks, NEW err \in Outcome, NEW own,
         ScopeEnds(k, err, own)
  PROVE  LET s == Last(frames[k]).span  store == Context(k)  trace == RootOf(store)
         IN /\ Ending(lev, spans', stores', frames', s, store, trace, err, "home")
            /\ trace # None
            /\ t' = ThenOwn(Recorded(s, store, trace, err), s, store, err, own)
<1> DEFINE s == Last(frames[k]).span
           store == Context(k)
           trace == RootOf(store)
<1>1. /\ s \in 1 .. Len(spans) /\ spans[s].store = store /\ spans[s].end = "open"
      /\ store \in 1 .. Len(stores)
      /\ RootOf(store) = spans[s].root /\ spans[s].root \in Nat
      /\ Key(store, spans[s].root) = spans[s].root
      /\ SpanDepth(s, store) \in Nat
      /\ Nested(spans, spans[s].root) => SpanDepth(s, store) = lev[s]
      /\ FramesOK(spans, stores, [frames EXCEPT ![k] = Front(frames[k])])
      /\ Fresh([frames EXCEPT ![k] = Front(frames[k])], s)
  BY InnermostSpan DEF ScopeEnds
<1>2. /\ spans[s].kind = "scope" /\ Ended(s, "home", err, trace)
      /\ t' = ThenOwn(Recorded(s, store, trace, err), s, store, err, own)
      /\ frames' = [frames EXCEPT ![k] = Front(frames[k])] /\ stores' = stores
  BY DEF ScopeEnds
<1> HIDE DEF s, store, trace
<1>3. "home" \in Ends \ {"open"}
  BY DEF Ends
<1>4. trace = spans[s].root /\ trace \in Nat /\ Key(store, trace) = trace
  BY <1>1 DEF trace
<1>5. /\ spans' \in Seq(SpanRecords)
      /\ Closes(spans, spans', s, "home", err, KeptBy(trace, err))
      /\ KeptBy(trace, err) \in {None, trace}
  BY <1>1, <1>2, <1>3, <1>4, EndedSpan
<1>6. Finishes(spans, spans', stores', frames', lev, s, "home", err, KeptBy(trace, err))
  BY <1>1, <1>2, <1>3, <1>4, <1>5, UnpoppedFinishes
<1>7. Told(lev, s, store, trace, err, "home")
  BY <1>1, <1>4 DEF Told
<1> QED BY <1>2, <1>3, <1>4, <1>6, <1>7, NoneIsNoNumber DEF Ending, s, store, trace

LEMMA RootEndsEnding ==
  ASSUME Shape(spans, stores, frames), NEW lev, Levels(spans, lev),
         Aligned(spans, stores, lev), NEW k \in Tasks, NEW err \in Outcome,
         RootEnds(k, err)
  PROVE  LET s == Last(frames[k]).span  store == Context(k)
         IN /\ Ending(lev, spans', stores', frames', s, store, s, err, "home")
            /\ s \in 1 .. Len(spans) /\ spans[s].root = s /\ Key(store, s) = s
            /\ t' = CompleteLocalRoot(Recorded(s, store, s, err), s, FALSE)
<1> DEFINE s == Last(frames[k]).span
           store == Context(k)
<1>1. /\ s \in 1 .. Len(spans) /\ spans[s].store = store /\ spans[s].end = "open"
      /\ store \in 1 .. Len(stores)
      /\ RootOf(store) = spans[s].root /\ spans[s].root \in Nat
      /\ Key(store, spans[s].root) = spans[s].root
      /\ SpanDepth(s, store) \in Nat
      /\ Nested(spans, spans[s].root) => SpanDepth(s, store) = lev[s]
      /\ FramesOK(spans, stores, [frames EXCEPT ![k] = Front(frames[k])])
      /\ Fresh([frames EXCEPT ![k] = Front(frames[k])], s)
  BY InnermostSpan DEF RootEnds
<1>2. /\ spans[s].kind = "root" /\ Ended(s, "home", err, s)
      /\ t' = CompleteLocalRoot(Recorded(s, store, s, err), s, FALSE)
      /\ frames' = [frames EXCEPT ![k] = Front(frames[k])] /\ stores' = stores
  BY DEF RootEnds
<1> HIDE DEF s, store
<1>3. "home" \in Ends \ {"open"}
  BY DEF Ends
<1>4. spans[s].root = s
  <2>1. SpanOK(spans, stores, s)
    BY <1>1, TreeTypes DEF Shape
  <2> QED BY <1>2, <2>1 DEF SpanOK
<1>5. /\ spans' \in Seq(SpanRecords)
      /\ Closes(spans, spans', s, "home", err, KeptBy(s, err))
      /\ KeptBy(s, err) \in {None, s}
  BY <1>1, <1>2, <1>3, <1>4, EndedSpan
<1>6. Finishes(spans, spans', stores', frames', lev, s, "home", err, KeptBy(s, err))
  BY <1>1, <1>2, <1>3, <1>4, <1>5, UnpoppedFinishes
<1>7. Told(lev, s, store, s, err, "home")
  BY <1>1, <1>4 DEF Told
<1> QED BY <1>1, <1>2, <1>3, <1>4, <1>6, <1>7 DEF Ending, s, store

LEMMA HowEndedSays ==
  ASSUME NEW s, NEW store, NEW top
  PROVE  LET how == HowEnded(s, store, top) IN
         /\ how \in Ends \ {"open"}
         /\ how \in {"home", "crossed"} => store = spans[s].store
         /\ store # spans[s].store => how = "abroad"
         /\ how = "home" => Last(StackOf(store)) = top
BY DEF HowEnded, Ends

LEMMA NoContext ==
  /\ RootOf(None) = None /\ Key(None, None) = None /\ StackOf(None) = <<>>
  /\ \A s : SpanDepth(s, None) = 0
<1>1. RootOf(None) = None /\ StackOf(None) = <<>> /\ ToSet(<<>>) = {} /\ Len(<<>>) = 0
  BY DEF RootOf, StackOf, ToSet
<1> QED BY <1>1 DEF Key, SpanDepth

LEMMA EndLeafEnding ==
  ASSUME Shape(spans, stores, frames), NEW lev, Levels(spans, lev),
         Aligned(spans, stores, lev), NEW k \in Tasks, NEW s \in DOMAIN spans,
         NEW err \in Outcome, NEW own, EndLeaf(k, s, err, own)
  PROVE  LET store == Context(k)  trace == spans[s].root
             how == HowEnded(s, store, spans[s].parent)
         IN /\ Ending(lev, spans', stores', frames', s, store, trace, err, how)
            /\ trace # None
            /\ t' = ThenOwn(Recorded(s, store, trace, err), s, store, err, own)
<1> DEFINE store == Context(k)
           trace == spans[s].root
           how == HowEnded(s, store, spans[s].parent)
           key == Key(store, trace)
<1>1. /\ Tree(spans, stores) /\ FramesOK(spans, stores, frames) /\ s \in 1 .. Len(spans)
      /\ Len(spans) \in Nat
  BY TreeTypes DEF Shape
<1>2. /\ spans[s].kind = "leaf" /\ spans[s].end = "open" /\ Ended(s, how, err, key)
      /\ t' = ThenOwn(Recorded(s, store, trace, err), s, store, err, own)
      /\ stores' = stores /\ frames' = frames
  BY DEF EndLeaf
<1>3. /\ how \in Ends \ {"open"} /\ (how \in {"home", "crossed"} => store = spans[s].store)
      /\ (how = "home" => Last(StackOf(store)) = spans[s].parent)
  BY HowEndedSays
<1>4. SpanOK(spans, stores, s)
  BY <1>1, TreeTypes
<1>5. /\ trace \in Nat /\ spans[s].store \in 1 .. Len(stores)
      /\ stores[spans[s].store].root = trace /\ spans[s].parent \in 1 .. Len(spans)
      /\ spans[s].kind # "root"
  BY <1>1, <1>2, <1>4 DEF SpanOK
<1>6. store = None \/ store \in 1 .. Len(stores)
  BY ContextOf
<1> HIDE DEF store, how, trace
<1>7. key \in {None, trace}
  BY DEF Key
<1>8. SpanDepth(s, store) \in Nat
  BY <1>6, NoContext, DepthInStack
<1>9. ASSUME how \in {"home", "crossed"}
      PROVE  /\ RootOf(store) = trace /\ key = trace
             /\ StackOf(store) = stores[store].stack
  BY <1>3, <1>5, <1>9, DepthInStack DEF Key
<1>10. ASSUME Nested(spans, trace), how = "home"
       PROVE  SpanDepth(s, store) = lev[s]
  <2> DEFINE stack == stores[store].stack
  <2>1. store = spans[s].store /\ Last(stack) = spans[s].parent
    BY <1>3, <1>9, <1>10
  <2>2. StackOK(spans, store, trace, stack) /\ Len(stack) \in Nat
    BY <1>1, <1>5, <2>1, TreeTypes
  <2>3. ~(\E n \in 1 .. Len(stack) : stack[n] = s)
    BY <1>2, <2>2 DEF StackOK
  <2>4. SpanDepth(s, store) = Len(stack)
    BY <1>5, <2>1, <2>3, DepthInStack
  <2>5. Len(stack) \in 1 .. Len(stack) /\ Last(stack) = stack[Len(stack)]
    BY <2>2 DEF StackOK, Last
  <2>6. lev[stack[Len(stack)]] = Len(stack) - 1
    BY <1>5, <1>10, <2>1, <2>5 DEF Aligned
  <2>7. lev[s] = lev[spans[s].parent] + 1
    BY <1>1, <1>5 DEF Levels
  <2> HIDE DEF stack
  <2>8. lev[spans[s].parent] = Len(stack) - 1
    BY <2>1, <2>5, <2>6
  <2>9. lev[s] = Len(stack)
    BY <2>2, <2>7, <2>8
  <2> QED BY <2>4, <2>9
<1>11. key \in Nat \cup {None}
  BY <1>5, <1>7
<1> HIDE DEF key
<1>12. /\ spans' \in Seq(SpanRecords)
       /\ Closes(spans, spans', s, how, err, KeptBy(key, err))
       /\ KeptBy(key, err) \in {None, key}
  BY <1>1, <1>2, <1>3, <1>11, EndedSpan
<1>13. Fresh(frames, s)
  <2>1. ASSUME NEW l \in Tasks, NEW n \in 1 .. Len(frames[l]) PROVE frames[l][n].span # s
    <3>1. FrameOK(spans, stores, frames[l][n])
      BY <1>1 DEF FramesOK
    <3> QED BY <1>1, <1>2, <3>1, NoneIsNoNumber DEF FrameOK
  <2> QED BY <2>1 DEF Fresh
<1>14. Finishes(spans, spans', stores', frames', lev, s, how, err, KeptBy(key, err))
  <2>1. spans[s].kind # "manual" /\ KeptBy(key, err) \in {None, trace}
    BY <1>2, <1>7, <1>12
  <2> QED BY <1>1, <1>2, <1>3, <1>12, <1>13, <2>1, UnpoppedFinishes DEF trace
<1>15. Told(lev, s, store, trace, err, how)
  BY <1>5, <1>8, <1>9, <1>10, <1>11 DEF Told, key, trace
<1> QED BY <1>2, <1>3, <1>5, <1>14, <1>15, NoneIsNoNumber DEF Ending, store, trace, how, key

LEMMA EndManualEnding ==
  ASSUME Shape(spans, stores, frames), NEW lev, Levels(spans, lev),
         Aligned(spans, stores, lev), NEW k \in Tasks, NEW s \in DOMAIN spans,
         NEW err \in Outcome, EndManual(k, s, err)
  PROVE  LET store == Context(k)  trace == RootOf(store)  how == HowEnded(s, store, s)
         IN /\ Ending(lev, spans', stores', frames', s, store, trace, err, how)
            /\ t' = Recorded(s, store, trace, err)
<1> DEFINE store == Context(k)
           trace == RootOf(store)
           how == HowEnded(s, store, s)
           stack == stores[store].stack
           popped == PopActiveSpan(stack, s)
<1>1. /\ Tree(spans, stores) /\ FramesOK(spans, stores, frames) /\ s \in 1 .. Len(spans)
      /\ Len(spans) \in Nat /\ Len(stores) \in Nat /\ stores \in Seq(StoreRecords)
  BY TreeTypes DEF Shape, Tree
<1>2. /\ spans[s].kind = "manual" /\ spans[s].end = "open" /\ Ended(s, how, err, trace)
      /\ t' = Recorded(s, store, trace, err) /\ frames' = frames
      /\ stores' = IF store = None THEN stores
                   ELSE [stores EXCEPT ![store].stack = popped]
  BY DEF EndManual
<1>3. /\ how \in Ends \ {"open"} /\ (how \in {"home", "crossed"} => store = spans[s].store)
      /\ (store # spans[s].store => how = "abroad")
      /\ (how = "home" => Last(StackOf(store)) = s)
  BY HowEndedSays
<1>4. SpanOK(spans, stores, s)
  BY <1>1, TreeTypes
<1>5. /\ spans[s].root \in Nat /\ spans[s].store \in 1 .. Len(stores)
      /\ stores[spans[s].store].root = spans[s].root
  BY <1>1, <1>4 DEF SpanOK
<1>6. store = None \/ store \in 1 .. Len(stores)
  BY ContextOf
<1>7. /\ SpanDepth(s, store) \in Nat
      /\ store # None => /\ StackOf(store) = stack /\ trace = stores[store].root
                         /\ trace \in Nat /\ trace \in 1 .. Len(spans)
                         /\ spans[trace].kind = "root"
                         /\ StackOK(spans, store, trace, stack)
                         /\ stack \in Seq(Nat) /\ Len(stack) \in Nat
      /\ store = None => trace = None
  <2>1. CASE store = None
    BY <2>1, NoContext
  <2>2. CASE store # None
    BY <1>6, <2>2, DepthInStack, RunningStack, <1>1
  <2> QED BY <2>1, <2>2
<1>8. Key(store, trace) = trace /\ trace \in Nat \cup {None}
  BY <1>7 DEF Key
<1>9. how = "home" => \E n \in 1 .. Len(stack) : stack[n] = s
  <2>1. ASSUME how = "home" PROVE stack[Len(stack)] = s /\ Len(stack) \in 1 .. Len(stack)
    <3>1. store # None
      BY <1>3, <1>5, <2>1, NoneIsNoNumber
    <3> QED BY <1>3, <1>7, <2>1, <3>1 DEF StackOK, Last
  <2> QED BY <2>1
<1>10. ASSUME how \in {"home", "crossed"}
       PROVE  store # None /\ trace = spans[s].root /\ store \in 1 .. Len(stores)
  BY <1>3, <1>5, <1>6, <1>7, <1>10, NoneIsNoNumber
<1>11. ASSUME Nested(spans, spans[s].root), how = "home"
       PROVE  SpanDepth(s, store) = lev[s]
  BY <1>5, <1>9, <1>10, <1>11, <1>3, DepthInStack
<1> HIDE DEF store, trace, how, stack
<1>12. /\ spans' \in Seq(SpanRecords)
       /\ Closes(spans, spans', s, how, err, KeptBy(trace, err))
       /\ KeptBy(trace, err) \in {None, trace}
  BY <1>1, <1>2, <1>3, <1>8, EndedSpan
<1>13. Fresh(frames, s)
  <2>1. ASSUME NEW l \in Tasks, NEW n \in 1 .. Len(frames[l]) PROVE frames[l][n].span # s
    <3>1. FrameOK(spans, stores, frames[l][n])
      BY <1>1 DEF FramesOK
    <3> QED BY <1>1, <1>2, <3>1, NoneIsNoNumber DEF FrameOK
  <2> QED BY <2>1 DEF Fresh
<1>14. Finishes(spans, spans', stores', frames', lev, s, how, err, KeptBy(trace, err))
  <2>1. how \in {"home", "crossed"} => KeptBy(trace, err) \in {None, spans[s].root}
    BY <1>10, <1>12
  <2>2. CASE store = None
    <3>1. how = "abroad" /\ stores' = stores
      BY <1>2, <1>3, <1>5, <2>2, NoneIsNoNumber
    <3> QED BY <1>1, <1>2, <1>3, <1>12, <1>13, <2>1, <3>1, UnpoppedFinishes
  <2>3. CASE store # None
    <3> DEFINE r == [root |-> trace, stack |-> popped]
    <3>1. /\ popped \in Seq(Nat) /\ StackOK(spans, store, trace, popped)
          /\ \A n \in 1 .. Len(popped) : popped[n] # s
          /\ \A n \in 1 .. Len(stack) :
               stack[n] # s => \E m \in 1 .. Len(popped) : popped[m] = stack[n]
          /\ (\A n \in 1 .. Len(stack) : stack[n] = s => n = Len(stack)) =>
               \A n \in 1 .. Len(popped) : n \in 1 .. Len(stack) /\ popped[n] = stack[n]
      <4>1. /\ stack \in Seq(Nat) /\ StackOK(spans, store, trace, stack)
            /\ spans[trace].kind = "root" /\ spans[s].kind = "manual"
        BY <1>2, <1>7, <2>3
      <4>2. Pops(spans, store, trace, stack, s, popped)
        BY <4>1, PopLeaves
      <4> HIDE DEF popped
      <4> QED BY <4>2 DEF Pops
    <3> HIDE DEF popped
    <3>2. Len(popped) \in Nat
      BY <3>1, LenProperties
    <3>3. /\ stores' \in Seq(StoreRecords) /\ Len(stores') = Len(stores)
          /\ \A j \in 1 .. Len(stores) : stores'[j] = IF j = store THEN r ELSE stores[j]
      <4>1. stores[store] \in StoreRecords
        BY <1>1, <1>6, <2>3, TreeTypes
      <4>2. r \in StoreRecords
        BY <1>7, <2>3, <3>1 DEF StoreRecords
      <4>3. stores' = [stores EXCEPT ![store] = r]
        <5>1. [stores[store] EXCEPT !.stack = popped] = r
          <6>1. stores[store].root = trace
            BY <1>7, <2>3
          <6> QED BY <4>1, <6>1 DEF StoreRecords
        <5> HIDE DEF r
        <5> QED BY <1>2, <2>3, <5>1
      <4> HIDE DEF r
      <4> QED BY <1>1, <1>6, <2>3, <4>2, <4>3, ExceptSeq
    <3>4. stores'[store].root = trace /\ stores'[store].stack = popped
      BY <1>6, <2>3, <3>3
    <3>5. \A j \in 1 .. Len(stores) : stores'[j].root = stores[j].root
      BY <1>7, <2>3, <3>3, <3>4
    <3>6. ASSUME NEW j \in 1 .. Len(stores), NEW n \in 1 .. Len(stores[j].stack)
          PROVE  \/ \E m \in 1 .. Len(stores'[j].stack) :
                      stores'[j].stack[m] = stores[j].stack[n]
                 \/ spans[stores[j].stack[n]].kind = "manual"
      <4>1. CASE j = store
        BY <1>2, <3>1, <3>4, <4>1 DEF stack
      <4>2. CASE j # store
        BY <3>3, <4>2
      <4> QED BY <4>1, <4>2
    <3>7. ASSUME NEW j \in 1 .. Len(stores)
          PROVE  StackOK(spans', j, stores'[j].root, stores'[j].stack)
      <4>1. CASE j = store
        <5>1. StackOK(spans', store, trace, popped)
          BY <1>12, <3>1, <3>2, StackWhenClosed
        <5> QED BY <3>4, <4>1, <5>1
      <4>2. CASE j # store
        <5>1. StackOK(spans, j, stores[j].root, stores[j].stack) /\ Len(stores[j].stack) \in Nat
          BY <1>1, TreeTypes
        <5>2. spans[s].store = j => how = "abroad"
          BY <1>3, <4>2
        <5>3. StackOK(spans', j, stores[j].root, stores[j].stack)
          BY <1>12, <5>1, <5>2, StackWhenClosed
        <5> QED BY <3>3, <4>2, <5>3
      <4> QED BY <4>1, <4>2
    <3>8. ASSUME NEW j \in 1 .. Len(stores), Nested(spans', stores'[j].root),
                 NEW n \in 1 .. Len(stores'[j].stack)
          PROVE  lev[stores'[j].stack[n]] = n - 1
      <4>1. /\ Nested(spans, stores[j].root)
            /\ spans[s].root = stores[j].root => how \in {"open", "home"}
        BY <1>12, <3>5, <3>8, NestedWhenClosed
      <4>2. \A m \in 1 .. Len(stores[j].stack) : lev[stores[j].stack[m]] = m - 1
        BY <4>1 DEF Aligned
      <4>3. CASE j = store
        <5>1. ASSUME NEW m \in 1 .. Len(stack), stack[m] = s PROVE m = Len(stack)
          <6>1. spans[s].root = trace
            BY <1>7, <2>3, <5>1 DEF StackOK
          <6>2. how = "home"
            BY <1>3, <1>7, <2>3, <4>1, <4>3, <6>1
          <6>3. stack[Len(stack)] = s /\ Len(stack) \in 1 .. Len(stack)
            BY <1>3, <1>7, <2>3, <6>2 DEF StackOK, Last
          <6> QED BY <1>7, <2>3, <5>1, <6>3 DEF StackOK
        <5>2. n \in 1 .. Len(stack) /\ popped[n] = stack[n]
          BY <3>1, <3>4, <3>8, <4>3, <5>1
        <5> QED BY <3>4, <4>2, <4>3, <5>2 DEF stack
      <4>4. CASE j # store
        BY <3>3, <3>8, <4>2, <4>4
      <4> QED BY <4>3, <4>4
    <3>9. /\ \A j \in 1 .. Len(stores) : \A n \in 1 .. Len(stores[j].stack) :
               \/ \E m \in 1 .. Len(stores'[j].stack) :
                      stores'[j].stack[m] = stores[j].stack[n]
               \/ spans[stores[j].stack[n]].kind = "manual"
          /\ \A j \in 1 .. Len(stores) : StackOK(spans', j, stores'[j].root, stores'[j].stack)
          /\ \A j \in 1 .. Len(stores) : Nested(spans', stores'[j].root) =>
               \A n \in 1 .. Len(stores'[j].stack) : lev[stores'[j].stack[n]] = n - 1
      BY <3>6, <3>7, <3>8
    <3> QED BY <1>1, <1>2, <1>3, <1>12, <1>13, <2>1, <3>3, <3>5, <3>9, SpanFinishes
  <2> QED BY <2>2, <2>3
<1>15. Told(lev, s, store, trace, err, how)
  BY <1>7, <1>8, <1>10, <1>11 DEF Told
<1> QED BY <1>2, <1>3, <1>8, <1>14, <1>15 DEF Ending, store, trace, how

-----------------------------------------------------------------------------
(* What the spans put in the tracker.  The best candidate of a root is the *)
(* error of a span that this root keeps, at the depth of that span if it   *)
(* ended at home in a nested trace.                                        *)
Best(sp, lev) ==
  {p \in Nat \X Candidates :
     /\ p[2].span \in 1 .. Len(sp) /\ sp[p[2].span].kept = p[1]
     /\ sp[p[2].span].err = p[2].error /\ sp[p[2].span].root = p[2].root
     /\ sp[p[2].span].end = "home" /\ Nested(sp, p[2].root) => p[2].depth = lev[p[2].span]}
Trace(sp, lev) ==
  [roots |-> Nat, candidates |-> Candidates, best |-> Best(sp, lev), boundary |-> {},
   scopes |-> {None}]

LEMMA TraceFields ==
  ASSUME NEW sp, NEW lev
  PROVE  /\ Trace(sp, lev).roots = Nat /\ Trace(sp, lev).candidates = Candidates
         /\ Trace(sp, lev).best = Best(sp, lev) /\ Trace(sp, lev).boundary = {}
         /\ Trace(sp, lev).scopes = {None}
BY DEF Trace

LEMMA InBest ==
  ASSUME NEW sp, NEW lev, NEW r, NEW c
  PROVE  <<r, c>> \in Best(sp, lev) <=>
           /\ r \in Nat /\ c \in Candidates
           /\ c.span \in 1 .. Len(sp) /\ sp[c.span].kept = r
           /\ sp[c.span].err = c.error /\ sp[c.span].root = c.root
           /\ sp[c.span].end = "home" /\ Nested(sp, c.root) => c.depth = lev[c.span]
BY DEF Best

(* More may be the best of a root as the spans go on, never less.          *)
LEMMA SoundGrows ==
  ASSUME NEW sp, NEW lev, NEW sq, NEW lew, NEW x, Sound(Trace(sp, lev), x),
         \A r, c : <<r, c>> \in Best(sp, lev) => <<r, c>> \in Best(sq, lew)
  PROVE  Sound(Trace(sq, lew), x)
<1> DEFINE V == Trace(sp, lev)
           W == Trace(sq, lew)
<1>1. /\ V.roots = W.roots /\ V.candidates = W.candidates /\ V.boundary = W.boundary
      /\ V.scopes = W.scopes /\ V.best = Best(sp, lev) /\ W.best = Best(sq, lew)
  BY TraceFields
<1> HIDE DEF V, W
<1>2. Entries(V) \subseteq Entries(W)
  BY <1>1 DEF Entries
<1>3. Events(V) = Events(W) /\ Named(V) = Named(W)
  BY <1>1 DEF Events, Named
<1>4. x \in Trackers(V)
  BY DEF Sound, V
<1>5. x.pending \in Seq(Entries(W))
  <2>1. x.pending \in Seq(Entries(V))
    BY <1>4 DEF Trackers
  <2> QED BY <1>2, <2>1, SeqMonotonic
<1>6. x \in Trackers(W)
  BY <1>1, <1>3, <1>4, <1>5 DEF Trackers
<1> QED BY <1>6 DEF Sound, W

LEMMA BestWhenBegun ==
  ASSUME NEW sp, NEW sq, NEW s, Opens(sp, sq, s), Len(sp) \in Nat, NEW lev, NEW lew,
         \A i \in 1 .. Len(sp) : lew[i] = lev[i],
         NEW r, NEW c, <<r, c>> \in Best(sp, lev)
  PROVE  <<r, c>> \in Best(sq, lew)
<1>1. /\ r \in Nat /\ c \in Candidates
      /\ c.span \in 1 .. Len(sp) /\ sp[c.span].kept = r
      /\ sp[c.span].err = c.error /\ sp[c.span].root = c.root
      /\ sp[c.span].end = "home" /\ Nested(sp, c.root) => c.depth = lev[c.span]
  BY InBest
<1>2. c.span \in 1 .. Len(sq) /\ sq[c.span] = sp[c.span] /\ lew[c.span] = lev[c.span]
  BY <1>1 DEF Opens
<1>3. Nested(sq, c.root) => Nested(sp, c.root)
  BY NestedBefore
<1> QED BY <1>1, <1>2, <1>3, InBest

LEMMA BestWhenClosed ==
  ASSUME NEW sp, NEW st, Tree(sp, st), NEW sq, NEW s, NEW how, NEW err, NEW kept,
         Closes(sp, sq, s, how, err, kept), NEW lev, NEW r, NEW c,
         <<r, c>> \in Best(sp, lev)
  PROVE  <<r, c>> \in Best(sq, lev)
<1>1. /\ r \in Nat /\ c \in Candidates
      /\ c.span \in 1 .. Len(sp) /\ sp[c.span].kept = r
      /\ sp[c.span].err = c.error /\ sp[c.span].root = c.root
      /\ sp[c.span].end = "home" /\ Nested(sp, c.root) => c.depth = lev[c.span]
  BY InBest
<1>2. c.span # s
  <2>1. SpanOK(sp, st, c.span)
    BY <1>1, TreeTypes
  <2> QED BY <1>1, <2>1, NoneIsNoNumber DEF SpanOK, Closes
<1>3. c.span \in 1 .. Len(sq) /\ sq[c.span] = sp[c.span]
  BY <1>1, <1>2 DEF Closes
<1>4. Nested(sq, c.root) => Nested(sp, c.root)
  BY NestedWhenClosed
<1> QED BY <1>1, <1>3, <1>4, InBest

(* Every entry has a best candidate and a root that is not closed; every   *)
(* failure at home is answered for; and the best candidate of a root that  *)
(* is open, was never evicted and is nested is no deeper than any of its   *)
(* spans whose error it kept.                                              *)
EntriesLive(x) == \A e \in Held(x) : e.best # None /\ e.root \notin ClosedRoots(x)

Answered(sp, x, root) ==
  \/ \E n \in 1 .. Len(sp) : root \in {sp[n].root, sp[n].kept} /\ sp[n].err \in x.captured
  \/ \E e \in Held(x) : e.root = root
AllAnswered(sp, x) ==
  \A i \in 1 .. Len(sp) :
    sp[i].end \in {"home", "crossed"} /\ sp[i].err # None => Answered(sp, x, sp[i].root)

Topmost(sp, lev, x, r) ==
  \A a \in 1 .. Len(sp) : sp[a].root = r /\ sp[a].kept = r =>
    \E e \in Held(x) : e.root = r /\ e.best.depth <= lev[a]
TopOf(sp, lev, x, r) ==
  r \notin x.evicted /\ Nested(sp, r) => Topmost(sp, lev, x, r)
TopInv(sp, lev, x) ==
  \A r \in 1 .. Len(sp) : sp[r].end = "open" => TopOf(sp, lev, x, r)

TrackerInv(sp, lev, x, gone) ==
  /\ Sound(Trace(sp, lev), x) /\ EntriesLive(x)
  /\ ~gone => x.client
  /\ ~gone /\ Enabled => AllAnswered(sp, x)
  /\ TopInv(sp, lev, x)

(* An entry: its best candidate is one that its root keeps.                *)
LEMMA BestOfEntry ==
  ASSUME NEW sp, NEW lev, NEW x, Sound(Trace(sp, lev), x), NEW e \in Held(x)
  PROVE  /\ e.boundary = None /\ e.root \in Nat
         /\ e.best # None => <<e.root, e.best>> \in Best(sp, lev)
<1>1. e \in Entries(Trace(sp, lev))
  BY PendingEntries DEF Held
<1> QED BY <1>1, TraceFields DEF Entries

(* The tracker goes on without the spans.                                  *)
LEMMA FollowsAnswers ==
  ASSUME NEW sp, NEW lev, NEW x, Sound(Trace(sp, lev), x), EntriesLive(x), NEW y,
         NEW roots, Follows(Trace(sp, lev), x, y, roots), x.client, Enabled,
         NEW root, root \notin roots, Answered(sp, x, root)
  PROVE  Answered(sp, y, root)
<1>1. CASE \E n \in 1 .. Len(sp) : root \in {sp[n].root, sp[n].kept} /\ sp[n].err \in x.captured
  BY <1>1 DEF Answered, Follows
<1>2. CASE \E e \in Held(x) : e.root = root
  <2>1. PICK e \in Held(x) : e.root = root
    BY <1>2
  <2>2. CASE \E f \in Held(y) : Match(e, f)
    BY <2>1, <2>2 DEF Answered, Match
  <2>3. CASE ~(\E f \in Held(y) : Match(e, f))
    <3>1. e.best # None /\ e.best.error \in y.captured
      BY <2>1, <2>3 DEF Follows, EntriesLive
    <3>2. <<e.root, e.best>> \in Best(sp, lev)
      BY <3>1, BestOfEntry
    <3>3. e.best.span \in 1 .. Len(sp) /\ sp[e.best.span].kept = root
          /\ sp[e.best.span].err \in y.captured
      BY <2>1, <3>1, <3>2, InBest
    <3> QED BY <3>3 DEF Answered
  <2> QED BY <2>2, <2>3
<1> QED BY <1>1, <1>2 DEF Answered

LEMMA FollowsTop ==
  ASSUME NEW sp, NEW lev, NEW x, NEW y, NEW roots, Follows(Trace(sp, lev), x, y, roots),
         NEW r, r \notin roots, TopOf(sp, lev, x, r)
  PROVE  TopOf(sp, lev, y, r)
<1>1. SUFFICES ASSUME r \notin y.evicted, Nested(sp, r), NEW a \in 1 .. Len(sp),
                      sp[a].root = r, sp[a].kept = r
               PROVE  \E e \in Held(y) : e.root = r /\ e.best.depth <= lev[a]
  BY DEF TopOf, Topmost
<1>2. PICK e \in Held(x) : e.root = r /\ e.best.depth <= lev[a]
  BY <1>1 DEF TopOf, Topmost, Follows
<1>3. PICK f \in Held(y) : Match(e, f)
  BY <1>1, <1>2 DEF Follows
<1> QED BY <1>2, <1>3 DEF Match

LEMMA FollowsKeepsAll ==
  ASSUME NEW sp, NEW lev, NEW x, NEW gone, TrackerInv(sp, lev, x, gone), NEW y,
         Follows(Trace(sp, lev), x, y, {})
  PROVE  TrackerInv(sp, lev, y, gone)
<1>1. Sound(Trace(sp, lev), y) /\ (~gone => y.client)
  BY DEF TrackerInv, Follows
<1>2. EntriesLive(y)
  BY DEF TrackerInv, EntriesLive, Follows, Match
<1>3. ~gone /\ Enabled => AllAnswered(sp, y)
  BY FollowsAnswers DEF TrackerInv, AllAnswered
<1>4. TopInv(sp, lev, y)
  BY FollowsTop DEF TrackerInv, TopInv
<1> QED BY <1>1, <1>2, <1>3, <1>4 DEF TrackerInv

(* The spans go on without the tracker: one begins.                        *)
LEMMA BeginsKeepsAll ==
  ASSUME NEW sp, NEW st, Tree(sp, st), NEW lev, Levels(sp, lev), NEW sq, NEW su, NEW gr,
         NEW s, Begins(sp, sq, su, gr, lev, s),
         NEW x, NEW gone, TrackerInv(sp, lev, x, gone)
  PROVE  Levels(sq, Deepened(sp, lev, s)) /\ TrackerInv(sq, Deepened(sp, lev, s), x, gone)
<1> DEFINE lew == Deepened(sp, lev, s)
<1>1. /\ Opens(sp, sq, s) /\ Len(sp) \in Nat /\ \A i \in 1 .. Len(sp) : SpanOK(sp, st, i)
      /\ s.end = "open" /\ s.kept = None /\ (s.kind # "root" => s.parent \in 1 .. Len(sp))
  BY TreeTypes DEF Begins
<1>2. Levels(sq, lew) /\ \A i \in 1 .. Len(sp) : lew[i] = lev[i]
  BY <1>1, LevelsStay
<1> HIDE DEF lew
<1>3. /\ \A i \in 1 .. Len(sp) : i \in 1 .. Len(sq) /\ sq[i] = sp[i]
      /\ \A i \in 1 .. Len(sq) : i \in 1 .. Len(sp) \/ (i = Len(sp) + 1 /\ sq[i] = s)
  BY <1>1 DEF Opens
<1>4. Sound(Trace(sq, lew), x)
  <2>1. \A r, c : <<r, c>> \in Best(sp, lev) => <<r, c>> \in Best(sq, lew)
    BY <1>1, <1>2, BestWhenBegun
  <2> QED BY <2>1, SoundGrows DEF TrackerInv
<1>5. ASSUME ~gone, Enabled, NEW i \in 1 .. Len(sq), sq[i].end \in {"home", "crossed"},
             sq[i].err # None
      PROVE  Answered(sq, x, sq[i].root)
  <2>1. i \in 1 .. Len(sp) /\ sq[i] = sp[i]
    BY <1>1, <1>3, <1>5
  <2>2. Answered(sp, x, sp[i].root)
    BY <1>5, <2>1 DEF TrackerInv, AllAnswered
  <2> QED BY <1>3, <2>1, <2>2 DEF Answered
<1>6. ASSUME NEW r \in 1 .. Len(sq), sq[r].end = "open", r \notin x.evicted, Nested(sq, r),
             NEW a \in 1 .. Len(sq), sq[a].root = r, sq[a].kept = r
      PROVE  \E e \in Held(x) : e.root = r /\ e.best.depth <= lew[a]
  <2>1. r # None
    BY <1>1, NoneIsNoNumber DEF Opens
  <2>2. a \in 1 .. Len(sp) /\ sq[a] = sp[a] /\ lew[a] = lev[a]
    BY <1>1, <1>2, <1>3, <1>6, <2>1
  <2>3. r \in 1 .. Len(sp)
    <3>1. sp[a].root \in 1 .. a
      BY <1>1, <2>2 DEF SpanOK
    <3> QED BY <1>1, <1>6, <2>2, <3>1
  <2>4. sp[r].end = "open" /\ Nested(sp, r)
    BY <1>1, <1>3, <1>6, <2>3, NestedBefore
  <2> QED BY <1>6, <2>2, <2>3, <2>4 DEF TrackerInv, TopInv, TopOf, Topmost
<1>7. TopInv(sq, lew, x)
  BY <1>6 DEF TopInv, TopOf, Topmost
<1>8. ~gone /\ Enabled => AllAnswered(sq, x)
  BY <1>5 DEF AllAnswered
<1>9. TrackerInv(sq, lew, x, gone)
  BY <1>4, <1>7, <1>8 DEF TrackerInv
<1> QED BY <1>2, <1>9 DEF lew

-----------------------------------------------------------------------------
(* A span that ends records its error, at most.  Either nothing is kept,   *)
(* and the error is captured if it could be, or the root keeps it and its  *)
(* entry has a best candidate at least as near to the root.                *)
Records(W, x, y, key, c, kept, err, trace) ==
  /\ Reports(x, y, StaleEvents(W) \cup {EventOf(x, c, "late")})
  /\ \/ /\ kept = None /\ Follows(W, x, y, {}) /\ y.evicted = x.evicted
        /\ x.client /\ Enabled /\ err # None /\ trace # None => err \in y.captured
     \/ /\ kept # None /\ kept = key /\ Follows(W, x, y, {key})
        /\ KeepsSpanError(x, y, key, c)

LEMMA FollowsNothing ==
  ASSUME NEW W, NEW x, Sound(W, x)
  PROVE  Follows(W, x, x, {})
BY DEF Follows, Match

LEMMA TraceCandidates ==
  ASSUME NEW c \in Candidates
  PROVE  c # None /\ c.depth \in Nat /\ c.error \in Errors
BY TracingAssumption DEF Candidates

LEMMA CandidateOfSpan ==
  ASSUME NEW s \in 1 .. Len(spans), Len(spans) \in Nat, spans[s].root \in Nat, NEW store,
         SpanDepth(s, store) \in Nat, NEW err \in Errors
  PROVE  LET c == Candidate(s, store, err) IN
         /\ c \in Candidates /\ c.error = err /\ c.span = s /\ c.root = spans[s].root
         /\ c.depth = SpanDepth(s, store)
BY DEF Candidate, Candidates

LEMMA RecordedRecords ==
  ASSUME Shape(spans, stores, frames), NEW lev, NEW sq, NEW su, NEW gr, NEW s, NEW store,
         NEW trace, NEW err, NEW how, Ending(lev, sq, su, gr, s, store, trace, err, how),
         Sound(Trace(spans, lev), t)
  PROVE  /\ Sound(Trace(sq, lev), t)
         /\ Records(Trace(sq, lev), t, Recorded(s, store, trace, err), Key(store, trace),
                    Candidate(s, store, err), KeptBy(Key(store, trace), err), err, trace)
<1> DEFINE key == Key(store, trace)
           kept == KeptBy(key, err)
           c == Candidate(s, store, err)
           W == Trace(sq, lev)
           y == Recorded(s, store, trace, err)
<1>1. /\ Closes(spans, sq, s, how, err, kept) /\ Told(lev, s, store, trace, err, how)
      /\ err \in Outcome /\ Tree(spans, stores)
  BY DEF Ending, Finishes, Shape
<1>2. /\ s \in 1 .. Len(spans) /\ Len(sq) = Len(spans) /\ Len(spans) \in Nat
      /\ spans[s].root \in Nat /\ sq[s].root = spans[s].root
      /\ sq[s].end = how /\ sq[s].err = err /\ sq[s].kept = kept
  <2>1. s \in 1 .. Len(spans) /\ Len(spans) \in Nat /\ spans[s] \in SpanRecords
    BY <1>1, TreeTypes DEF Closes
  <2> QED BY <1>1, <2>1 DEF Closes, SpanRecords
<1>3. key \in Nat \cup {None} /\ SpanDepth(s, store) \in Nat
  BY <1>1 DEF Told
<1>4. Sound(W, t)
  <2>1. \A r, d : <<r, d>> \in Best(spans, lev) => <<r, d>> \in Best(sq, lev)
    BY <1>1, BestWhenClosed
  <2> QED BY <2>1, SoundGrows
<1>5. t \in Trackers(W)
  BY <1>4 DEF Sound
<1>6. ASSUME y = t, kept = None,
             t.client /\ Enabled /\ err # None /\ trace # None => err \in t.captured
      PROVE  Records(W, t, y, key, c, kept, err, trace)
  <2>1. Follows(W, t, t, {})
    BY <1>4, FollowsNothing
  <2>2. Reports(t, t, StaleEvents(W) \cup {EventOf(t, c, "late")})
    BY <1>5, ReportsNothing
  <2> QED BY <1>6, <2>1, <2>2 DEF Records
<1>7. CASE err = None \/ trace = None \/ ~t.client
  <2>1. y = t
    BY <1>7 DEF Recorded
  <2>2. trace = None => key = None
    BY DEF Key
  <2>3. kept = None
    BY <1>7, <2>2 DEF KeptBy
  <2> QED BY <1>4, <1>6, <1>7, <2>1, <2>3
<1>8. CASE ~(err = None \/ trace = None \/ ~t.client)
  <2> DEFINE z == RecordSpanError(t, key, c)
  <2>1. y = z /\ t.client /\ err # None /\ err \in Errors
    BY <1>1, <1>8 DEF Recorded, Outcome
  <2>2. /\ c \in Candidates /\ c.error = err /\ c.span = s /\ c.root = spans[s].root
        /\ c.depth = SpanDepth(s, store) /\ c # None
    BY <1>2, <1>3, <2>1, CandidateOfSpan, TraceCandidates
  <2>3. /\ W.candidates = Candidates /\ W.roots = Nat /\ W.best = Best(sq, lev)
        /\ \A d \in Candidates : d.depth \in Int
    BY TraceFields, TraceCandidates
  <2>4. Tracking(t) <=> Enabled
    BY <2>1 DEF Tracking
  <2> HIDE DEF W, key, c
  <2>5. CASE kept # None
    <3>1. kept = key /\ key # None /\ key \in Nat /\ Tracking(t)
          /\ key \notin ClosedRoots(t) /\ c.error \notin t.captured
      BY <1>3, <2>2, <2>5 DEF KeptBy
    <3>2. Nested(sq, c.root) /\ sq[s].end = "home" => c.depth = lev[s]
      <4>1. Nested(sq, c.root) => Nested(spans, spans[s].root)
        BY <1>1, <2>2, NestedWhenClosed
      <4> QED BY <1>1, <1>2, <2>2, <4>1 DEF Told
    <3>3. <<key, c>> \in Best(sq, lev)
      BY <1>2, <2>2, <3>1, <3>2, InBest
    <3>4. /\ Follows(W, t, z, {key})
          /\ Reports(t, z, StaleEvents(W) \cup {EventOf(t, c, "late")})
          /\ \/ KeepsSpanError(t, z, key, c)
             \/ KeepsNoError(t, z, c) /\ Follows(W, t, z, {})
                /\ ~(key # None /\ key \notin ClosedRoots(t) /\ Tracking(t)
                      /\ c.error \notin t.captured)
      BY <1>4, <2>2, <2>3, <3>1, <3>3, RecordSpanErrorKeeps
    <3> QED BY <1>4, <2>1, <3>1, <3>4 DEF Records, W, key, c
  <2>6. CASE kept = None /\ (~Tracking(t) \/ c.error \in t.captured)
    <3>1. z = t
      BY <2>6 DEF RecordSpanError
    <3> QED BY <1>4, <1>6, <2>1, <2>2, <2>4, <2>6, <3>1 DEF W, key, c
  <2>7. CASE kept = None /\ ~(~Tracking(t) \/ c.error \in t.captured)
    <3>1. key = None \/ key \in ClosedRoots(t)
      BY <2>1, <2>2, <2>7 DEF KeptBy
    <3>2. z = Emit(t, c, "late")
      BY <2>7, <3>1 DEF RecordSpanError
    <3>3. Sent(t, z, c, "late") /\ err \in z.captured
      BY <1>4, <2>1, <2>2, <2>3, <2>7, <3>2, EmitSends DEF Vias
    <3>4. "late" \in Vias
      BY DEF Vias
    <3>5. Follows(W, t, z, {}) /\ Reports(t, z, {EventOf(t, c, "late")})
      BY <1>4, <2>2, <2>3, <3>3, <3>4, SentFollows
    <3>6. Reports(t, z, StaleEvents(W) \cup {EventOf(t, c, "late")})
      BY <3>5 DEF Reports
    <3>7. z.evicted = t.evicted
      <4>1. CASE z = t
        BY <4>1
      <4>2. CASE z = EnqueueError(t, c, "late")
        BY <1>5, <4>2 DEF EnqueueError, Enqueue, Trackers
      <4> QED BY <3>3, <4>1, <4>2 DEF Sent
    <3> QED BY <1>4, <2>1, <2>7, <3>3, <3>5, <3>6, <3>7 DEF Records, W, key, c
  <2> QED BY <2>5, <2>6, <2>7
<1> QED BY <1>4, <1>7, <1>8

(* The tracker once the span s has ended: like TrackerInv, and the entry of*)
(* every root that was open before, that of s among them, is still enough  *)
(* for its spans; that of key even if this very step evicted it.           *)
TrackerAfter(sp, sq, lev, x, y, gone, key) ==
  /\ Sound(Trace(sq, lev), y) /\ EntriesLive(y)
  /\ ~gone => y.client
  /\ ~gone /\ Enabled => AllAnswered(sq, y)
  /\ \A r \in 1 .. Len(sp) : TopOf(sp, lev, x, r) => TopOf(sq, lev, y, r)
  /\ key \in 1 .. Len(sp) /\ TopOf(sp, lev, x, key) /\ key \notin x.evicted
       /\ Nested(sq, key) => Topmost(sq, lev, y, key)

LEMMA AnsweredWhenClosed ==
  ASSUME NEW sp, NEW st, Tree(sp, st), NEW sq, NEW s, NEW how, NEW err, NEW kept,
         Closes(sp, sq, s, how, err, kept), NEW lev, NEW x, Sound(Trace(sq, lev), x),
         NEW root, Answered(sp, x, root)
  PROVE  Answered(sq, x, root)
<1>1. CASE \E e \in Held(x) : e.root = root
  BY <1>1 DEF Answered
<1>2. CASE \E n \in 1 .. Len(sp) : root \in {sp[n].root, sp[n].kept} /\ sp[n].err \in x.captured
  <2>1. PICK n \in 1 .. Len(sp) : root \in {sp[n].root, sp[n].kept} /\ sp[n].err \in x.captured
    BY <1>2
  <2>2. x.captured \subseteq Errors
    <3>1. x.captured \subseteq Named(Trace(sq, lev))
      BY DEF Sound, Trackers
    <3>2. Named(Trace(sq, lev)) \subseteq Errors
      BY TraceFields, TraceCandidates DEF Named
    <3> QED BY <3>1, <3>2
  <2>3. sp[s].err = None
    BY TreeTypes DEF SpanOK, Closes
  <2>4. n # s
    BY <2>1, <2>2, <2>3, TracingAssumption
  <2>5. n \in 1 .. Len(sq) /\ sq[n] = sp[n]
    BY <2>1, <2>4 DEF Closes
  <2> QED BY <2>1, <2>5 DEF Answered
<1> QED BY <1>1, <1>2 DEF Answered

LEMMA TopWhenClosed ==
  ASSUME NEW sp, NEW sq, NEW s, NEW how, NEW err, NEW kept,
         Closes(sp, sq, s, how, err, kept), NEW lev, NEW x, NEW r, kept # r,
         TopOf(sp, lev, x, r)
  PROVE  TopOf(sq, lev, x, r)
<1>1. SUFFICES ASSUME r \notin x.evicted, Nested(sq, r), NEW a \in 1 .. Len(sq),
                      sq[a].root = r, sq[a].kept = r
               PROVE  \E e \in Held(x) : e.root = r /\ e.best.depth <= lev[a]
  BY DEF TopOf, Topmost
<1>2. Nested(sp, r)
  BY <1>1, NestedWhenClosed
<1>3. a \in 1 .. Len(sp) /\ sp[a].root = r /\ sp[a].kept = r
  BY <1>1 DEF Closes
<1> QED BY <1>1, <1>2, <1>3 DEF TopOf, Topmost

LEMMA BestIsACandidate ==
  ASSUME NEW sp, NEW lev, NEW x, Sound(Trace(sp, lev), x), NEW e \in Held(x),
         e.best # None
  PROVE  e.best \in Candidates /\ e.best.depth \in Nat
<1>1. e.best \in Candidates
  BY BestOfEntry, InBest
<1> QED BY <1>1, TraceCandidates

LEMMA RecordsKeepsAll ==
  ASSUME NEW sp, NEW st, Tree(sp, st), NEW sq, NEW s, NEW how \in Ends \ {"open"},
         NEW err, NEW kept, Closes(sp, sq, s, how, err, kept),
         NEW lev, Levels(sp, lev), NEW x, NEW gone, TrackerInv(sp, lev, x, gone),
         Sound(Trace(sq, lev), x), NEW y, NEW key \in Nat \cup {None},
         NEW c, err # None => c \in Candidates, kept # None => err # None, NEW trace,
         Nested(sp, sp[s].root) /\ how = "home" => c.depth = lev[s],
         how \in {"home", "crossed"} => trace = sp[s].root /\ key = sp[s].root,
         Records(Trace(sq, lev), x, y, key, c, kept, err, trace)
  PROVE  TrackerAfter(sp, sq, lev, x, y, gone, key)
<1> DEFINE W == Trace(sq, lev)
<1>1. /\ Sound(W, y) /\ x.evicted \subseteq y.evicted
      /\ x.captured \subseteq y.captured /\ y.client = x.client
  BY DEF Records, Follows
<1>2. /\ Sound(W, x) /\ EntriesLive(x) /\ (~gone => x.client)
      /\ ~gone /\ Enabled => AllAnswered(sp, x)
  BY DEF TrackerInv
<1>3. \/ /\ kept = None /\ Follows(W, x, y, {})
         /\ x.client /\ Enabled /\ err # None /\ trace # None => err \in y.captured
      \/ /\ kept # None /\ kept = key /\ Follows(W, x, y, {key})
         /\ KeepsSpanError(x, y, key, c)
  BY DEF Records
<1>4. /\ s \in 1 .. Len(sp) /\ Len(sq) = Len(sp) /\ sq[s].end = how /\ sq[s].err = err
      /\ sq[s].kept = kept /\ sq[s].root = sp[s].root /\ sp[s].root \in Nat
      /\ \A i \in 1 .. Len(sp) : i # s => sq[i] = sp[i]
  BY TreeTypes DEF Closes, SpanRecords
<1> HIDE DEF W
<1>5. ASSUME NEW f \in Held(y)
      PROVE  f.best # None /\ f.root \notin ClosedRoots(y)
  <2>1. CASE \E e \in Held(x) : Match(e, f) /\
               (f.root \in ClosedRoots(y) => f.root \in ClosedRoots(x))
    BY <1>2, <2>1 DEF EntriesLive, Match
  <2>2. CASE kept = key /\ f.root = key /\ KeepsSpanError(x, y, key, c)
    BY <1>5, <2>2 DEF KeepsSpanError
  <2> QED BY <1>3, <1>5, <2>1, <2>2 DEF Follows
<1>6. EntriesLive(y)
  BY <1>5 DEF EntriesLive
<1>7. ASSUME x.client, Enabled, NEW root, Answered(sq, x, root)
      PROVE  Answered(sq, y, root)
  <2>1. CASE kept = None /\ Follows(W, x, y, {})
    BY <1>2, <1>7, <2>1, FollowsAnswers DEF W
  <2>2. CASE root = key /\ KeepsSpanError(x, y, key, c)
    BY <2>2 DEF KeepsSpanError, Answered
  <2>3. CASE root # key /\ Follows(W, x, y, {key})
    BY <1>2, <1>7, <2>3, FollowsAnswers DEF W
  <2> QED BY <1>3, <2>1, <2>2, <2>3
<1>8. ASSUME ~gone, Enabled, NEW i \in 1 .. Len(sq), sq[i].end \in {"home", "crossed"},
             sq[i].err # None
      PROVE  Answered(sq, y, sq[i].root)
  <2>1. CASE i # s
    <3>1. Answered(sp, x, sq[i].root)
      BY <1>2, <1>4, <1>8, <2>1 DEF AllAnswered
    <3>2. Answered(sq, x, sq[i].root)
      BY <1>2, <3>1, AnsweredWhenClosed DEF W
    <3> QED BY <1>2, <1>7, <1>8, <3>2
  <2>2. CASE i = s
    <3>1. err # None /\ how \in {"home", "crossed"} /\ trace = sq[s].root /\ key = sq[s].root
      BY <1>4, <1>8, <2>2
    <3>2. CASE kept = None /\ err \in y.captured
      BY <1>4, <2>2, <3>2 DEF Answered
    <3>3. CASE KeepsSpanError(x, y, key, c)
      BY <2>2, <3>1, <3>3 DEF KeepsSpanError, Answered
    <3>4. trace # None
      BY <1>4, <3>1, NoneIsNoNumber
    <3> QED BY <1>2, <1>3, <1>8, <3>1, <3>2, <3>3, <3>4
  <2> QED BY <2>1, <2>2
<1>9. ASSUME NEW r \in 1 .. Len(sp), kept = r, TopOf(sp, lev, x, r), r \notin x.evicted,
             Nested(sq, r)
      PROVE  Topmost(sq, lev, y, r)
  <2>1. key = r /\ KeepsSpanError(x, y, key, c) /\ c \in Candidates
    BY <1>3, <1>9, NoneIsNoNumber, TreeTypes
  <2>2. PICK f \in Held(y) : f.root = r
    BY <2>1 DEF KeepsSpanError
  <2>3. /\ f.best # None /\ f.best.depth <= c.depth
        /\ \A e \in Held(x) : e.root = r /\ e.best # None => f.best.depth <= e.best.depth
    BY <2>1, <2>2 DEF KeepsSpanError
  <2>4. f.best.depth \in Nat /\ c.depth \in Nat
    BY <1>1, <2>1, <2>2, <2>3, BestIsACandidate, TraceCandidates DEF W
  <2>5. SUFFICES ASSUME NEW a \in 1 .. Len(sq), sq[a].root = r, sq[a].kept = r
                 PROVE  f.best.depth <= lev[a]
    BY <2>2 DEF Topmost
  <2>6. Nested(sp, r) /\ (sp[s].root = r => how \in {"open", "home"})
    BY <1>9, NestedWhenClosed
  <2>7. CASE a = s
    BY <1>4, <2>3, <2>5, <2>6, <2>7
  <2>8. CASE a # s
    <3>1. sp[a].root = r /\ sp[a].kept = r /\ a \in 1 .. Len(sp)
      BY <1>4, <2>5, <2>8
    <3>2. PICK e \in Held(x) : e.root = r /\ e.best.depth <= lev[a]
      BY <1>9, <2>6, <3>1 DEF TopOf, Topmost
    <3>3. e.best # None
      BY <1>2 DEF EntriesLive
    <3>4. f.best.depth <= e.best.depth /\ e.best.depth \in Nat
      BY <1>2, <2>3, <3>2, <3>3, BestIsACandidate DEF W
    <3>5. lev[a] \in Nat
      BY <3>1 DEF Levels
    <3> QED BY <2>4, <3>2, <3>4, <3>5
  <2> QED BY <2>7, <2>8
<1>10. ASSUME NEW r \in 1 .. Len(sp), kept # r, TopOf(sp, lev, x, r)
       PROVE  TopOf(sq, lev, y, r)
  <2>1. TopOf(sq, lev, x, r)
    BY <1>10, TopWhenClosed
  <2>2. CASE kept = None /\ Follows(W, x, y, {})
    BY <2>1, <2>2, FollowsTop DEF W
  <2>3. CASE kept = key /\ Follows(W, x, y, {key})
    BY <1>10, <2>1, <2>3, FollowsTop DEF W
  <2> QED BY <1>3, <2>2, <2>3
<1>11. \A r \in 1 .. Len(sp) : TopOf(sp, lev, x, r) => TopOf(sq, lev, y, r)
  BY <1>1, <1>9, <1>10 DEF TopOf
<1>12. ASSUME key \in 1 .. Len(sp), TopOf(sp, lev, x, key), key \notin x.evicted,
              Nested(sq, key)
       PROVE  Topmost(sq, lev, y, key)
  <2>1. CASE kept = key
    BY <1>9, <1>12, <2>1
  <2>2. CASE kept # key
    <3>1. key \notin y.evicted
      BY <1>12, <2>2 DEF Records
    <3> QED BY <1>10, <1>12, <2>2, <3>1 DEF TopOf
  <2> QED BY <2>1, <2>2
<1>13. ~gone /\ Enabled => AllAnswered(sq, y)
  BY <1>8 DEF AllAnswered
<1> QED BY <1>1, <1>2, <1>6, <1>11, <1>12, <1>13 DEF TrackerAfter, W

LEMMA TrackerAfterInv ==
  ASSUME NEW sp, NEW sq, NEW s, NEW how \in Ends \ {"open"}, NEW err, NEW kept,
         Closes(sp, sq, s, how, err, kept), NEW lev, NEW x, NEW y, NEW gone, NEW key,
         TrackerInv(sp, lev, x, gone), TrackerAfter(sp, sq, lev, x, y, gone, key)
  PROVE  TrackerInv(sq, lev, y, gone)
<1>1. ASSUME NEW r \in 1 .. Len(sq), sq[r].end = "open"
      PROVE  TopOf(sq, lev, y, r)
  <2>1. r \in 1 .. Len(sp) /\ sp[r].end = "open"
    BY <1>1 DEF Closes
  <2> QED BY <2>1 DEF TrackerInv, TopInv, TrackerAfter
<1> QED BY <1>1 DEF TrackerInv, TrackerAfter, TopInv

(* All that is invariant, for the levels lev.                              *)
LevelInv(sp, st, fr, lev, x, gone) ==
  /\ Shape(sp, st, fr) /\ Levels(sp, lev) /\ Aligned(sp, st, lev)
  /\ TrackerInv(sp, lev, x, gone)

LEMMA RecordedKeepsAll ==
  ASSUME NEW lev, LevelInv(spans, stores, frames, lev, t, away), NEW sq, NEW su, NEW gr,
         NEW s, NEW store, NEW trace, NEW err, NEW how,
         Ending(lev, sq, su, gr, s, store, trace, err, how)
  PROVE  LET y == Recorded(s, store, trace, err)
             c == Candidate(s, store, err)
         IN /\ TrackerAfter(spans, sq, lev, t, y, away, Key(store, trace))
            /\ LevelInv(sq, su, gr, lev, y, away)
            /\ Reports(t, y, StaleEvents(Trace(sq, lev)) \cup {EventOf(t, c, "late")})
            /\ err # None => c \in Candidates
<1> DEFINE key == Key(store, trace)
           kept == KeptBy(key, err)
           c == Candidate(s, store, err)
           y == Recorded(s, store, trace, err)
<1>1. /\ Shape(spans, stores, frames) /\ Levels(spans, lev) /\ Aligned(spans, stores, lev)
      /\ TrackerInv(spans, lev, t, away) /\ Tree(spans, stores)
      /\ Sound(Trace(spans, lev), t)
  BY DEF LevelInv, Shape, TrackerInv
<1>2. /\ Closes(spans, sq, s, how, err, kept) /\ Told(lev, s, store, trace, err, how)
      /\ Shape(sq, su, gr) /\ Levels(sq, lev) /\ Aligned(sq, su, lev)
      /\ err \in Outcome /\ how \in Ends \ {"open"}
  BY DEF Ending, Finishes
<1>3. /\ Sound(Trace(sq, lev), t)
      /\ Records(Trace(sq, lev), t, y, key, c, kept, err, trace)
  BY <1>1, RecordedRecords
<1>4. /\ key \in Nat \cup {None} /\ SpanDepth(s, store) \in Nat
      /\ how \in {"home", "crossed"} => trace = spans[s].root /\ key = spans[s].root
      /\ Nested(spans, spans[s].root) /\ how = "home" => SpanDepth(s, store) = lev[s]
  BY <1>2 DEF Told
<1>5. err # None => c \in Candidates
  <2>1. s \in 1 .. Len(spans) /\ Len(spans) \in Nat /\ spans[s].root \in Nat
    BY <1>1, <1>2, TreeTypes DEF Closes, SpanRecords
  <2> QED BY <1>2, <1>4, <2>1, CandidateOfSpan DEF Outcome
<1>6. c.depth = SpanDepth(s, store) /\ (kept # None => err # None)
  BY DEF Candidate, KeptBy
<1>7. Reports(t, y, StaleEvents(Trace(sq, lev)) \cup {EventOf(t, c, "late")})
  BY <1>3 DEF Records
<1> HIDE DEF key, kept, c, y
<1>8. TrackerAfter(spans, sq, lev, t, y, away, key)
  BY <1>1, <1>2, <1>3, <1>4, <1>5, <1>6, RecordsKeepsAll
<1>9. TrackerInv(sq, lev, y, away)
  BY <1>1, <1>2, <1>8, TrackerAfterInv
<1>10. LevelInv(sq, su, gr, lev, y, away)
  BY <1>2, <1>9 DEF LevelInv
<1> QED BY <1>5, <1>7, <1>8, <1>10 DEF key, c, y

(* measure() and runQuery() send an error of their own at most.            *)
LEMMA OwnKeepsAll ==
  ASSUME NEW sq, NEW su, NEW gr, NEW lev, NEW y, NEW gone,
         LevelInv(sq, su, gr, lev, y, gone), NEW s, NEW store, NEW err, NEW own,
         err # None => Candidate(s, store, err) \in Candidates
  PROVE  LET z == ThenOwn(y, s, store, err, own) IN
         /\ LevelInv(sq, su, gr, lev, z, gone)
         /\ Reports(y, z, {EventOf(y, Candidate(s, store, err), "direct")})
<1> DEFINE c == Candidate(s, store, err)
           z == ThenOwn(y, s, store, err, own)
           W == Trace(sq, lev)
<1>1. TrackerInv(sq, lev, y, gone) /\ Sound(W, y) /\ y \in Trackers(W)
  BY DEF LevelInv, TrackerInv, Sound
<1>2. CASE ~(own /\ err # None)
  <2>1. z = y
    BY <1>2 DEF ThenOwn
  <2> QED BY <1>1, <2>1, ReportsNothing
<1>3. CASE own /\ err # None
  <2>1. z = CaptureUntrackedError(y, c) /\ c \in Candidates
    BY <1>3 DEF ThenOwn
  <2>2. c \in W.candidates /\ "direct" \in Vias
    BY <2>1, TraceFields DEF Vias
  <2> HIDE DEF c, z, W
  <2>3. Sent(y, z, c, "direct")
    BY <2>1, CaptureUntrackedErrorSends
  <2>4. Follows(W, y, z, {}) /\ Reports(y, z, {EventOf(y, c, "direct")})
    BY <1>1, <2>2, <2>3, SentFollows
  <2>5. TrackerInv(sq, lev, z, gone)
    BY <1>1, <2>4, FollowsKeepsAll DEF W
  <2> QED BY <2>4, <2>5 DEF LevelInv, c, z
<1> QED BY <1>2, <1>3

(* The root s ends: its entry leaves and sends its best candidate.         *)
Completed(y, s) == CompleteLocalRoot(y, s, FALSE)
BestOf(y, s) == WinnerOf(y, s, FALSE)

LEMMA WinnerIsBest ==
  ASSUME NEW sq, NEW lev, NEW y, Sound(Trace(sq, lev), y), EntriesLive(y), NEW s
  PROVE  LET w == BestOf(y, s) IN
         /\ \A e \in Held(y) : e.root = s => e.best = w /\ w # None
         /\ w # None => <<s, w>> \in Best(sq, lev) /\ \E e \in Held(y) : e.root = s
<1> DEFINE w == BestOf(y, s)
<1>1. CASE s \notin PendingRoots(y)
  <2>1. w = None
    BY <1>1 DEF BestOf, WinnerOf
  <2>2. \A e \in Held(y) : e.root # s
    BY <1>1, HeldEntries
  <2> QED BY <2>1, <2>2
<1>2. CASE s \in PendingRoots(y)
  <2>1. w = EntryOf(y, s).best
    BY <1>2 DEF BestOf, WinnerOf, Winner, BoundaryError
  <2>2. EntryOf(y, s) \in Held(y) /\ EntryOf(y, s).root = s
    BY <1>2, HeldEntries
  <2>3. \A e \in Held(y) : e.root = s => e = EntryOf(y, s)
    BY <2>2, HeldEntries
  <2>4. w # None
    BY <2>1, <2>2 DEF EntriesLive
  <2>5. <<s, w>> \in Best(sq, lev)
    BY <2>1, <2>2, <2>4, BestOfEntry
  <2> QED BY <2>1, <2>2, <2>3, <2>4, <2>5
<1> QED BY <1>1, <1>2

LEMMA CompleteKeepsAll ==
  ASSUME NEW sq, NEW su, NEW gr, NEW lev, NEW y, NEW gone,
         LevelInv(sq, su, gr, lev, y, gone), NEW s \in Nat, sq[s].end # "open"
  PROVE  LET z == Completed(y, s)
             w == BestOf(y, s)
         IN /\ LevelInv(sq, su, gr, lev, z, gone)
            /\ Reports(y, z, {EventOf(y, c, "complete") : c \in {w} \ {None}})
<1> DEFINE z == Completed(y, s)
           w == BestOf(y, s)
           W == Trace(sq, lev)
<1>1. /\ TrackerInv(sq, lev, y, gone) /\ Sound(W, y) /\ EntriesLive(y)
      /\ ~gone => y.client
  BY DEF LevelInv, TrackerInv
<1>2. Completes(W, y, z, s, w)
  BY <1>1, TraceFields, CompleteLocalRootSends DEF Completed, BestOf
<1>3. /\ \A e \in Held(y) : e.root = s => e.best = w /\ w # None
      /\ w # None => <<s, w>> \in Best(sq, lev)
  BY <1>1, WinnerIsBest
<1> HIDE DEF W, w, z
<1>4. /\ Follows(W, y, z, {s}) /\ Held(z) = {e \in Held(y) : e.root # s}
      /\ Reports(y, z, {EventOf(y, c, "complete") : c \in {w} \ {None}})
      /\ w # None /\ y.client /\ Enabled => w.error \in z.captured
      /\ Sound(W, z) /\ z.client = y.client /\ y.captured \subseteq z.captured
  BY <1>2 DEF Completes, Follows
<1>5. EntriesLive(z)
  BY <1>1, <1>4 DEF EntriesLive, Follows
<1>6. ASSUME ~gone, Enabled, NEW i \in 1 .. Len(sq), sq[i].end \in {"home", "crossed"},
             sq[i].err # None
      PROVE  Answered(sq, z, sq[i].root)
  <2>1. Answered(sq, y, sq[i].root)
    BY <1>1, <1>6 DEF TrackerInv, AllAnswered
  <2>2. CASE sq[i].root # s
    BY <1>1, <1>4, <1>6, <2>1, <2>2, FollowsAnswers DEF W
  <2>3. CASE sq[i].root = s /\ \E e \in Held(y) : e.root = s
    <3>1. w # None /\ <<s, w>> \in Best(sq, lev) /\ w.error \in z.captured
      BY <1>1, <1>3, <1>4, <1>6, <2>3
    <3>2. w.span \in 1 .. Len(sq) /\ sq[w.span].kept = s /\ sq[w.span].err = w.error
      BY <3>1, InBest
    <3> QED BY <2>3, <3>1, <3>2 DEF Answered
  <2>4. CASE \E n \in 1 .. Len(sq) :
               sq[i].root \in {sq[n].root, sq[n].kept} /\ sq[n].err \in y.captured
    BY <1>4, <2>4 DEF Answered
  <2> QED BY <2>1, <2>2, <2>3, <2>4 DEF Answered
<1>7. TopInv(sq, lev, z)
  <2>1. \A r \in 1 .. Len(sq) : sq[r].end = "open" => r \notin {s} /\ TopOf(sq, lev, y, r)
    BY <1>1 DEF TrackerInv, TopInv
  <2> QED BY <1>4, <2>1, FollowsTop DEF TopInv, W
<1>8. ~gone /\ Enabled => AllAnswered(sq, z)
  BY <1>6 DEF AllAnswered
<1>9. TrackerInv(sq, lev, z, gone)
  BY <1>1, <1>4, <1>5, <1>7, <1>8 DEF TrackerInv, W
<1> QED BY <1>4, <1>9 DEF LevelInv, z, w

-----------------------------------------------------------------------------
(* The invariant of the module, and what each action does to it.           *)
TraceInv == \E lev : LevelInv(spans, stores, frames, lev, t, away)

LEMMA BegunKeepsAll ==
  ASSUME NEW lev, LevelInv(spans, stores, frames, lev, t, away), NEW s,
         Begins(spans, spans', stores', frames', lev, s), t' = t, away' = away
  PROVE  TraceInv'
<1> DEFINE lew == Deepened(spans, lev, s)
<1>1. Tree(spans, stores) /\ Levels(spans, lev) /\ TrackerInv(spans, lev, t, away)
  BY DEF LevelInv, Shape
<1>2. Levels(spans', lew) /\ TrackerInv(spans', lew, t, away)
  BY <1>1, BeginsKeepsAll
<1>3. Shape(spans', stores', frames') /\ Aligned(spans', stores', lew)
  BY DEF Begins
<1>4. LevelInv(spans', stores', frames', lew, t', away')
  BY <1>2, <1>3 DEF LevelInv
<1> QED BY <1>4 DEF TraceInv

LEMMA BeginningKeeps ==
  ASSUME TraceInv, NEW k \in Tasks, WithTrace(k) \/ WithSpan(k) \/ StartSpan(k) \/ BeginLeaf(k)
  PROVE  TraceInv'
<1>1. PICK lev : LevelInv(spans, stores, frames, lev, t, away)
  BY DEF TraceInv
<1>2. Shape(spans, stores, frames) /\ Levels(spans, lev) /\ Aligned(spans, stores, lev)
  BY <1>1 DEF LevelInv
<1>3. \E s \in SpanRecords : Begins(spans, spans', stores', frames', lev, s)
  BY <1>2, WithTraceBegins, WithSpanBegins, StartSpanBegins, BeginLeafBegins
<1>4. t' = t /\ away' = away
  BY DEF WithTrace, WithSpan, StartSpan, BeginLeaf
<1> QED BY <1>1, <1>3, <1>4, BegunKeepsAll

(* Only the end of a root sends an event through "complete".               *)
Quiet(x, y) ==
  \A i \in Len(x.events) + 1 .. Len(y.events) : y.events[i].via # "complete"

LEMMA QuietReports ==
  ASSUME NEW x, NEW y, NEW Others, Reports(x, y, Others), \A e \in Others : e.via # "complete"
  PROVE  Quiet(x, y)
BY DEF Reports, Quiet

LEMMA LateEventsAreQuiet ==
  ASSUME NEW W, NEW x, NEW c, NEW e \in StaleEvents(W) \cup {EventOf(x, c, "late")}
                                       \cup {EventOf(x, c, "direct")}
  PROVE  e.via # "complete"
BY DEF StaleEvents, EventOf

LEMMA EndingKeeps ==
  ASSUME NEW lev, LevelInv(spans, stores, frames, lev, t, away), NEW s, NEW store,
         NEW trace, NEW err, NEW how, NEW own,
         Ending(lev, spans', stores', frames', s, store, trace, err, how),
         t' = ThenOwn(Recorded(s, store, trace, err), s, store, err, own), away' = away
  PROVE  TraceInv' /\ Quiet(t, t')
<1> DEFINE y == Recorded(s, store, trace, err)
           c == Candidate(s, store, err)
           W == Trace(spans', lev)
           Late == StaleEvents(W) \cup {EventOf(t, c, "late")}
           Own == {EventOf(y, c, "direct")}
<1>1. /\ LevelInv(spans', stores', frames', lev, y, away)
      /\ Reports(t, y, Late) /\ (err # None => c \in Candidates)
  BY RecordedKeepsAll
<1>2. Sound(W, t)
  <2>1. Shape(spans, stores, frames) /\ Sound(Trace(spans, lev), t)
    BY DEF LevelInv, TrackerInv
  <2> QED BY <2>1, RecordedRecords
<1>3. LevelInv(spans', stores', frames', lev, t', away) /\ Reports(y, t', Own)
  BY <1>1, OwnKeepsAll
<1>4. TraceInv'
  BY <1>3 DEF TraceInv
<1>5. t \in Trackers(W) /\ y \in Trackers(W) /\ t' \in Trackers(W)
  BY <1>1, <1>2, <1>3 DEF LevelInv, TrackerInv, Sound
<1>6. EventOf(y, c, "direct").via # "complete" /\ \A e \in Late : e.via # "complete"
  BY DEF EventOf, StaleEvents
<1> HIDE DEF y, c, W, Late, Own
<1>7. Reports(t, t', Late \cup Own)
  BY <1>1, <1>3, <1>5, ReportsTwice
<1>8. \A e \in Late \cup Own : e.via # "complete"
  BY <1>6 DEF Own
<1> QED BY <1>4, <1>7, <1>8, QuietReports

LEMMA ScopeEndsKeeps ==
  ASSUME TraceInv, NEW k \in Tasks, NEW err \in Outcome, NEW own, ScopeEnds(k, err, own)
  PROVE  TraceInv' /\ Quiet(t, t')
<1>1. PICK lev : LevelInv(spans, stores, frames, lev, t, away)
  BY DEF TraceInv
<1>2. Shape(spans, stores, frames) /\ Levels(spans, lev) /\ Aligned(spans, stores, lev)
  BY <1>1 DEF LevelInv
<1> DEFINE s == Last(frames[k]).span
           store == Context(k)
           trace == RootOf(store)
<1>3. /\ Ending(lev, spans', stores', frames', s, store, trace, err, "home")
      /\ t' = ThenOwn(Recorded(s, store, trace, err), s, store, err, own)
  BY <1>2, ScopeEndsEnding
<1>4. away' = away
  BY DEF ScopeEnds
<1> HIDE DEF s, store, trace
<1> QED BY <1>1, <1>3, <1>4, EndingKeeps

LEMMA EndLeafKeeps ==
  ASSUME TraceInv, NEW k \in Tasks, NEW s \in DOMAIN spans, NEW err \in Outcome, NEW own,
         EndLeaf(k, s, err, own)
  PROVE  TraceInv' /\ Quiet(t, t')
<1>1. PICK lev : LevelInv(spans, stores, frames, lev, t, away)
  BY DEF TraceInv
<1>2. Shape(spans, stores, frames) /\ Levels(spans, lev) /\ Aligned(spans, stores, lev)
  BY <1>1 DEF LevelInv
<1> DEFINE store == Context(k)
           trace == spans[s].root
           how == HowEnded(s, store, spans[s].parent)
<1>3. /\ Ending(lev, spans', stores', frames', s, store, trace, err, how)
      /\ t' = ThenOwn(Recorded(s, store, trace, err), s, store, err, own)
  BY <1>2, EndLeafEnding
<1>4. away' = away
  BY DEF EndLeaf
<1> HIDE DEF store, trace, how
<1> QED BY <1>1, <1>3, <1>4, EndingKeeps

LEMMA EndManualKeeps ==
  ASSUME TraceInv, NEW k \in Tasks, NEW s \in DOMAIN spans, NEW err \in Outcome,
         EndManual(k, s, err)
  PROVE  TraceInv' /\ Quiet(t, t')
<1>1. PICK lev : LevelInv(spans, stores, frames, lev, t, away)
  BY DEF TraceInv
<1>2. Shape(spans, stores, frames) /\ Levels(spans, lev) /\ Aligned(spans, stores, lev)
  BY <1>1 DEF LevelInv
<1> DEFINE store == Context(k)
           trace == RootOf(store)
           how == HowEnded(s, store, s)
<1>3. /\ Ending(lev, spans', stores', frames', s, store, trace, err, how)
      /\ t' = Recorded(s, store, trace, err)
  BY <1>2, EndManualEnding
<1>4. away' = away
  BY DEF EndManual
<1> HIDE DEF store, trace, how
<1>5. t' = ThenOwn(Recorded(s, store, trace, err), s, store, err, FALSE)
  BY <1>3 DEF ThenOwn
<1> QED BY <1>1, <1>3, <1>4, <1>5, EndingKeeps

(* The end of a root: what it records, then what it sends, and why no      *)
(* ancestor of the span it sends failed as well.                           *)
Topped(lev, s, w) ==
  /\ <<s, w>> \in Best(spans', lev)
  /\ s \notin t.evicted /\ Nested(spans', s) =>
       \A a \in 1 .. Len(spans') : spans'[a].root = s /\ spans'[a].kept = s =>
         w.depth <= lev[a]

LEMMA RootEndsKeeps ==
  ASSUME NEW lev, LevelInv(spans, stores, frames, lev, t, away), NEW k \in Tasks,
         NEW err \in Outcome, RootEnds(k, err)
  PROVE  /\ LevelInv(spans', stores', frames', lev, t', away')
         /\ \E s : Closes(spans, spans', s, "home", err, spans'[s].kept)
         /\ \A i \in Len(t.events) + 1 .. Len(t'.events) :
              t'.events[i].via = "complete" =>
                \E s : Topped(lev, s, t'.events[i].candidate)
<1> DEFINE s == Last(frames[k]).span
           store == Context(k)
           y == Recorded(s, store, s, err)
           c == Candidate(s, store, err)
           w == BestOf(y, s)
           W == Trace(spans', lev)
           Late == StaleEvents(W) \cup {EventOf(t, c, "late")}
           Complete == {EventOf(y, d, "complete") : d \in {w} \ {None}}
<1>1. /\ Shape(spans, stores, frames) /\ Levels(spans, lev) /\ Aligned(spans, stores, lev)
      /\ TrackerInv(spans, lev, t, away) /\ Sound(Trace(spans, lev), t)
  BY DEF LevelInv, TrackerInv
<1>2. /\ Ending(lev, spans', stores', frames', s, store, s, err, "home")
      /\ s \in 1 .. Len(spans) /\ spans[s].root = s /\ Key(store, s) = s
      /\ t' = Completed(y, s)
  BY <1>1, RootEndsEnding DEF Completed
<1>3. away' = away
  BY DEF RootEnds
<1>4. s \in Nat /\ Len(spans) \in Nat
  BY <1>1, <1>2, TreeTypes DEF Shape
<1> HIDE DEF s, store
<1>5. /\ TrackerAfter(spans, spans', lev, t, y, away, s)
      /\ LevelInv(spans', stores', frames', lev, y, away) /\ Reports(t, y, Late)
  BY <1>2, RecordedKeepsAll
<1>6. /\ Closes(spans, spans', s, "home", err, KeptBy(s, err))
      /\ spans'[s].end = "home" /\ spans[s].end = "open"
  BY <1>2 DEF Ending, Finishes, Closes
<1>7. Closes(spans, spans', s, "home", err, spans'[s].kept)
  BY <1>6 DEF Closes
<1> HIDE DEF y, c, w, Late, Complete
<1>8. /\ LevelInv(spans', stores', frames', lev, t', away)
      /\ Reports(y, t', Complete)
  <2>1. LevelInv(spans', stores', frames', lev, y, away) /\ s \in Nat
        /\ spans'[s].end # "open"
    BY <1>4, <1>5, <1>6
  <2>2. /\ LevelInv(spans', stores', frames', lev, Completed(y, s), away)
        /\ Reports(y, Completed(y, s),
                   {EventOf(y, d, "complete") : d \in {BestOf(y, s)} \ {None}})
    BY <2>1, CompleteKeepsAll
  <2> QED BY <1>2, <2>2 DEF w, Complete
<1>9. t \in Trackers(W) /\ y \in Trackers(W) /\ t' \in Trackers(W)
  <2>1. Sound(W, t)
    BY <1>1, <1>2, RecordedRecords
  <2> QED BY <1>5, <1>8, <2>1 DEF LevelInv, TrackerInv, Sound
<1>10. Reports(t, t', Late \cup Complete)
  BY <1>5, <1>8, <1>9, ReportsTwice
<1>11. ASSUME NEW i \in Len(t.events) + 1 .. Len(t'.events), t'.events[i].via = "complete"
       PROVE  Topped(lev, s, t'.events[i].candidate)
  <2>1. t'.events[i] \in Late \cup Complete
    BY <1>10, <1>11 DEF Reports
  <2>2. t'.events[i] \notin Late
    BY <1>11 DEF Late, StaleEvents, EventOf
  <2>3. w # None /\ t'.events[i].candidate = w
    BY <2>1, <2>2 DEF Complete, EventOf
  <2>4. Sound(W, y) /\ EntriesLive(y)
    BY <1>5 DEF TrackerAfter
  <2>5. /\ \A e \in Held(y) : e.root = s => e.best = w
        /\ <<s, w>> \in Best(spans', lev)
    <3> HIDE DEF W
    <3>1. Sound(Trace(spans', lev), y) /\ EntriesLive(y)
      BY <2>4 DEF W
    <3>2. /\ \A e \in Held(y) : e.root = s => e.best = BestOf(y, s)
          /\ BestOf(y, s) # None => <<s, BestOf(y, s)>> \in Best(spans', lev)
      BY <3>1, WinnerIsBest
    <3> QED BY <2>3, <3>2 DEF w
  <2>6. TopOf(spans, lev, t, s)
    BY <1>1, <1>2, <1>6 DEF TrackerInv, TopInv
  <2>7. s \notin t.evicted /\ Nested(spans', s) => Topmost(spans', lev, y, s)
    BY <1>2, <1>5, <2>6 DEF TrackerAfter
  <2> QED BY <2>3, <2>5, <2>7 DEF Topped, Topmost
<1> QED BY <1>3, <1>7, <1>8, <1>11

LEMMA CaptureExceptionKeeps ==
  ASSUME TraceInv, NEW k \in Tasks, NEW err \in Errors, CaptureException(k, err)
  PROVE  TraceInv' /\ Quiet(t, t')
<1>1. PICK lev : LevelInv(spans, stores, frames, lev, t, away)
  BY DEF TraceInv
<1> DEFINE c == [error |-> err, root |-> None, span |-> None, depth |-> 0, scope |-> None]
           W == Trace(spans, lev)
<1>2. TrackerInv(spans, lev, t, away) /\ Sound(W, t)
  BY <1>1 DEF LevelInv, TrackerInv
<1>3. c \in W.candidates /\ "direct" \in Vias
  BY TraceFields DEF Candidates, Vias
<1>4. t' = CaptureErrorOnce(t, c) /\ UNCHANGED <<spans, stores, frames, away>>
  BY DEF CaptureException
<1> HIDE DEF c, W
<1>5. Sent(t, t', c, "direct")
  BY <1>4, CaptureErrorOnceSends
<1>6. Follows(W, t, t', {}) /\ Reports(t, t', {EventOf(t, c, "direct")})
  BY <1>2, <1>3, <1>5, SentFollows
<1>7. TrackerInv(spans, lev, t', away)
  BY <1>2, <1>6, FollowsKeepsAll DEF W
<1>8. TraceInv'
  BY <1>1, <1>4, <1>7 DEF TraceInv, LevelInv
<1>9. \A e \in {EventOf(t, c, "direct")} : e.via # "complete"
  BY DEF EventOf
<1> QED BY <1>6, <1>8, <1>9, QuietReports

LEMMA TenMinutesPassKeeps ==
  ASSUME TraceInv, NEW n, TenMinutesPass(n)
  PROVE  TraceInv' /\ t'.events = t.events
<1>1. PICK lev : LevelInv(spans, stores, frames, lev, t, away)
  BY DEF TraceInv
<1>2. TrackerInv(spans, lev, t, away) /\ Sound(Trace(spans, lev), t)
  BY <1>1 DEF LevelInv, TrackerInv
<1>3. t' = Age(t, n) /\ UNCHANGED <<spans, stores, frames, away>>
  BY DEF TenMinutesPass
<1>4. Follows(Trace(spans, lev), t, t', {}) /\ t'.events = t.events
  BY <1>2, <1>3, AgeFollows
<1>5. TrackerInv(spans, lev, t', away)
  BY <1>2, <1>4, FollowsKeepsAll
<1> QED BY <1>1, <1>3, <1>4, <1>5 DEF TraceInv, LevelInv

LEMMA ClientStopsKeeps ==
  ASSUME TraceInv, ClientStops
  PROVE  TraceInv' /\ t'.events = t.events
<1>1. PICK lev : LevelInv(spans, stores, frames, lev, t, away)
  BY DEF TraceInv
<1>2. /\ TrackerInv(spans, lev, t, away) /\ Sound(Trace(spans, lev), t)
      /\ t \in Trackers(Trace(spans, lev))
  BY <1>1 DEF LevelInv, TrackerInv, Sound
<1>3. /\ t' = [t EXCEPT !.client = FALSE] /\ away' = TRUE
      /\ UNCHANGED <<spans, stores, frames>>
  BY DEF ClientStops
<1>4. /\ t' \in Trackers(Trace(spans, lev)) /\ t'.events = t.events
      /\ t'.captured = t.captured /\ t'.pending = t.pending /\ t'.closed = t.closed
      /\ t'.evicted = t.evicted
  BY <1>2, <1>3 DEF Trackers
<1>5. Sound(Trace(spans, lev), t')
  BY <1>2, <1>4 DEF Sound, OneEventEach, PendingMap, ClosedMap
<1>6. EntriesLive(t') /\ TopInv(spans, lev, t')
  BY <1>2, <1>4 DEF TrackerInv, EntriesLive, Held, ClosedRoots, TopInv, TopOf, Topmost
<1>7. TrackerInv(spans, lev, t', away')
  BY <1>3, <1>5, <1>6 DEF TrackerInv
<1> QED BY <1>1, <1>3, <1>4, <1>7 DEF TraceInv, LevelInv

LEMMA ForkKeeps ==
  ASSUME TraceInv, NEW k \in Tasks, NEW branch \in Tasks, Fork(k, branch)
  PROVE  TraceInv' /\ t' = t
<1>1. PICK lev : LevelInv(spans, stores, frames, lev, t, away)
  BY DEF TraceInv
<1> DEFINE f == [span |-> None, store |-> Context(k)]
<1>2. /\ Context(k) # None /\ frames[branch] = <<>>
      /\ frames' = [frames EXCEPT ![branch] = <<f>>]
      /\ UNCHANGED <<t, spans, stores, away>>
  BY DEF Fork
<1>3. Shape(spans, stores, frames) /\ FramesOK(spans, stores, frames)
  BY <1>1 DEF LevelInv, Shape
<1>4. Context(k) \in 1 .. Len(stores) /\ Len(stores) \in Nat
  BY <1>2, <1>3, ContextOf, TreeTypes DEF Shape
<1>5. f \in FrameRecords /\ FrameOK(spans, stores, f) /\ Fresh(frames, f.span)
  BY <1>4 DEF FrameRecords, FrameOK, Fresh
<1> HIDE DEF f
<1>6. FramesOK(spans, stores, [frames EXCEPT ![branch] = Append(frames[branch], f)])
  BY <1>3, <1>5, FrameEntered
<1>7. Append(frames[branch], f) = <<f>>
  BY <1>2
<1>8. Shape(spans', stores', frames')
  BY <1>2, <1>3, <1>6, <1>7 DEF Shape
<1> QED BY <1>1, <1>2, <1>8 DEF TraceInv, LevelInv

LEMMA BranchEndsKeeps ==
  ASSUME TraceInv, NEW k \in Tasks, BranchEnds(k)
  PROVE  TraceInv' /\ t' = t
<1>1. PICK lev : LevelInv(spans, stores, frames, lev, t, away)
  BY DEF TraceInv
<1>2. /\ Len(frames[k]) = 1 /\ frames' = [frames EXCEPT ![k] = <<>>]
      /\ UNCHANGED <<t, spans, stores, away>>
  BY DEF BranchEnds
<1>3. FramesOK(spans, stores, frames) /\ frames[k] \in Seq(FrameRecords)
  BY <1>1, FrameTypes DEF LevelInv, Shape
<1>4. frames[k] # <<>> /\ Front(frames[k]) = <<>>
  <2>1. SubSeq(frames[k], 1, 0) = <<>>
    BY SubSeqEmpty
  <2> QED BY <1>2, <2>1, EmptySeq DEF Front
<1>5. FramesOK(spans, stores, frames')
  <2>1. FramesOK(spans, stores, [frames EXCEPT ![k] = Front(frames[k])])
    BY <1>3, <1>4, FrameLeft
  <2> QED BY <1>2, <1>4, <2>1
<1>6. Shape(spans', stores', frames')
  BY <1>1, <1>2, <1>5 DEF LevelInv, Shape
<1> QED BY <1>1, <1>2, <1>6 DEF TraceInv, LevelInv

LEMMA InitKeeps ==
  ASSUME Init
  PROVE  TraceInv
<1> DEFINE lev == [i \in 1 .. 0 |-> 0]
           W == Trace(spans, lev)
<1>1. /\ t = InitTracker /\ spans = <<>> /\ stores = <<>> /\ away = FALSE
      /\ frames = [k \in Tasks |-> <<>>]
  BY DEF Init
<1>2. /\ Len(spans) = 0 /\ Len(stores) = 0 /\ \A k \in Tasks : Len(frames[k]) = 0
      /\ spans \in Seq(SpanRecords) /\ stores \in Seq(StoreRecords)
      /\ frames \in [Tasks -> Seq(FrameRecords)]
  BY <1>1, EmptySeq
<1>3. Shape(spans, stores, frames)
  BY <1>2 DEF Shape, Tree, FramesOK
<1>4. Levels(spans, lev) /\ Aligned(spans, stores, lev)
  BY <1>2 DEF Levels, Aligned
<1>5. t \in Trackers(W) /\ Len(t.events) = 0 /\ Len(t.pending) = 0 /\ Len(t.closed) = 0
      /\ t.client
  <2>1. <<>> \in Seq(Entries(W)) /\ <<>> \in Seq(W.roots) /\ <<>> \in Seq(Events(W))
        /\ None \in W.scopes
    BY EmptySeq, TraceFields
  <2> HIDE DEF W
  <2>2. InitTracker \in Trackers(W)
    BY <2>1 DEF InitTracker, Trackers
  <2> QED BY <1>1, <2>2, EmptySeq DEF InitTracker
<1>6. Sound(W, t) /\ Held(t) = {}
  BY <1>5, CapsAssumption DEF Sound, OneEventEach, PendingMap, ClosedMap, Held
<1>7. TrackerInv(spans, lev, t, away)
  BY <1>2, <1>5, <1>6 DEF TrackerInv, EntriesLive, AllAnswered, TopInv
<1> QED BY <1>3, <1>4, <1>7 DEF TraceInv, LevelInv

LEMMA RootEndsKeepsInv ==
  ASSUME TraceInv, NEW k \in Tasks, NEW err \in Outcome, RootEnds(k, err)
  PROVE  TraceInv'
<1>1. PICK lev : LevelInv(spans, stores, frames, lev, t, away)
  BY DEF TraceInv
<1>2. LevelInv(spans', stores', frames', lev, t', away')
  BY <1>1, RootEndsKeeps
<1> QED BY <1>2 DEF TraceInv

LEMMA NextKeeps ==
  ASSUME TraceInv, [Next]_vars
  PROVE  TraceInv'
<1>1. CASE UNCHANGED vars
  BY <1>1 DEF vars, TraceInv
<1>2. ASSUME NEW k \in Tasks, WithTrace(k) \/ WithSpan(k) \/ StartSpan(k) \/ BeginLeaf(k)
      PROVE  TraceInv'
  BY <1>2, BeginningKeeps
<1>3. ASSUME NEW k \in Tasks, BranchEnds(k)
      PROVE  TraceInv'
  BY <1>3, BranchEndsKeeps
<1>4. ASSUME NEW k \in Tasks, NEW b \in Tasks \ {k}, Fork(k, b)
      PROVE  TraceInv'
  BY <1>4, ForkKeeps
<1>5. ASSUME NEW k \in Tasks, NEW e \in Outcome, RootEnds(k, e)
      PROVE  TraceInv'
  BY <1>5, RootEndsKeepsInv
<1>6. ASSUME NEW k \in Tasks, NEW e \in Outcome, NEW own \in BOOLEAN, ScopeEnds(k, e, own)
      PROVE  TraceInv'
  BY <1>6, ScopeEndsKeeps
<1>7. ASSUME NEW k \in Tasks, NEW s \in DOMAIN spans, NEW e \in Outcome, EndManual(k, s, e)
      PROVE  TraceInv'
  BY <1>7, EndManualKeeps
<1>8. ASSUME NEW k \in Tasks, NEW s \in DOMAIN spans, NEW e \in Outcome, NEW own \in BOOLEAN,
             EndLeaf(k, s, e, own)
      PROVE  TraceInv'
  BY <1>8, EndLeafKeeps
<1>9. ASSUME NEW k \in Tasks, NEW e \in Errors, CaptureException(k, e)
      PROVE  TraceInv'
  BY <1>9, CaptureExceptionKeeps
<1>10. ASSUME ClientStops
       PROVE  TraceInv'
  BY <1>10, ClientStopsKeeps
<1>11. ASSUME NEW n \in 1 .. MaxPendingRoots, TenMinutesPass(n)
       PROVE  TraceInv'
  BY <1>11, TenMinutesPassKeeps
<1> QED BY <1>1, <1>2, <1>3, <1>4, <1>5, <1>6, <1>7, <1>8, <1>9, <1>10, <1>11 DEF Next

(* The shape of the spans, stores and frames, the depth of every span, and *)
(* the tracker sound and answering for every failure: one induction.       *)
THEOREM TraceInvariant == Spec => []TraceInv
<1>1. Init => TraceInv
  BY InitKeeps
<1>2. TraceInv /\ [Next]_vars => TraceInv'
  BY NextKeeps
<1> QED BY <1>1, <1>2, PTL DEF Spec

-----------------------------------------------------------------------------
(* "Um objeto de erro vira no maximo UM evento": no two events of the      *)
(* tracker are about one error, however many spans, roots and captures saw *)
(* it, for any caps and any number of concurrent tasks.                    *)
THEOREM ErrorsReportOnce == Spec => []OneEventPerError
<1>1. TraceInv => OneEventPerError
  <2>1. SUFFICES ASSUME TraceInv
                 PROVE  OneEventPerError
    OBVIOUS
  <2>2. PICK lev : LevelInv(spans, stores, frames, lev, t, away)
    BY <2>1 DEF TraceInv
  <2>3. t \in Trackers(Trace(spans, lev)) /\ OneEventEach(t)
    BY <2>2 DEF LevelInv, TrackerInv, Sound
  <2>4. DOMAIN t.events = 1 .. Len(t.events)
    BY <2>3, LenProperties DEF Trackers
  <2> QED BY <2>3, <2>4 DEF OneEventPerError, OneEventEach
<1> QED BY <1>1, TraceInvariant, PTL

(* A trace one of whose spans failed where it began reports: an error of   *)
(* its was captured, or its entry waits for the root, which is not closed. *)
(* No eviction, late callback or merge of two traces loses it.             *)
THEOREM FailedTracesReport == Spec => []FailedTraceReports
<1>1. TraceInv => FailedTraceReports
  <2>1. SUFFICES ASSUME TraceInv
                 PROVE  FailedTraceReports
    OBVIOUS
  <2>2. PICK lev : LevelInv(spans, stores, frames, lev, t, away)
    BY <2>1 DEF TraceInv
  <2>3. /\ EntriesLive(t) /\ (~away /\ Enabled => AllAnswered(spans, t))
        /\ Sound(Trace(spans, lev), t) /\ DOMAIN spans = 1 .. Len(spans)
    BY <2>2, TreeTypes DEF LevelInv, TrackerInv, Shape
  <2>4. \A e \in Held(t) : e.root \in PendingRoots(t) /\ e.root \notin ClosedRoots(t)
    BY <2>3, HeldEntries DEF EntriesLive
  <2>5. ASSUME NEW s \in DOMAIN spans, ~away, Enabled, spans[s].end \in {"home", "crossed"},
               spans[s].err # None
        PROVE  \/ \E x \in DOMAIN spans : spans[s].root \in {spans[x].root, spans[x].kept}
                                          /\ spans[x].err \in t.captured
               \/ spans[s].root \in PendingRoots(t)
                  /\ (spans[spans[s].root].end = "open" \/ spans[s].root \notin ClosedRoots(t))
    <3>1. Answered(spans, t, spans[s].root)
      BY <2>3, <2>5 DEF AllAnswered
    <3> QED BY <2>3, <2>4, <3>1 DEF Answered
  <2> QED BY <2>5 DEF FailedTraceReports
<1> QED BY <1>1, TraceInvariant, PTL

(* A sequence without repetition has as many elements as positions.        *)
LEMMA DistinctElements ==
  ASSUME NEW S, NEW s \in Seq(S), \A i, j \in 1 .. Len(s) : i # j => s[i] # s[j]
  PROVE  Cardinality({s[i] : i \in 1 .. Len(s)}) = Len(s)
<1> DEFINE T == {s[i] : i \in 1 .. Len(s)}
           f == [i \in 1 .. Len(s) |-> s[i]]
<1>1. Len(s) \in Nat
  BY LenProperties
<1>2. f \in [1 .. Len(s) -> T] /\ IsInjective(f) /\ \A v \in T : \E i \in 1 .. Len(s) : f[i] = v
  BY DEF IsInjective
<1> HIDE DEF T, f
<1>3. f \in Bijection(1 .. Len(s), T)
  BY <1>2 DEF Bijection, Injection, Surjection
<1> QED BY <1>1, <1>3, FS_CountingElements DEF ExistsBijection, T

(* The Maps respect their caps and hold a root once, every span has a root *)
(* and a parent that began before it, and no stack is ever empty.          *)
THEOREM TracingTypes == Spec => []TypeOK
<1>1. TraceInv => TypeOK
  <2>1. SUFFICES ASSUME TraceInv
                 PROVE  TypeOK
    OBVIOUS
  <2>2. PICK lev : LevelInv(spans, stores, frames, lev, t, away)
    BY <2>1 DEF TraceInv
  <2>3. /\ Tree(spans, stores) /\ t \in Trackers(Trace(spans, lev))
        /\ PendingMap(t) /\ ClosedMap(t)
    BY <2>2 DEF LevelInv, Shape, TrackerInv, Sound
  <2>4. ASSUME NEW i \in DOMAIN spans
        PROVE  /\ spans[i].kind \in Kinds /\ spans[i].end \in Ends
               /\ spans[i].parent \in (1 .. i - 1) \cup {None} /\ spans[i].root \in 1 .. i
               /\ spans[i].store \in 1 .. Len(stores) + 1
    <3>1. /\ spans[i] \in SpanRecords /\ SpanOK(spans, stores, i) /\ Len(stores) \in Nat
      BY <2>3, <2>4, TreeTypes
    <3>2. spans[i].parent \in (1 .. i - 1) \cup {None} /\ spans[i].root \in 1 .. i
      BY <3>1 DEF SpanOK
    <3>3. spans[i].store \in 1 .. Len(stores) + 1
      BY <3>1 DEF SpanOK
    <3> QED BY <3>1, <3>2, <3>3 DEF SpanRecords
  <2>5. ASSUME NEW i \in DOMAIN stores
        PROVE  stores[i].stack # <<>> /\ stores[i].stack[1] = stores[i].root
    <3>1. StackOK(spans, i, stores[i].root, stores[i].stack)
      BY <2>3, <2>5, TreeTypes
    <3> QED BY <3>1, EmptySeq DEF StackOK
  <2>6. Len(t.pending) <= MaxPendingRoots /\ Len(t.closed) <= MaxClosedRoots
    BY <2>3 DEF PendingMap, ClosedMap
  <2>7. Cardinality(ClosedRoots(t)) = Len(t.closed)
    <3>1. t.closed \in Seq(Nat) /\ DOMAIN t.closed = 1 .. Len(t.closed)
      BY <2>3, TraceFields, LenProperties DEF Trackers
    <3>2. ClosedRoots(t) = {t.closed[i] : i \in 1 .. Len(t.closed)}
      BY <3>1 DEF ClosedRoots, ToSet
    <3> QED BY <2>3, <3>1, <3>2, DistinctElements DEF ClosedMap
  <2>8. Cardinality(PendingRoots(t)) = Len(t.pending)
    <3> DEFINE roots == [i \in 1 .. Len(t.pending) |-> t.pending[i].root]
    <3>1. /\ t.pending \in Seq(Entries(Trace(spans, lev))) /\ Len(t.pending) \in Nat
          /\ DOMAIN t.pending = 1 .. Len(t.pending)
          /\ \A i \in 1 .. Len(t.pending) : t.pending[i] \in Entries(Trace(spans, lev))
      BY <2>3, LenProperties, ElementOfSeq DEF Trackers
    <3>2. \A i \in 1 .. Len(t.pending) : t.pending[i].root \in Nat
      BY <3>1, TraceFields DEF Entries
    <3>3. roots \in Seq(Nat) /\ Len(roots) = Len(t.pending)
      BY <3>1, <3>2, IsASeq
    <3>4. \A i, j \in 1 .. Len(roots) : i # j => roots[i] # roots[j]
      BY <2>3, <3>3 DEF PendingMap
    <3>5. PendingRoots(t) = {roots[i] : i \in 1 .. Len(roots)}
      BY <3>1, <3>3 DEF PendingRoots
    <3> HIDE DEF roots
    <3> QED BY <3>3, <3>4, <3>5, DistinctElements
  <2> QED BY <2>4, <2>5, <2>6, <2>7, <2>8 DEF TypeOK
<1> QED BY <1>1, TraceInvariant, PTL

-----------------------------------------------------------------------------
(* The ancestors of a span are of its trace, and their levels are lower.   *)
Lineage(up, sp, n) ==
  up = [x \in 1 .. n |-> IF sp[x].parent = None THEN {}
                         ELSE {sp[x].parent} \cup up[sp[x].parent]]

LEMMA LineageExists ==
  ASSUME NEW sp, \A i \in 1 .. Len(sp) : sp[i].parent \in (1 .. i - 1) \cup {None},
         Len(sp) \in Nat, NEW n \in Nat, n <= Len(sp)
  PROVE  \E up : Lineage(up, sp, n)
<1> DEFINE T == {m \in Nat : m <= Len(sp) => \E up :
                   up = [x \in 1 .. m |-> IF sp[x].parent = None THEN {}
                                          ELSE {sp[x].parent} \cup up[sp[x].parent]]}
<1>1. 0 \in T
  <2> DEFINE up == [x \in 1 .. 0 |-> {}]
  <2>1. up = [x \in 1 .. 0 |-> IF sp[x].parent = None THEN {}
                               ELSE {sp[x].parent} \cup up[sp[x].parent]]
    OBVIOUS
  <2> QED BY <2>1
<1>2. ASSUME NEW m \in Nat, m \in T PROVE m + 1 \in T
  <2> SUFFICES ASSUME m + 1 <= Len(sp)
               PROVE  \E up : up = [x \in 1 .. m + 1 |->
                        IF sp[x].parent = None THEN {} ELSE {sp[x].parent} \cup up[sp[x].parent]]
    OBVIOUS
  <2>1. PICK up : up = [x \in 1 .. m |-> IF sp[x].parent = None THEN {}
                                         ELSE {sp[x].parent} \cup up[sp[x].parent]]
    BY <1>2
  <2> DEFINE above(g, x) == IF sp[x].parent = None THEN {}
                            ELSE {sp[x].parent} \cup g[sp[x].parent]
             h == [x \in 1 .. m + 1 |-> IF x = m + 1 THEN above(up, x) ELSE up[x]]
  <2>2. ASSUME NEW x \in 1 .. m + 1 PROVE h[x] = above(h, x)
    <3>1. x \in 1 .. Len(sp) /\ sp[x].parent \in (1 .. x - 1) \cup {None}
      <4>1. x \in 1 .. Len(sp)
        BY <2>2
      <4> QED BY <4>1
    <3>2. sp[x].parent # None => sp[x].parent \in 1 .. m /\ h[sp[x].parent] = up[sp[x].parent]
      BY <3>1
    <3>3. above(h, x) = above(up, x)
      <4> HIDE DEF h
      <4> QED BY <3>2
    <3>4. h[x] = above(up, x)
      <4>1. CASE x = m + 1
        BY <4>1
      <4>2. CASE x # m + 1
        <5>1. x \in 1 .. m /\ h[x] = up[x]
          BY <4>2
        <5> QED BY <2>1, <5>1
      <4> QED BY <4>1, <4>2
    <3> QED BY <3>3, <3>4
  <2>3. h = [x \in 1 .. m + 1 |-> above(h, x)]
    <3>1. h = [x \in 1 .. m + 1 |-> h[x]]
      OBVIOUS
    <3> HIDE DEF h, above
    <3> QED BY <2>2, <3>1
  <2> HIDE DEF h
  <2> QED BY <2>3
<1> HIDE DEF T
<1>3. n \in T
  BY <1>1, <1>2, SetInduction
<1> QED BY <1>3 DEF T, Lineage

LEMMA AncestorsAbove ==
  ASSUME Tree(spans, stores), NEW lev, Levels(spans, lev), NEW s \in 1 .. Len(spans),
         NEW a \in Ancestors(s)
  PROVE  a \in 1 .. Len(spans) /\ spans[a].root = spans[s].root /\ lev[a] < lev[s]
<1> DEFINE n == Len(spans)
           up == CHOOSE g : Lineage(g, spans, n)
           Above(m) == \A b \in up[m] :
                         b \in 1 .. n /\ spans[b].root = spans[m].root /\ lev[b] < lev[m]
           T == {m \in Nat : \A x \in 1 .. n : x <= m => Above(x)}
<1>1. /\ n \in Nat /\ DOMAIN spans = 1 .. n
      /\ \A i \in 1 .. n : SpanOK(spans, stores, i) /\ spans[i].kind \in Kinds
  BY TreeTypes DEF SpanRecords
<1>2. \A i \in 1 .. n :
        /\ spans[i].parent \in (1 .. i - 1) \cup {None} /\ lev[i] \in Nat
        /\ spans[i].parent # None =>
             spans[spans[i].parent].root = spans[i].root /\ lev[i] = lev[spans[i].parent] + 1
  BY <1>1 DEF SpanOK, Levels
<1>3. Ancestors(s) = up[s]
  BY <1>1 DEF Ancestors, Lineage
<1>4. Lineage(up, spans, n)
  BY <1>1, <1>2, LineageExists
<1> HIDE DEF up
<1>5. \A x \in 1 .. n : up[x] = IF spans[x].parent = None THEN {}
                                ELSE {spans[x].parent} \cup up[spans[x].parent]
  BY <1>4 DEF Lineage
<1> HIDE DEF n
<1>6. ASSUME NEW m \in Nat, m \in T, NEW x \in 1 .. n, x <= m + 1, NEW b \in up[x]
      PROVE  b \in 1 .. n /\ spans[b].root = spans[x].root /\ lev[b] < lev[x]
  <2> DEFINE p == spans[x].parent
  <2>1. p # None /\ p \in 1 .. x - 1 /\ (b = p \/ b \in up[p])
    BY <1>2, <1>5, <1>6
  <2>2. /\ p \in 1 .. n /\ p <= m /\ spans[p].root = spans[x].root
        /\ lev[x] = lev[p] + 1 /\ lev[p] \in Nat
    BY <1>1, <1>2, <1>6, <2>1
  <2>3. CASE b = p
    BY <2>2, <2>3
  <2>4. CASE b \in up[p]
    <3>1. b \in 1 .. n /\ spans[b].root = spans[p].root /\ lev[b] < lev[p]
      BY <1>6, <2>2, <2>4
    <3>2. lev[b] \in Nat
      BY <1>2, <3>1
    <3> HIDE DEF p
    <3> QED BY <2>2, <3>1, <3>2
  <2> QED BY <2>1, <2>3, <2>4
<1>7. 0 \in T
  BY <1>1
<1>8. \A m \in Nat : m \in T => m + 1 \in T
  BY <1>6
<1>9. s \in T
  <2> HIDE DEF T
  <2>1. \A m \in Nat : m \in T
    BY <1>7, <1>8, SetInduction
  <2> QED BY <2>1 DEF n
<1>10. Above(s)
  BY <1>1, <1>9 DEF n
<1> QED BY <1>3, <1>10 DEF n

(* "Only the top-most error is kept": no ancestor of the span whose error  *)
(* leaves with its root kept one too, when every span of the trace ended   *)
(* where it began, in nested order, and the root was never evicted.        *)
LEMMA ToppedIsTopmost ==
  ASSUME NEW lev, LevelInv(spans, stores, frames, lev, t, away),
         LevelInv(spans', stores', frames', lev, t', away'), NEW r, NEW how, NEW err, NEW kept,
         Closes(spans, spans', r, how, err, kept), NEW s, NEW w, Topped(lev, s, w),
         w.root \notin t.evicted,
         \A x \in DOMAIN spans : spans'[x].root = w.root => spans'[x].end \in {"open", "home"},
         NEW a \in Ancestors(w.span)
  PROVE  spans'[a].kept = None
<1>1. /\ Tree(spans, stores) /\ Levels(spans, lev) /\ Tree(spans', stores')
  BY DEF LevelInv, Shape
<1>2. /\ Len(spans') = Len(spans) /\ Len(spans) \in Nat /\ DOMAIN spans = 1 .. Len(spans)
      /\ \A i \in 1 .. Len(spans) : spans'[i].root = spans[i].root
      /\ \A i \in 1 .. Len(spans) : SpanOK(spans', stores', i)
  BY <1>1, TreeTypes DEF Closes
<1>3. /\ s \in Nat /\ w.span \in 1 .. Len(spans) /\ spans'[w.span].kept = s
      /\ spans'[w.span].root = w.root
      /\ spans'[w.span].end = "home" /\ Nested(spans', w.root) => w.depth = lev[w.span]
      /\ w \in Candidates
  BY <1>2, InBest DEF Topped
<1>4. Nested(spans', w.root)
  BY <1>2 DEF Nested
<1>5. spans'[w.span].end = "home" /\ w.root = s
  BY <1>2, <1>3, <1>4, NoneIsNoNumber DEF SpanOK, Nested
<1>6. w.depth = lev[w.span] /\ w.depth \in Nat
  BY <1>3, <1>4, <1>5, TraceCandidates
<1>7. a \in 1 .. Len(spans) /\ spans[a].root = spans[w.span].root /\ lev[a] < lev[w.span]
  BY <1>1, <1>3, AncestorsAbove
<1>8. spans'[a].root = s /\ lev[a] \in Nat
  BY <1>1, <1>2, <1>3, <1>5, <1>7 DEF Levels
<1>9. spans'[a].kept # s
  BY <1>2, <1>4, <1>5, <1>6, <1>7, <1>8 DEF Topped
<1>10. spans'[a].kept \in {None, s}
  <2>1. spans'[a].end \in {"open", "home"}
    BY <1>2, <1>4, <1>5, <1>7, <1>8 DEF Nested
  <2> QED BY <1>2, <1>7, <1>8, <2>1 DEF SpanOK
<1> QED BY <1>9, <1>10

LEMMA EventsOfTracker ==
  ASSUME NEW sp, NEW st, NEW fr, NEW lev, NEW x, NEW gone, LevelInv(sp, st, fr, lev, x, gone)
  PROVE  Len(x.events) \in Nat /\ DOMAIN x.events = 1 .. Len(x.events)
<1>1. x \in Trackers(Trace(sp, lev))
  BY DEF LevelInv, TrackerInv, Sound
<1>2. x.events \in Seq(Events(Trace(sp, lev)))
  BY <1>1 DEF Trackers
<1> QED BY <1>2, LenProperties

LEMMA NextIsQuiet ==
  ASSUME TraceInv, Next, \A k \in Tasks, e \in Outcome : ~RootEnds(k, e)
  PROVE  Quiet(t, t')
<1>1. t'.events = t.events => Quiet(t, t')
  <2>1. \A i \in Len(t.events) + 1 .. Len(t.events) : FALSE
    BY EventsOfTracker DEF TraceInv
  <2> QED BY <2>1 DEF Quiet
<1>2. ASSUME NEW k \in Tasks, WithTrace(k) \/ WithSpan(k) \/ StartSpan(k) \/ BeginLeaf(k)
      PROVE  Quiet(t, t')
  BY <1>1, <1>2 DEF WithTrace, WithSpan, StartSpan, BeginLeaf
<1>3. ASSUME NEW k \in Tasks, BranchEnds(k)
      PROVE  Quiet(t, t')
  BY <1>1, <1>3, BranchEndsKeeps
<1>4. ASSUME NEW k \in Tasks, NEW b \in Tasks \ {k}, Fork(k, b)
      PROVE  Quiet(t, t')
  BY <1>1, <1>4, ForkKeeps
<1>5. ASSUME NEW k \in Tasks, NEW e \in Outcome, NEW own \in BOOLEAN, ScopeEnds(k, e, own)
      PROVE  Quiet(t, t')
  BY <1>5, ScopeEndsKeeps
<1>6. ASSUME NEW k \in Tasks, NEW s \in DOMAIN spans, NEW e \in Outcome, EndManual(k, s, e)
      PROVE  Quiet(t, t')
  BY <1>6, EndManualKeeps
<1>7. ASSUME NEW k \in Tasks, NEW s \in DOMAIN spans, NEW e \in Outcome, NEW own \in BOOLEAN,
             EndLeaf(k, s, e, own)
      PROVE  Quiet(t, t')
  BY <1>7, EndLeafKeeps
<1>8. ASSUME NEW k \in Tasks, NEW e \in Errors, CaptureException(k, e)
      PROVE  Quiet(t, t')
  BY <1>8, CaptureExceptionKeeps
<1>9. ASSUME ClientStops
      PROVE  Quiet(t, t')
  BY <1>1, <1>9, ClientStopsKeeps
<1>10. ASSUME NEW n \in 1 .. MaxPendingRoots, TenMinutesPass(n)
       PROVE  Quiet(t, t')
  BY <1>1, <1>10, TenMinutesPassKeeps
<1> QED BY <1>2, <1>3, <1>4, <1>5, <1>6, <1>7, <1>8, <1>9, <1>10 DEF Next

LEMMA TopmostStep ==
  ASSUME TraceInv, TraceInv', Next, NEW i \in DOMAIN t'.events \ DOMAIN t.events,
         t'.events[i].via = "complete",
         t'.events[i].candidate.root \notin t.evicted,
         \A x \in DOMAIN spans : spans'[x].root = t'.events[i].candidate.root =>
                                   spans'[x].end \in {"open", "home"},
         NEW a \in Ancestors(t'.events[i].candidate.span)
  PROVE  spans'[a].kept = None
<1> DEFINE w == t'.events[i].candidate
<1>1. i \in Len(t.events) + 1 .. Len(t'.events)
  <2>1. Len(t.events) \in Nat /\ DOMAIN t.events = 1 .. Len(t.events)
    BY EventsOfTracker DEF TraceInv
  <2>2. Len(t'.events) \in Nat /\ DOMAIN t'.events = 1 .. Len(t'.events)
    BY EventsOfTracker DEF TraceInv
  <2> QED BY <2>1, <2>2
<1>2. PICK k \in Tasks, e \in Outcome : RootEnds(k, e)
  BY <1>1, NextIsQuiet DEF Quiet
<1>3. PICK lev : LevelInv(spans, stores, frames, lev, t, away)
  BY DEF TraceInv
<1>4. /\ LevelInv(spans', stores', frames', lev, t', away')
      /\ \E s : Closes(spans, spans', s, "home", e, spans'[s].kept)
      /\ \E s : Topped(lev, s, w)
  BY <1>1, <1>2, <1>3, RootEndsKeeps
<1>5. PICK r : Closes(spans, spans', r, "home", e, spans'[r].kept)
  BY <1>4
<1>6. PICK s : Topped(lev, s, w)
  BY <1>4
<1>7. /\ w.root \notin t.evicted /\ a \in Ancestors(w.span)
      /\ \A x \in DOMAIN spans : spans'[x].root = w.root => spans'[x].end \in {"open", "home"}
  OBVIOUS
<1> HIDE DEF w
<1> QED BY <1>3, <1>4, <1>5, <1>6, <1>7, ToppedIsTopmost

(* So of all the errors of a trace the event is about one whose ancestors  *)
(* kept none, as "only the top-most error is kept" says.                   *)
THEOREM TopmostErrorsWin == Spec => TopmostErrorWins
<1>1. ASSUME TraceInv, TraceInv', [Next]_vars
      PROVE  [\A i \in DOMAIN t'.events \ DOMAIN t.events :
                LET winner == t'.events[i].candidate
                IN (/\ t'.events[i].via = "complete" /\ winner.root \notin t.evicted
                    /\ \A s \in DOMAIN spans : spans'[s].root = winner.root =>
                                                 spans'[s].end \in {"open", "home"})
                   => \A a \in Ancestors(winner.span) :
                        spans'[a].kept = None \/ spans'[a].err \in t.captured]_vars
  BY <1>1, TopmostStep DEF vars
<1> QED BY <1>1, TraceInvariant, PTL DEF TopmostErrorWins, Spec

(* A span begins under one that is open, or that was ended abroad, or that *)
(* is a scope in whose store a branch still runs.                          *)
Encloses(s) ==
  LET p == spans'[s].parent
  IN p # None => \/ spans[p].end \in {"open", "abroad"}
                 \/ spans[p].kind \in {"root", "scope"}
                    /\ \E k \in Tasks : Context(k) = spans[p].store

LEMMA RunningSpanEncloses ==
  ASSUME TraceInv, NEW k \in Tasks, Context(k) # None
  PROVE  LET p == Last(StackOf(Context(k))) IN
         \/ spans[p].end \in {"open", "abroad"}
         \/ spans[p].kind \in {"root", "scope"} /\ Context(k) = spans[p].store
<1> DEFINE store == Context(k)
           stack == stores[store].stack
           p == stack[Len(stack)]
<1>1. Shape(spans, stores, frames)
  BY DEF TraceInv, LevelInv
<1>2. /\ StackOf(store) = stack /\ StackOK(spans, store, stores[store].root, stack)
      /\ Len(stack) \in Nat /\ Len(stack) >= 1 /\ Last(stack) = p
      /\ p \in 1 .. Len(spans)
  BY <1>1, RunningStack
<1> HIDE DEF store, stack
<1>3. /\ Len(stack) \in 1 .. Len(stack) /\ spans[p].store = store /\ spans[p].kind # "leaf"
      /\ spans[p].kind = "manual" => spans[p].end \in {"open", "abroad"}
  BY <1>2 DEF StackOK
<1>4. spans[p].kind \in Kinds
  BY <1>1, <1>2, TreeTypes DEF Shape, SpanRecords
<1> QED BY <1>2, <1>3, <1>4 DEF Kinds, store

LEMMA ParentStep ==
  ASSUME TraceInv, Next, NEW s \in DOMAIN spans' \ DOMAIN spans
  PROVE  Encloses(s)
<1>1. Tree(spans, stores) /\ Len(spans) \in Nat /\ DOMAIN spans = 1 .. Len(spans)
      /\ spans \in Seq(SpanRecords)
  BY TreeTypes DEF TraceInv, LevelInv, Shape, Tree
<1>2. ASSUME NEW x, spans' = Append(spans, x)
      PROVE  spans'[s] = x
  <2>1. s = Len(spans) + 1
    BY <1>1, <1>2
  <2> QED BY <1>1, <1>2, <2>1
<1>3. ASSUME NEW k \in Tasks, WithTrace(k)
      PROVE  Encloses(s)
  BY <1>2, <1>3 DEF WithTrace, Opened, Encloses
<1>4. ASSUME NEW k \in Tasks, WithSpan(k) \/ StartSpan(k) \/ BeginLeaf(k)
      PROVE  Encloses(s)
  <2>1. Context(k) # None /\ spans'[s].parent = Last(StackOf(Context(k)))
    BY <1>2, <1>4 DEF WithSpan, StartSpan, BeginLeaf, Opened
  <2> QED BY <2>1, RunningSpanEncloses DEF Encloses
<1>5. DOMAIN spans' # DOMAIN spans
  OBVIOUS
<1>6. \A k \in Tasks : ~BranchEnds(k) /\ ~(\E b \in Tasks \ {k} : Fork(k, b))
        /\ ~(\E e \in Errors : CaptureException(k, e))
  BY <1>5 DEF BranchEnds, Fork, CaptureException
<1>7. \A k \in Tasks, e \in Outcome : ~RootEnds(k, e)
  BY <1>5 DEF RootEnds, Ended
<1>8. \A k \in Tasks, e \in Outcome, own \in BOOLEAN : ~ScopeEnds(k, e, own)
  BY <1>5 DEF ScopeEnds, Ended
<1>9. \A k \in Tasks, x \in DOMAIN spans, e \in Outcome : ~EndManual(k, x, e)
  BY <1>5 DEF EndManual, Ended
<1>10. \A k \in Tasks, x \in DOMAIN spans, e \in Outcome, own \in BOOLEAN :
         ~EndLeaf(k, x, e, own)
  BY <1>5 DEF EndLeaf, Ended
<1>11. ~ClientStops /\ ~(\E n \in 1 .. MaxPendingRoots : TenMinutesPass(n))
  BY <1>5 DEF ClientStops, TenMinutesPass
<1> QED BY <1>3, <1>4, <1>6, <1>7, <1>8, <1>9, <1>10, <1>11 DEF Next

(* No span begins under a parent that has ended, but for those exceptions: *)
(* however startSpan() handles are ended and branches forked, the top of   *)
(* every stack that runs is alive.                                         *)
THEOREM ParentsEnclose == Spec => ParentEncloses
<1>1. ASSUME TraceInv, [Next]_vars
      PROVE  [\A s \in DOMAIN spans' \ DOMAIN spans :
                LET p == spans'[s].parent
                IN p # None => \/ spans[p].end \in {"open", "abroad"}
                               \/ spans[p].kind \in {"root", "scope"}
                                  /\ \E k \in Tasks : Context(k) = spans[p].store]_vars
  BY <1>1, ParentStep DEF Encloses, vars
<1> QED BY <1>1, TraceInvariant, PTL DEF ParentEncloses, Spec
=============================================================================
