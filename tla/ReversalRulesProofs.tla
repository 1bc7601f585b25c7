-------------------------- MODULE ReversalRulesProofs --------------------------
(***************************************************************************)
(* What effectiveSteps yields for every history: a step is in effect       *)
(* exactly if no later reversal goes back to it or to a step before it.    *)
(* The records' own proofs use it for the row a step appends.              *)
(*                                                                         *)
(* EffectiveSteps is a recursive function over the history. That a         *)
(* function obeying its equation exists is shown by giving one; that there *)
(* is no other, by the least place at which two would differ.              *)
(***************************************************************************)
EXTENDS ReversalRules, FiniteSetTheorems, WellFoundedInduction, TLAPS

\* A non-empty set of naturals has a least element: the initial segments its members end are
\* finite sets, and strict inclusion of those is well-founded.
LEMMA LeastNatural ==
  ASSUME NEW T \in SUBSET Nat, T # {}
  PROVE  \E m \in T : \A k \in T : m <= k
<1> DEFINE Segments == {0..k : k \in T}
<1>1. Segments \subseteq FiniteSubsetsOf(Nat)
  <2>1. ASSUME NEW k \in T PROVE (0..k) \in FiniteSubsetsOf(Nat)
    BY FS_Interval DEF FiniteSubsetsOf
  <2> QED BY <2>1
<1>2. Segments # {}
  OBVIOUS
<1>3. IsWellFoundedOn(StrictSubsetOrdering(Nat), FiniteSubsetsOf(Nat))
  BY FS_StrictSubsetOrderingWellFounded
<1>4. PICK I \in Segments : \A J \in Segments : <<J, I>> \notin StrictSubsetOrdering(Nat)
  <2> HIDE DEF Segments
  <2> QED BY <1>1, <1>2, <1>3, WFMin
<1>5. PICK m \in T : I = 0..m
  OBVIOUS
<1>6. ASSUME NEW k \in T, k < m PROVE FALSE
  <2>1. m \in 0..m /\ m \notin 0..k /\ (0..k) \subseteq (0..m)
    BY <1>6
  <2>2. <<0..k, 0..m>> \in StrictSubsetOrdering(Nat)
    BY <2>1 DEF StrictSubsetOrdering
  <2> QED BY <2>2, <1>4, <1>5
<1> QED BY <1>6

-----------------------------------------------------------------------------

\* The steps among the first n that no reversal among the first n has undone.
Standing(h, n) ==
  {s \in 1..n : /\ h[s].action # "REVERSED"
                /\ \A t \in (s + 1)..n : h[t].action = "REVERSED" => s < h[t].undone}

\* The equation of the recursive function in EffectiveSteps.
Keeps(f, h) ==
  f = [n \in 0..Len(h) |->
         CASE n = 0                                -> {}
           [] n > 0 /\ h[n].action = "REVERSED"    -> {s \in f[n - 1] : s < h[n].undone}
           [] OTHER                                -> f[n - 1] \cup {n}]

LEMMA StandingKeeps ==
  ASSUME NEW h, Len(h) \in Nat
  PROVE  Keeps([n \in 0..Len(h) |-> Standing(h, n)], h)
<1> DEFINE f == [n \in 0..Len(h) |-> Standing(h, n)]
<1> SUFFICES ASSUME NEW n \in 0..Len(h)
             PROVE  f[n] = CASE n = 0                             -> {}
                             [] n > 0 /\ h[n].action = "REVERSED" -> {s \in f[n - 1] : s < h[n].undone}
                             [] OTHER                             -> f[n - 1] \cup {n}
  BY DEF Keeps
<1>1. CASE n = 0
  BY <1>1 DEF Standing
<1>2. CASE n > 0
  <2>1. f[n] = Standing(h, n) /\ f[n - 1] = Standing(h, n - 1)
    BY <1>2
  <2>2. CASE h[n].action = "REVERSED"
    <3>1. Standing(h, n) = {s \in Standing(h, n - 1) : s < h[n].undone}
      BY <1>2, <2>2 DEF Standing
    <3>2. f[n] = {s \in f[n - 1] : s < h[n].undone}
      BY <2>1, <3>1
    <3>3. n # 0
      BY <1>2
    <3> HIDE DEF f
    <3> QED BY <1>2, <2>2, <3>2, <3>3, Zenon
  <2>3. CASE h[n].action # "REVERSED"
    <3>1. Standing(h, n) = Standing(h, n - 1) \cup {n}
      BY <1>2, <2>3 DEF Standing
    <3>2. f[n] = f[n - 1] \cup {n}
      BY <2>1, <3>1
    <3>3. n # 0
      BY <1>2
    <3> HIDE DEF f
    <3> QED BY <2>3, <3>2, <3>3, Zenon
  <2> QED BY <2>2, <2>3
<1>3. n = 0 \/ n > 0
  OBVIOUS
<1> HIDE DEF f
<1> QED BY <1>1, <1>2, <1>3, Zenon

LEMMA KeepsIsUnique ==
  ASSUME NEW h, Len(h) \in Nat, NEW f, NEW g, Keeps(f, h), Keeps(g, h)
  PROVE  f[Len(h)] = g[Len(h)]
<1> DEFINE T == {n \in 0..Len(h) : f[n] # g[n]}
<1> SUFFICES ASSUME T # {} PROVE FALSE
  OBVIOUS
<1>1. PICK m \in T : \A k \in T : m <= k
  <2>1. T \in SUBSET Nat
    OBVIOUS
  <2> HIDE DEF T
  <2> QED BY <2>1, LeastNatural
<1>2. m # 0
  BY DEF Keeps
<1>3. m - 1 \in 0..Len(h) /\ f[m - 1] = g[m - 1]
  BY <1>1, <1>2
<1> QED BY <1>2, <1>3 DEF Keeps

LEMMA EffectiveStepsIsKeeps ==
  ASSUME NEW h, Len(h) \in Nat
  PROVE  EffectiveSteps(h) = Standing(h, Len(h))
<1> DEFINE kept == CHOOSE f : Keeps(f, h)
<1>1. Keeps(kept, h)
  BY StandingKeeps
<1>2. EffectiveSteps(h) = kept[Len(h)]
  BY DEF EffectiveSteps, Keeps
<1>3. Keeps([n \in 0..Len(h) |-> Standing(h, n)], h)
  BY StandingKeeps
<1>4. kept[Len(h)] = [n \in 0..Len(h) |-> Standing(h, n)][Len(h)]
  <2> HIDE DEF kept
  <2> QED BY <1>1, <1>3, KeepsIsUnique
<1> QED BY <1>2, <1>4

-----------------------------------------------------------------------------
(* The history grows by a row at a time. *)

\* effectiveSteps: a step is in effect exactly if no later reversal went back to it or before it.
THEOREM EffectiveIsNotUndone ==
  ASSUME NEW S, NEW h \in Seq(S)
  PROVE  EffectiveSteps(h) =
           {s \in DOMAIN h : /\ h[s].action # "REVERSED"
                             /\ \A t \in DOMAIN h : t > s /\ h[t].action = "REVERSED" => s < h[t].undone}
<1>1. Len(h) \in Nat /\ DOMAIN h = 1..Len(h)
  OBVIOUS
<1>2. EffectiveSteps(h) = Standing(h, Len(h))
  BY <1>1, EffectiveStepsIsKeeps
<1> QED BY <1>1, <1>2 DEF Standing

LEMMA EffectiveOfNone == EffectiveSteps(<<>>) = {}
<1>1. <<>> \in Seq({}) /\ DOMAIN <<>> = {}
  OBVIOUS
<1> QED BY <1>1, EffectiveIsNotUndone

\* A step that is taken is in effect, beside those that are.
LEMMA EffectiveAfterStep ==
  ASSUME NEW S, NEW h \in Seq(S), NEW row \in S, row.action # "REVERSED"
  PROVE  EffectiveSteps(Append(h, row)) = EffectiveSteps(h) \cup {Len(h) + 1}
<1> DEFINE g == Append(h, row)
<1>1. /\ g \in Seq(S) /\ DOMAIN g = 1..(Len(h) + 1) /\ DOMAIN h = 1..Len(h) /\ Len(h) \in Nat
      /\ g[Len(h) + 1] = row /\ \A s \in DOMAIN h : g[s] = h[s]
  OBVIOUS
<1> HIDE DEF g
<1>2. EffectiveSteps(g) =
        {s \in DOMAIN g : /\ g[s].action # "REVERSED"
                          /\ \A t \in DOMAIN g : t > s /\ g[t].action = "REVERSED" => s < g[t].undone}
  BY <1>1, EffectiveIsNotUndone
<1>3. EffectiveSteps(h) =
        {s \in DOMAIN h : /\ h[s].action # "REVERSED"
                          /\ \A t \in DOMAIN h : t > s /\ h[t].action = "REVERSED" => s < h[t].undone}
  BY EffectiveIsNotUndone
<1> SUFFICES EffectiveSteps(g) = EffectiveSteps(h) \cup {Len(h) + 1}
  BY DEF g
<1>4. ASSUME NEW s \in EffectiveSteps(g) PROVE s \in EffectiveSteps(h) \cup {Len(h) + 1}
  BY <1>1, <1>2, <1>3, <1>4
<1>5. ASSUME NEW s \in EffectiveSteps(h) PROVE s \in EffectiveSteps(g)
  BY <1>1, <1>2, <1>3, <1>5
<1>6. Len(h) + 1 \in EffectiveSteps(g)
  BY <1>1, <1>2
<1> QED BY <1>4, <1>5, <1>6

\* A reversal leaves in effect the steps before the one it goes back to.
LEMMA EffectiveAfterReversal ==
  ASSUME NEW S, NEW h \in Seq(S), NEW row \in S, row.action = "REVERSED"
  PROVE  EffectiveSteps(Append(h, row)) = {s \in EffectiveSteps(h) : s < row.undone}
<1> DEFINE g == Append(h, row)
<1>1. /\ g \in Seq(S) /\ DOMAIN g = 1..(Len(h) + 1) /\ DOMAIN h = 1..Len(h) /\ Len(h) \in Nat
      /\ g[Len(h) + 1] = row /\ \A s \in DOMAIN h : g[s] = h[s]
  OBVIOUS
<1> HIDE DEF g
<1>2. EffectiveSteps(g) =
        {s \in DOMAIN g : /\ g[s].action # "REVERSED"
                          /\ \A t \in DOMAIN g : t > s /\ g[t].action = "REVERSED" => s < g[t].undone}
  BY <1>1, EffectiveIsNotUndone
<1>3. EffectiveSteps(h) =
        {s \in DOMAIN h : /\ h[s].action # "REVERSED"
                          /\ \A t \in DOMAIN h : t > s /\ h[t].action = "REVERSED" => s < h[t].undone}
  BY EffectiveIsNotUndone
<1> SUFFICES EffectiveSteps(g) = {s \in EffectiveSteps(h) : s < row.undone}
  BY DEF g
<1>4. ASSUME NEW s \in EffectiveSteps(g) PROVE s \in EffectiveSteps(h) /\ s < row.undone
  BY <1>1, <1>2, <1>3, <1>4
<1>5. ASSUME NEW s \in EffectiveSteps(h), s < row.undone PROVE s \in EffectiveSteps(g)
  BY <1>1, <1>2, <1>3, <1>5
<1> QED BY <1>4, <1>5

LEMMA EffectiveAreSteps ==
  ASSUME NEW S, NEW h \in Seq(S), NEW s \in EffectiveSteps(h)
  PROVE  s \in DOMAIN h /\ h[s].action # "REVERSED"
  BY EffectiveIsNotUndone

\* Of steps that were taken one is the last.
LEMMA LastStep ==
  ASSUME NEW S, NEW h \in Seq(S), NEW steps \in SUBSET DOMAIN h, steps # {}
  PROVE  \E s \in steps : \A t \in steps : t <= s
<1> DEFINE FromTheEnd == {Len(h) - s : s \in steps}
<1>1. Len(h) \in Nat /\ \A s \in steps : s \in Nat /\ s <= Len(h)
  OBVIOUS
<1>2. FromTheEnd \in SUBSET Nat /\ FromTheEnd # {}
  BY <1>1
<1>3. PICK m \in FromTheEnd : \A k \in FromTheEnd : m <= k
  <2> HIDE DEF FromTheEnd
  <2> QED BY <1>2, LeastNatural
<1>4. PICK s \in steps : m = Len(h) - s
  BY <1>3
<1>5. ASSUME NEW t \in steps PROVE t <= s
  <2>1. Len(h) - s <= Len(h) - t
    BY <1>3, <1>4
  <2> QED BY <1>1, <2>1
<1> QED BY <1>5

\* ownOptions: going back to a step it offers undoes steps of that user and of the timers only.
THEOREM OwnStepsUndoOwnSteps ==
  ASSUME NEW S, NEW h \in Seq(S), NEW u, NEW own \in OwnSteps(h, u),
         NEW row \in S, row.action = "REVERSED", row.undone = own,
         NEW s \in EffectiveSteps(h) \ EffectiveSteps(Append(h, row))
  PROVE  h[s].actor \in {Timer, u}
<1>1. s >= own
  <2>1. s \in Nat /\ own \in Nat
    BY EffectiveAreSteps DEF OwnSteps
  <2> QED BY <2>1, EffectiveAfterReversal
<1>2. s \in Nat /\ own \in Nat
  BY EffectiveAreSteps DEF OwnSteps
<1> QED BY <1>1, <1>2 DEF OwnSteps
=============================================================================
