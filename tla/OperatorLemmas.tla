--------------------------- MODULE OperatorLemmas ---------------------------
(***************************************************************************)
(* What the operators compute that several modules are built from, proved  *)
(* once for the proofs about those modules.                                *)
(*                                                                         *)
(* Sums: SumFunctionOnSet of the community modules, for any finite set and *)
(* any function with natural values; the bytes of the proxy's audit buffer *)
(* and of the encrypted disk buffer are such sums.  The sum is defined by  *)
(* recursion over the subsets, taking out a CHOSEN element at each step.   *)
(* Each induction over a finite set is done on a minimal counterexample:   *)
(* strict inclusion is well-founded on the subsets of a finite set.        *)
(*                                                                         *)
(* DualChannel: the aggregation of the two channels, for every rule level  *)
(* and every reviewer result, is the documented matrix, a rule hit is      *)
(* never lowered, and a verdict has the shape its users rely on.           *)
(***************************************************************************)
EXTENDS DualChannel, FiniteSets, Functions, FiniteSetTheorems, TLAPS

-----------------------------------------------------------------------------
(* Finite sets and sums. *)

\* Among subsets of a finite set there is one that strictly includes no other.
LEMMA MinimalSubset ==
  ASSUME NEW S, IsFiniteSet(S), NEW C \in SUBSET SUBSET S, C # {}
  PROVE  \E m \in C : \A t \in C : t \subseteq m => t = m
<1>1. IsWellFoundedOn(StrictSubsetOrdering(S), SUBSET S)
  BY FS_StrictSubsetOrderingWellFounded, FS_FiniteSubsetsOfFinite
<1>2. PICK m \in C : \A t \in C : ~(<<t, m>> \in StrictSubsetOrdering(S))
  <2>. HIDE DEF StrictSubsetOrdering
  <2>. QED BY <1>1, WFMin, Zenon
<1>. QED BY <1>2 DEF StrictSubsetOrdering

Chosen(s) == CHOOSE x \in s : TRUE

\* g gives every subset of S the sum of f over it, one chosen element at a time.
IsSum(g, f, S) ==
  g = [s \in SUBSET S |-> IF s = {} THEN 0 ELSE f[Chosen(s)] + g[s \ {Chosen(s)}]]

LEMMA ChosenIn == ASSUME NEW s, s # {} PROVE Chosen(s) \in s
BY DEF Chosen

\* Two such functions agree wherever both are defined.
LEMMA SumUnique ==
  ASSUME NEW f, NEW S, NEW T, NEW g, NEW h, IsSum(g, f, S), IsSum(h, f, T),
         NEW U \in SUBSET (S \cap T), IsFiniteSet(U)
  PROVE  g[U] = h[U]
<1>. DEFINE C == {s \in SUBSET U : g[s] # h[s]}
<1>1. SUFFICES ASSUME C # {} PROVE FALSE
  OBVIOUS
<1>2. PICK m \in C : \A t \in C : t \subseteq m => t = m
  <2>. HIDE DEF C
  <2>1. C \in SUBSET SUBSET U
    BY DEF C
  <2>. QED BY <1>1, <2>1, MinimalSubset
<1>3. m \in SUBSET S /\ m \in SUBSET T
  OBVIOUS
<1>4. CASE m = {}
  BY <1>3, <1>4 DEF IsSum
<1>5. CASE m # {}
  <2>. DEFINE r == m \ {Chosen(m)}
  <2>1. r \subseteq m /\ r # m
    BY <1>5, ChosenIn
  <2>2. g[r] = h[r]
    BY <1>2, <2>1
  <2>3. g[m] = f[Chosen(m)] + g[r] /\ h[m] = f[Chosen(m)] + h[r]
    BY <1>3, <1>5 DEF IsSum
  <2>. QED BY <2>2, <2>3
<1>. QED BY <1>4, <1>5

\* The recursion has a solution on every finite set.
LEMMA SumExists ==
  ASSUME NEW f, NEW S, IsFiniteSet(S)
  PROVE  \E g : IsSum(g, f, S)
<1>. DEFINE C == {T \in SUBSET S : ~ \E g : IsSum(g, f, T)}
<1>1. SUFFICES ASSUME C # {} PROVE FALSE
  OBVIOUS
<1>2. PICK m \in C : \A t \in C : t \subseteq m => t = m
  <2>. HIDE DEF C
  <2>1. C \in SUBSET SUBSET S
    BY DEF C
  <2>. QED BY <1>1, <2>1, MinimalSubset
<1>. DEFINE G(T) == CHOOSE g : IsSum(g, f, T)
            h == [s \in SUBSET m |->
                    IF s = {} THEN 0
                    ELSE f[Chosen(s)] + G(s \ {Chosen(s)})[s \ {Chosen(s)}]]
<1>3. \A T \in SUBSET m : T # m => IsSum(G(T), f, T)
  BY <1>2
<1>. HIDE DEF G
<1>4. \A T \in SUBSET m : T # m => h[T] = G(T)[T]
  <2>. SUFFICES ASSUME NEW T \in SUBSET m, T # m PROVE h[T] = G(T)[T]
    OBVIOUS
  <2>1. IsSum(G(T), f, T)
    BY <1>3
  <2>2. CASE T = {}
    BY <2>1, <2>2 DEF IsSum
  <2>3. CASE T # {}
    <3>. DEFINE r == T \ {Chosen(T)}
    <3>1. r \in SUBSET m /\ r # m /\ r \in SUBSET T
      BY <2>3
    <3>2. IsSum(G(r), f, r)
      BY <1>3, <3>1
    <3>3. IsFiniteSet(r)
      BY <3>1, FS_Subset
    <3>4. G(T)[r] = G(r)[r]
      BY <2>1, <3>1, <3>2, <3>3, SumUnique
    <3>5. G(T)[T] = f[Chosen(T)] + G(T)[r]
      BY <2>1, <2>3 DEF IsSum
    <3>6. h[T] = f[Chosen(T)] + G(r)[r]
      BY <2>3
    <3>. QED BY <3>4, <3>5, <3>6
  <2>. QED BY <2>2, <2>3
<1>5. IsSum(h, f, m)
  <2>1. \A s \in SUBSET m : s # {} =>
          h[s \ {Chosen(s)}] = G(s \ {Chosen(s)})[s \ {Chosen(s)}]
    <3>. SUFFICES ASSUME NEW s \in SUBSET m, s # {}
                  PROVE  h[s \ {Chosen(s)}] = G(s \ {Chosen(s)})[s \ {Chosen(s)}]
      OBVIOUS
    <3>1. Chosen(s) \in s
      BY ChosenIn
    <3>2. s \ {Chosen(s)} \in SUBSET m /\ s \ {Chosen(s)} # m
      BY <3>1
    <3>. QED BY <1>4, <3>2
  <2>2. h = [s \in SUBSET m |-> IF s = {} THEN 0 ELSE f[Chosen(s)] + h[s \ {Chosen(s)}]]
    BY <2>1
  <2>. QED BY <2>2 DEF IsSum
<1>. QED BY <1>5

\* SumFunctionOnSet is the value of that solution at the whole set.
LEMMA SumIsSum ==
  ASSUME NEW f, NEW S, IsFiniteSet(S), NEW g, IsSum(g, f, S)
  PROVE  SumFunctionOnSet(f, S) = g[S]
<1>. DEFINE h == CHOOSE iter :
              iter = [s \in SUBSET S |->
                        IF s = {} THEN 0
                        ELSE f[CHOOSE x \in s : TRUE] + iter[s \ {CHOOSE x \in s : TRUE}]]
<1>1. SumFunctionOnSet(f, S) = h[S]
  BY DEF SumFunctionOnSet, FoldFunctionOnSet, MapThenFoldSet
<1>2. \E iter : iter = [s \in SUBSET S |->
                        IF s = {} THEN 0
                        ELSE f[CHOOSE x \in s : TRUE] + iter[s \ {CHOOSE x \in s : TRUE}]]
  BY DEF IsSum, Chosen
<1>3. IsSum(h, f, S)
  BY <1>2 DEF IsSum, Chosen
<1>. QED BY <1>1, <1>3, SumUnique

LEMMA SumEmpty ==
  ASSUME NEW f
  PROVE  SumFunctionOnSet(f, {}) = 0
<1>1. IsFiniteSet({})
  BY FS_EmptySet
<1>2. PICK g : IsSum(g, f, {})
  BY <1>1, SumExists
<1>3. g[{}] = 0
  BY <1>2 DEF IsSum
<1>. QED BY <1>1, <1>2, <1>3, SumIsSum

LEMMA SumChosen ==
  ASSUME NEW f, NEW S, IsFiniteSet(S), S # {}
  PROVE  SumFunctionOnSet(f, S)
           = f[Chosen(S)] + SumFunctionOnSet(f, S \ {Chosen(S)})
<1>. DEFINE r == S \ {Chosen(S)}
<1>1. PICK g : IsSum(g, f, S)
  BY SumExists
<1>2. IsFiniteSet(r)
  BY FS_Subset
<1>3. PICK h : IsSum(h, f, r)
  BY <1>2, SumExists
<1>4. g[r] = h[r]
  BY <1>1, <1>2, <1>3, SumUnique
<1>5. g[S] = f[Chosen(S)] + g[r]
  BY <1>1 DEF IsSum
<1>6. SumFunctionOnSet(f, S) = g[S]
  BY <1>1, SumIsSum
<1>7. SumFunctionOnSet(f, r) = h[r]
  BY <1>2, <1>3, SumIsSum
<1>. QED BY <1>4, <1>5, <1>6, <1>7

\* The sum of natural numbers is one.
LEMMA SumNat ==
  ASSUME NEW f, NEW S, IsFiniteSet(S), \A x \in S : f[x] \in Nat
  PROVE  SumFunctionOnSet(f, S) \in Nat
<1>. DEFINE C == {s \in SUBSET S : SumFunctionOnSet(f, s) \notin Nat}
<1>1. SUFFICES ASSUME C # {} PROVE FALSE
  OBVIOUS
<1>2. PICK m \in C : \A t \in C : t \subseteq m => t = m
  <2>. HIDE DEF C
  <2>1. C \in SUBSET SUBSET S
    BY DEF C
  <2>. QED BY <1>1, <2>1, MinimalSubset
<1>3. m # {}
  BY SumEmpty
<1>4. Chosen(m) \in m
  BY <1>3, ChosenIn
<1>5. SumFunctionOnSet(f, m \ {Chosen(m)}) \in Nat
  BY <1>2, <1>4
<1>6. IsFiniteSet(m)
  BY FS_Subset
<1>7. SumFunctionOnSet(f, m) \in Nat
  BY <1>3, <1>4, <1>5, <1>6, SumChosen
<1>. QED BY <1>7

LEMMA SumZero ==
  ASSUME NEW f, NEW S, IsFiniteSet(S), \A x \in S : f[x] = 0
  PROVE  SumFunctionOnSet(f, S) = 0
<1>. DEFINE C == {s \in SUBSET S : SumFunctionOnSet(f, s) # 0}
<1>1. SUFFICES ASSUME C # {} PROVE FALSE
  OBVIOUS
<1>2. PICK m \in C : \A t \in C : t \subseteq m => t = m
  <2>. HIDE DEF C
  <2>1. C \in SUBSET SUBSET S
    BY DEF C
  <2>. QED BY <1>1, <2>1, MinimalSubset
<1>3. m # {}
  BY SumEmpty
<1>4. Chosen(m) \in m
  BY <1>3, ChosenIn
<1>5. SumFunctionOnSet(f, m \ {Chosen(m)}) = 0 /\ f[Chosen(m)] = 0
  BY <1>2, <1>4
<1>6. IsFiniteSet(m)
  BY FS_Subset
<1>7. SumFunctionOnSet(f, m) = 0
  BY <1>3, <1>5, <1>6, SumChosen
<1>. QED BY <1>7

\* Any element may be the one taken out: the order of the sum is immaterial.
LEMMA SumRemove ==
  ASSUME NEW f, NEW S, IsFiniteSet(S), \A y \in S : f[y] \in Nat, NEW x \in S
  PROVE  SumFunctionOnSet(f, S) = f[x] + SumFunctionOnSet(f, S \ {x})
<1>. DEFINE Bad(s) == \E y \in s : SumFunctionOnSet(f, s) # f[y] + SumFunctionOnSet(f, s \ {y})
            C == {s \in SUBSET S : Bad(s)}
<1>1. SUFFICES ASSUME C # {} PROVE FALSE
  OBVIOUS
<1>2. PICK m \in C : \A t \in C : t \subseteq m => t = m
  <2>. HIDE DEF C
  <2>1. C \in SUBSET SUBSET S
    BY DEF C
  <2>. QED BY <1>1, <2>1, MinimalSubset
<1>3. PICK y \in m : SumFunctionOnSet(f, m) # f[y] + SumFunctionOnSet(f, m \ {y})
  OBVIOUS
<1>. DEFINE c == Chosen(m)
            r == m \ {c}
            q == m \ {y}
            p == (m \ {c}) \ {y}
<1>4. c \in m
  BY ChosenIn
<1>5. IsFiniteSet(m)
  BY FS_Subset
<1>6. SumFunctionOnSet(f, m) = f[c] + SumFunctionOnSet(f, r)
  BY <1>3, <1>5, SumChosen
<1>. HIDE DEF c
<1>7. c # y
  BY <1>3, <1>6
<1>8. r \in SUBSET S /\ r \subseteq m /\ r # m /\ q \in SUBSET S /\ q \subseteq m /\ q # m
  BY <1>3, <1>4
<1>9. ~Bad(r) /\ ~Bad(q)
  <2>. HIDE DEF Bad
  <2>. QED BY <1>2, <1>8
<1>10. SumFunctionOnSet(f, r) = f[y] + SumFunctionOnSet(f, p)
  BY <1>3, <1>7, <1>9
<1>11. SumFunctionOnSet(f, q) = f[c] + SumFunctionOnSet(f, p)
  <2>1. c \in q /\ q \ {c} = p
    BY <1>4, <1>7
  <2>. QED BY <1>9, <2>1
<1>12. SumFunctionOnSet(f, p) \in Nat
  <2>1. IsFiniteSet(p) /\ \A z \in p : f[z] \in Nat
    BY <1>8, FS_Subset
  <2>. QED BY <2>1, SumNat
<1>13. f[c] \in Nat /\ f[y] \in Nat
  BY <1>3, <1>4
<1>. QED BY <1>3, <1>6, <1>10, <1>11, <1>12, <1>13

LEMMA SumAdd ==
  ASSUME NEW f, NEW S, IsFiniteSet(S), NEW x, x \notin S,
         \A y \in S \cup {x} : f[y] \in Nat
  PROVE  SumFunctionOnSet(f, S \cup {x}) = f[x] + SumFunctionOnSet(f, S)
<1>1. IsFiniteSet(S \cup {x})
  BY FS_AddElement
<1>2. (S \cup {x}) \ {x} = S
  OBVIOUS
<1>. QED BY <1>1, <1>2, SumRemove

\* Only the values on the set count.
LEMMA SumCongruent ==
  ASSUME NEW f, NEW g, NEW S, IsFiniteSet(S), \A x \in S : f[x] = g[x]
  PROVE  SumFunctionOnSet(f, S) = SumFunctionOnSet(g, S)
<1>. DEFINE C == {s \in SUBSET S : SumFunctionOnSet(f, s) # SumFunctionOnSet(g, s)}
<1>1. SUFFICES ASSUME C # {} PROVE FALSE
  OBVIOUS
<1>2. PICK m \in C : \A t \in C : t \subseteq m => t = m
  <2>. HIDE DEF C
  <2>1. C \in SUBSET SUBSET S
    BY DEF C
  <2>. QED BY <1>1, <2>1, MinimalSubset
<1>3. m # {}
  BY SumEmpty
<1>4. Chosen(m) \in m
  BY <1>3, ChosenIn
<1>5. SumFunctionOnSet(f, m \ {Chosen(m)}) = SumFunctionOnSet(g, m \ {Chosen(m)})
  BY <1>2, <1>4
<1>6. f[Chosen(m)] = g[Chosen(m)]
  BY <1>4
<1>7. IsFiniteSet(m)
  BY FS_Subset
<1>8. SumFunctionOnSet(f, m) = SumFunctionOnSet(g, m)
  <2>. HIDE DEF C
  <2>1. SumFunctionOnSet(f, m) = f[Chosen(m)] + SumFunctionOnSet(f, m \ {Chosen(m)})
    BY <1>3, <1>7, SumChosen
  <2>2. SumFunctionOnSet(g, m) = g[Chosen(m)] + SumFunctionOnSet(g, m \ {Chosen(m)})
    BY <1>3, <1>7, SumChosen
  <2>. QED BY <1>5, <1>6, <2>1, <2>2
<1>. QED BY <1>8

\* A sum in which one value changes.
LEMMA SumUpdate ==
  ASSUME NEW f, NEW g, NEW S, IsFiniteSet(S), NEW x \in S,
         \A y \in S : f[y] \in Nat /\ g[y] \in Nat,
         \A y \in S \ {x} : g[y] = f[y]
  PROVE  /\ SumFunctionOnSet(f, S) \in Nat
         /\ SumFunctionOnSet(g, S) + f[x] = SumFunctionOnSet(f, S) + g[x]
<1>1. IsFiniteSet(S \ {x})
  BY FS_RemoveElement
<1>2. SumFunctionOnSet(f, S \ {x}) = SumFunctionOnSet(g, S \ {x})
  BY <1>1, SumCongruent
<1>3. SumFunctionOnSet(f, S \ {x}) \in Nat
  BY <1>1, SumNat
<1>4. /\ SumFunctionOnSet(f, S) = f[x] + SumFunctionOnSet(f, S \ {x})
      /\ SumFunctionOnSet(g, S) = g[x] + SumFunctionOnSet(g, S \ {x})
  BY SumRemove
<1>. QED BY <1>2, <1>3, <1>4

-----------------------------------------------------------------------------
(* The severity order. *)

\* The order as facts the provers can use without unfolding a CASE.
LEMMA OrderValues ==
  /\ SEVERITY_ORDER["none"] = 0
  /\ SEVERITY_ORDER["low"] = 1
  /\ SEVERITY_ORDER["medium"] = 2
  /\ SEVERITY_ORDER["high"] = 3
  /\ SEVERITY_ORDER["critical"] = 4
  BY DEF SEVERITY_ORDER, Levels, Severities, None

\* max_severity returns one of its arguments, and neither is above it.
LEMMA MaxSeverityIsUpperBound ==
  ASSUME NEW s1 \in Levels, NEW s2 \in Levels
  PROVE  /\ max_severity(s1, s2) \in {s1, s2}
         /\ AtLeast(max_severity(s1, s2), s1)
         /\ AtLeast(max_severity(s1, s2), s2)
  BY OrderValues DEF max_severity, AtLeast, Levels, Severities, None

-----------------------------------------------------------------------------
(* The aggregation. *)

\* A verdict belongs to a completed review, a severity to a reject.
LEMMA LlmResultFields ==
  ASSUME NEW l \in LlmResults
  PROVE  /\ l.status \in LlmStatuses
         /\ l.verdict \in LlmVerdicts
         /\ l.status = "completed" <=> l.verdict # None
         /\ l.severity \in Levels
         /\ l.verdict = "reject" <=> l.severity # None
  BY DEF LlmResults, LlmResult, LlmStatuses, LlmVerdicts, Levels, Severities, None

\* aggregate_dual_channel returns a verdict of the declared shape.
LEMMA AggregateType ==
  ASSUME NEW r \in Levels, NEW l \in LlmResults
  PROVE  aggregate_dual_channel(r, l) \in Verdicts
<1>1. CASE r # None
  BY <1>1, MaxSeverityIsUpperBound
  DEF aggregate_dual_channel, AggregateHit, ConfirmedSeverity, HitReviewStatus,
      Confirmed, Denied, Verdicts, LlmResults, LlmResult, LlmStatuses, Levels,
      Severities, None
<1>2. CASE r = None
  BY <1>2
  DEF aggregate_dual_channel, AggregateMiss, Confirmed, Denied, Verdicts,
      LlmResults, LlmResult, LlmStatuses, Levels, Severities, None
<1>. QED BY <1>1, <1>2

\* The aggregation is the matrix of docs/event-analysis-refactor-plan.md: every
\* row holds for every rule level and every reviewer result.
THEOREM AggregateFollowsMatrix ==
  ASSUME NEW r \in Levels, NEW l \in LlmResults
  PROVE  Matrix(r, l, aggregate_dual_channel(r, l))
<1>1. CASE r \in {"high", "critical"}
  BY <1>1, OrderValues, MaxSeverityIsUpperBound
  DEF Matrix, aggregate_dual_channel, AggregateHit, ConfirmedSeverity, AtLeast,
      HitReviewStatus, Confirmed, Denied, LlmResults, LlmResult, LlmStatuses,
      Levels, Severities, None
<1>2. CASE r = "medium"
  <2>. DEFINE v == aggregate_dual_channel(r, l)
  <2>1. /\ v.alert
        /\ v.severity = IF Confirmed(l)
                          THEN IF l.severity = "critical" THEN "critical" ELSE "high"
                          ELSE "medium"
        /\ v.divergence <=> Denied(l)
        /\ v.review_status = HitReviewStatus(l)
    BY <1>2 DEF aggregate_dual_channel, AggregateHit, ConfirmedSeverity, None
  <2>2. ~Confirmed(l) /\ ~Denied(l) => HitReviewStatus(l) # "resolved"
    BY LlmResultFields DEF HitReviewStatus, Confirmed, Denied, LlmStatuses
  <2>. HIDE DEF v
  <2>3. Confirmed(l) => v.alert /\ v.severity = IF l.severity = "critical" THEN "critical" ELSE "high"
    BY <2>1
  <2>4. Denied(l) => v.severity = "medium" /\ v.divergence
    BY <2>1 DEF Confirmed, Denied
  <2>5. ~Confirmed(l) /\ ~Denied(l) =>
          v.severity = "medium" /\ ~v.divergence /\ v.review_status # "resolved"
    BY <2>1, <2>2
  <2>6. Matrix(r, l, v)
    BY <1>2, <2>3, <2>4, <2>5 DEF Matrix, None
  <2>. QED BY <2>6 DEF v
<1>3. CASE r = "low"
  BY <1>3 DEF Matrix, None
<1>4. CASE r = None
  <2>. DEFINE v == aggregate_dual_channel(r, l)
  <2>1. /\ v.alert <=> Confirmed(l)
        /\ Confirmed(l) => v.severity = l.severity
    BY <1>4, LlmResultFields DEF aggregate_dual_channel, AggregateMiss, Confirmed
  <2>2. Denied(l) \/ l.status = "not_needed" => ~Confirmed(l)
    BY DEF Confirmed, Denied
  <2>3. ASSUME l.status \in {"pending", "failed"} \/ l.verdict = "uncertain"
        PROVE  v.final_decision = "review" /\ v.review_status \in {"needs_review", "failed"}
    BY <1>4, <2>3, LlmResultFields
    DEF aggregate_dual_channel, AggregateMiss, Confirmed, Denied, LlmStatuses, None
  <2>. HIDE DEF v
  <2>4. Matrix(r, l, v)
    BY <1>4, <2>1, <2>2, <2>3 DEF Matrix, None
  <2>. QED BY <2>4 DEF v
<1>. QED BY <1>1, <1>2, <1>3, <1>4 DEF Levels, Severities

\* Whatever the reviewer answers, a rule hit keeps at least its own level.
LEMMA HitKeepsLevel ==
  ASSUME NEW r \in Severities, NEW l \in LlmResults
  PROVE  /\ aggregate_dual_channel(r, l).alert
         /\ AtLeast(aggregate_dual_channel(r, l).severity, r)
<1>1. r \in Levels /\ r # None /\ l.severity \in Levels
  BY DEF Levels, Severities, None, LlmResults, LlmResult
<1>2. AtLeast(ConfirmedSeverity(r, l), r) /\ AtLeast(r, r)
  <2>1. CASE r = "medium"
    BY <2>1, OrderValues DEF ConfirmedSeverity, AtLeast
  <2>2. CASE r # "medium"
    BY <2>2, <1>1, OrderValues, MaxSeverityIsUpperBound
    DEF ConfirmedSeverity, AtLeast, Severities
  <2>. QED BY <2>1, <2>2
<1>. QED BY <1>1, <1>2 DEF aggregate_dual_channel, AggregateHit

\* A verdict that alerts has a level and a source; one that does not comes from
\* a miss.  (AggregateHit, AggregateMiss)
LEMMA AlertingVerdict ==
  ASSUME NEW r \in Levels, NEW l \in LlmResults
  PROVE  LET v == aggregate_dual_channel(r, l)
         IN /\ v.alert => v.severity \in Severities /\ v.hit_source # None
            /\ ~v.alert => r = None /\ ~Confirmed(l)
BY MaxSeverityIsUpperBound, LlmResultFields
DEF aggregate_dual_channel, AggregateHit, AggregateMiss, ConfirmedSeverity,
    Confirmed, Levels, Severities, None

=============================================================================
