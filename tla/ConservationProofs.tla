-------------------------- MODULE ConservationProofs --------------------------
(***************************************************************************)
(* What is added up is neither lost nor counted twice: the points of the   *)
(* rewards ledger, for any actions, rewards and racing calls, and the      *)
(* heads counted by the heatmap engine, for any zones, readings, windows   *)
(* and crashes.  Both rest on the same lemmas about sums over finite sets. *)
(***************************************************************************)
EXTENDS RewardsLedger, HeatmapEngine, FiniteSetTheorems, SequenceTheorems,
        WellFoundedInduction, TLAPS

-----------------------------------------------------------------------------
(* The rewards ledger.                                                     *)

\* What an award is worth is positive.  The cost of a redemption may have either
\* sign; it is a number other than zero (CostsAssumption).
LEMMA WorthPositive ==
  ASSUME NEW p \in Paths, NEW k \in Keys
  PROVE  Worth[p][k] \in Nat \ {0}
  BY WorthAssumption

(* The type invariant of the three tables and of the calls in progress.    *)
THEOREM TypeCorrect == Spec => []TypeOK
<1> USE DEF TypeOK, CallStates, Idle, Crediting, Recording
<1>1. Init => TypeOK
  BY DEF Init
<1>2. TypeOK /\ [Next]_vars => TypeOK'
  <2> SUFFICES ASSUME TypeOK, [Next]_vars PROVE TypeOK'
    OBVIOUS
  <2>1. ASSUME NEW c \in Calls, NEW p \in Paths, NEW k \in Keys, InsertEvent(c, p, k)
        PROVE  TypeOK'
    BY <2>1, WorthPositive DEF InsertEvent
  <2>2. ASSUME NEW c \in Calls, CreditPoints(c) PROVE TypeOK'
    <3>1. calls[c].key \in Keys /\ calls[c].points \in Nat
      BY <2>2 DEF CreditPoints
    <3> QED  BY <2>2, <3>1 DEF CreditPoints
  <2>3. ASSUME NEW c \in Calls, NEW cost \in Costs, TakePoints(c, cost) PROVE TypeOK'
    <3>1. cost \in Int \ {0}
      BY CostsAssumption
    <3>2. Recording(cost) \in CallStates
      BY <3>1
    <3> QED  BY <2>3, <3>1, <3>2 DEF TakePoints
  <2>4. ASSUME NEW c \in Calls, RecordRedemption(c) PROVE TypeOK'
    <3>1. calls[c].points \in Int
      BY <2>4 DEF RecordRedemption
    <3> QED  BY <2>4, <3>1 DEF RecordRedemption
  <2>5. ASSUME NEW c \in Calls, CallFails(c) PROVE TypeOK'
    <3>1. calls[c].points \in Int
      OBVIOUS
    <3> QED  BY <2>5, <3>1 DEF CallFails
  <2>6. CASE UNCHANGED vars
    BY <2>6 DEF vars
  <2> QED  BY <2>1, <2>2, <2>3, <2>4, <2>5, <2>6 DEF Next
<1> QED  BY <1>1, <1>2, PTL DEF Spec

-----------------------------------------------------------------------------
(* Idempotency.  The UNIQUE key lets one call pass per event, so a call    *)
(* that is about to credit owns its event: CreditIsExclusive is inductive  *)
(* once it is known that credited events have a row.                       *)

LedgerInv ==
    /\ \A k \in credited : events[k] > 0
    /\ CreditIsExclusive

LEMMA LedgerInit == Init => LedgerInv
  BY DEF Init, LedgerInv, CreditIsExclusive, Idle

LEMMA LedgerStep == TypeOK /\ LedgerInv /\ [Next]_vars => LedgerInv'
<1> SUFFICES ASSUME TypeOK, LedgerInv, [Next]_vars PROVE LedgerInv'
  OBVIOUS
<1> USE DEF TypeOK, LedgerInv, CreditIsExclusive
<1>a. ASSUME NEW c \in Calls, calls[c].at = "credit"
      PROVE  calls[c].key \in Keys /\ calls[c].points \in Nat \ {0}
  BY <1>a DEF CallStates, Idle
<1>1. ASSUME NEW c \in Calls, NEW p \in Paths, NEW k \in Keys, InsertEvent(c, p, k)
      PROVE  LedgerInv'
  <2>1. k \notin credited
    BY <1>1 DEF InsertEvent
  <2>2. ASSUME NEW d \in Calls, calls[d].at = "credit"
        PROVE  calls[d].key # k /\ calls[d].key \in Keys
    BY <2>2, <1>1, <1>a DEF InsertEvent
  <2>3. /\ events' = [events EXCEPT ![k] = Worth[p][k]]
        /\ calls' = [calls EXCEPT ![c] = Crediting(k, Worth[p][k])]
        /\ credited' = credited
    BY <1>1 DEF InsertEvent
  <2>4. \A j \in credited' : events'[j] > 0
    BY <2>1, <2>3
  <2>5. ASSUME NEW d \in Calls, calls'[d].at = "credit"
        PROVE  /\ events'[calls'[d].key] = calls'[d].points
               /\ calls'[d].key \notin credited'
    BY <2>1, <2>2, <2>3, <2>5 DEF Crediting
  <2>6. ASSUME NEW d \in Calls, NEW e \in Calls \ {d},
               calls'[d].at = "credit", calls'[e].at = "credit"
        PROVE  calls'[e].key # calls'[d].key
    BY <2>2, <2>3, <2>6 DEF Crediting
  <2> QED  BY <2>4, <2>5, <2>6
<1>2. ASSUME NEW c \in Calls, CreditPoints(c) PROVE LedgerInv'
  BY <1>2, <1>a DEF CreditPoints, Idle
<1>3. ASSUME NEW c \in Calls, NEW cost \in Costs, TakePoints(c, cost) PROVE LedgerInv'
  BY <1>3 DEF TakePoints, Recording
<1>4. ASSUME NEW c \in Calls, RecordRedemption(c) PROVE LedgerInv'
  BY <1>4 DEF RecordRedemption, Idle
<1>5. ASSUME NEW c \in Calls, CallFails(c) PROVE LedgerInv'
  BY <1>5 DEF CallFails, Idle
<1>6. CASE UNCHANGED vars
  BY <1>6 DEF vars
<1> QED  BY <1>1, <1>2, <1>3, <1>4, <1>5, <1>6 DEF Next

(* No event is credited by two calls, or again after it was credited, for  *)
(* any duplicates of messages and requests in any order and with any       *)
(* failures between the statements.                                        *)
THEOREM CreditOnce == Spec => []CreditIsExclusive
<1>1. LedgerInv => CreditIsExclusive
  BY DEF LedgerInv
<1> QED  BY <1>1, LedgerInit, LedgerStep, TypeCorrect, PTL DEF Spec

-----------------------------------------------------------------------------
(* The account.  Each statement that changes the balance is one step of    *)
(* PointsAccount: a credit is the first of its key, since the call that    *)
(* makes it owns the key, and what it adds is what a path said.            *)

PointsAreWorth ==
    \A c \in Calls : calls[c].at = "credit" =>
        \E p \in Paths : calls[c].points = Worth[p][calls[c].key]

LEMMA WorthInit == Init => PointsAreWorth
  BY DEF Init, Idle, PointsAreWorth

LEMMA WorthStep == TypeOK /\ PointsAreWorth /\ [Next]_vars => PointsAreWorth'
<1> SUFFICES ASSUME TypeOK, PointsAreWorth, [Next]_vars PROVE PointsAreWorth'
  OBVIOUS
<1> USE DEF TypeOK, PointsAreWorth, Idle, Recording
<1>1. ASSUME NEW c \in Calls, NEW p \in Paths, NEW k \in Keys, InsertEvent(c, p, k)
      PROVE  PointsAreWorth'
  <2>1. /\ calls'[c] = Crediting(k, Worth[p][k])
        /\ \A d \in Calls \ {c} : calls'[d] = calls[d]
    BY <1>1 DEF InsertEvent
  <2> QED  BY <2>1 DEF Crediting
<1>2. ASSUME NEW c \in Calls, CreditPoints(c) \/ RecordRedemption(c) \/ CallFails(c)
      PROVE  PointsAreWorth'
  BY <1>2 DEF CreditPoints, RecordRedemption, CallFails
<1>3. ASSUME NEW c \in Calls, NEW cost \in Costs, TakePoints(c, cost) PROVE PointsAreWorth'
  BY <1>3 DEF TakePoints
<1>4. CASE UNCHANGED vars
  BY <1>4 DEF vars
<1> QED  BY <1>1, <1>2, <1>3, <1>4 DEF Next

LEMMA AccountStep ==
  ASSUME TypeOK, CreditIsExclusive, PointsAreWorth, [Next]_vars
  PROVE  [Promised!Next]_Promised!accountVars
<1> USE DEF Promised!accountVars
<1>1. ASSUME NEW c \in Calls, NEW p \in Paths, NEW k \in Keys, InsertEvent(c, p, k)
      PROVE  UNCHANGED Promised!accountVars
  BY <1>1 DEF InsertEvent
<1>2. ASSUME NEW c \in Calls, CreditPoints(c) PROVE Promised!Next
  <2>1. calls[c].key \in Keys /\ calls[c].key \notin credited
    BY <1>2 DEF CreditPoints, CreditIsExclusive, TypeOK, CallStates, Idle
  <2>2. PICK p \in Paths : calls[c].points = Worth[p][calls[c].key]
    BY <1>2 DEF CreditPoints, PointsAreWorth
  <2>3. Promised!Award(p, calls[c].key)
    BY <1>2, <2>1, <2>2 DEF CreditPoints, Promised!Award
  <2> QED  BY <2>1, <2>3 DEF Promised!Next
<1>3. ASSUME NEW c \in Calls, NEW cost \in Costs, TakePoints(c, cost) PROVE Promised!Next
  <2>1. Promised!Redeem(cost)
    BY <1>3 DEF TakePoints, Promised!Redeem
  <2> QED  BY <2>1 DEF Promised!Next
<1>4. ASSUME NEW c \in Calls, RecordRedemption(c) \/ CallFails(c)
      PROVE  UNCHANGED Promised!accountVars
  BY <1>4 DEF RecordRedemption, CallFails
<1>5. CASE UNCHANGED vars
  BY <1>5 DEF vars
<1> QED  BY <1>1, <1>2, <1>3, <1>4, <1>5 DEF Next

\* The two statements of an award and of a redemption act as one, for any
\* actions, worths, rewards and racing calls, and whatever fails between them:
\* the ledger implements PointsAccount.  (awardPoints, award and redeem routes)
THEOREM ImplementsAccount == Spec => AccountIsKept
<1>1. Init => Promised!Init
  BY DEF Init, Promised!Init
<1> QED  BY <1>1, TypeCorrect, CreditOnce, WorthInit, WorthStep, AccountStep, PTL
            DEF Spec, AccountIsKept, Promised!Spec

-----------------------------------------------------------------------------
(* The balance never goes below zero: the UPDATE tests and subtracts in    *)
(* one statement, and a credit only adds.                                  *)
THEOREM NoOverdraft == Spec => []NeverOverdrawn
<1>1. Init => NeverOverdrawn
  BY DEF Init, NeverOverdrawn
<1>2. TypeOK /\ NeverOverdrawn /\ [Next]_vars => NeverOverdrawn'
  <2> SUFFICES ASSUME TypeOK, NeverOverdrawn, [Next]_vars PROVE NeverOverdrawn'
    OBVIOUS
  <2> USE DEF TypeOK, NeverOverdrawn
  <2>1. ASSUME NEW c \in Calls, NEW p \in Paths, NEW k \in Keys, InsertEvent(c, p, k)
        PROVE  NeverOverdrawn'
    BY <2>1 DEF InsertEvent
  <2>2. ASSUME NEW c \in Calls, CreditPoints(c) PROVE NeverOverdrawn'
    <3>1. calls[c].points \in Nat
      BY <2>2 DEF CreditPoints, CallStates, Idle
    <3> QED  BY <2>2, <3>1 DEF CreditPoints
  <2>3. ASSUME NEW c \in Calls, NEW cost \in Costs, TakePoints(c, cost)
        PROVE  NeverOverdrawn'
    BY <2>3, CostsAssumption DEF TakePoints
  <2>4. ASSUME NEW c \in Calls, RecordRedemption(c) \/ CallFails(c)
        PROVE  NeverOverdrawn'
    BY <2>4 DEF RecordRedemption, CallFails
  <2>5. CASE UNCHANGED vars
    BY <2>5 DEF vars
  <2> QED  BY <2>1, <2>2, <2>3, <2>4, <2>5 DEF Next
<1> QED  BY <1>1, <1>2, TypeCorrect, PTL DEF Spec

-----------------------------------------------------------------------------
(* Sums over finite sets.  SumFunctionOnSet is a fold: it takes the         *)
(* elements of a set in one order that CHOOSE fixes.  That the order does   *)
(* not matter, so that an element can be added to a sum or taken from it,   *)
(* is proved with the smallest set that would be a counterexample.          *)
LEMMA SmallestSubset ==
  ASSUME NEW D, IsFiniteSet(D), NEW B \in SUBSET (SUBSET D), B # {}
  PROVE  \E T \in B : \A U \in B : U \subseteq T => U = T
<1>1. IsWellFoundedOn(StrictSubsetOrdering(D), FiniteSubsetsOf(D))
  BY FS_StrictSubsetOrderingWellFounded
<1>2. B \subseteq FiniteSubsetsOf(D)
  BY FS_FiniteSubsetsOfFinite
<1>3. PICK T \in B : \A U \in B : <<U, T>> \notin StrictSubsetOrdering(D)
  <2> HIDE DEF StrictSubsetOrdering, FiniteSubsetsOf
  <2> QED  BY <1>1, <1>2, WFMin
<1>4. ASSUME NEW U \in B, U \subseteq T, U # T PROVE FALSE
  <2>1. <<U, T>> \in (SUBSET D) \X (SUBSET D)
    OBVIOUS
  <2>2. <<U, T>> \in StrictSubsetOrdering(D)
    BY <2>1, <1>4 DEF StrictSubsetOrdering
  <2> QED  BY <2>2, <1>3
<1> QED  BY <1>4

\* The element that the fold takes first, and the recursion it satisfies.
Chosen(S) == CHOOSE x \in S : TRUE

IsSum(g, f, D) ==
  g = [s \in SUBSET D |-> IF s = {} THEN 0 ELSE f[Chosen(s)] + g[s \ {Chosen(s)}]]

LEMMA ChosenIn == ASSUME NEW S, S # {} PROVE Chosen(S) \in S
  BY DEF Chosen

\* The fold is the function that satisfies its recursion.
LEMMA SumMeaning ==
  ASSUME NEW f, NEW S
  PROVE  SumFunctionOnSet(f, S) = (CHOOSE g : IsSum(g, f, S))[S]
  BY DEF SumFunctionOnSet, FoldFunctionOnSet, MapThenFoldSet, IsSum, Chosen

\* Two functions that satisfy the recursion agree where both are defined ...
LEMMA SumsAgree ==
  ASSUME NEW f, NEW S, NEW T, IsFiniteSet(S),
         NEW g, IsSum(g, f, S), NEW h, IsSum(h, f, T),
         NEW U \in SUBSET S, U \in SUBSET T
  PROVE  g[U] = h[U]
<1> DEFINE B == {V \in SUBSET S : V \subseteq T /\ g[V] # h[V]}
<1>1. SUFFICES ASSUME B # {} PROVE FALSE
  OBVIOUS
<1>2. B \in SUBSET (SUBSET S)
  OBVIOUS
<1>3. PICK V \in B : \A W \in B : W \subseteq V => W = V
  <2> HIDE DEF B
  <2> QED  BY <1>1, <1>2, SmallestSubset
<1>4. V \in SUBSET S /\ V \in SUBSET T /\ g[V] # h[V]
  OBVIOUS
<1> DEFINE c == Chosen(V)
<1>5. CASE V = {}
  BY <1>4, <1>5 DEF IsSum
<1>6. CASE V # {}
  <2>1. c \in V
    BY <1>6, ChosenIn
  <2>2. V \ {c} \in SUBSET S /\ V \ {c} \subseteq T /\ V \ {c} \subseteq V /\ V \ {c} # V
    BY <1>4, <2>1
  <2>3. g[V \ {c}] = h[V \ {c}]
    BY <2>2, <1>3
  <2> HIDE DEF B
  <2>4. g[V] = f[c] + g[V \ {c}]
    BY <1>4, <1>6 DEF IsSum
  <2>5. h[V] = f[c] + h[V \ {c}]
    BY <1>4, <1>6 DEF IsSum
  <2> QED  BY <2>3, <2>4, <2>5, <1>4
<1> QED  BY <1>5, <1>6

\* ... so any of them gives the sum ...
LEMMA SumIs ==
  ASSUME NEW f, NEW S, IsFiniteSet(S), NEW g, IsSum(g, f, S), NEW U \in SUBSET S
  PROVE  SumFunctionOnSet(f, U) = g[U]
<1> DEFINE h == [s \in SUBSET U |-> g[s]]
<1>1. IsSum(h, f, U)
  <2>1. \A s \in SUBSET U : h[s] = g[s] /\ s \in SUBSET S /\ s \ {Chosen(s)} \in SUBSET U
    OBVIOUS
  <2>2. \A s \in SUBSET S : g[s] = IF s = {} THEN 0 ELSE f[Chosen(s)] + g[s \ {Chosen(s)}]
    BY DEF IsSum
  <2> QED  BY <2>1, <2>2 DEF IsSum
<1>2. IsSum(CHOOSE k : IsSum(k, f, U), f, U)
  <2> HIDE DEF h
  <2> QED  BY <1>1
<1> DEFINE k == CHOOSE k : IsSum(k, f, U)
<1>3. SumFunctionOnSet(f, U) = k[U]
  BY SumMeaning
<1>4. IsFiniteSet(U)
  BY FS_Subset
<1> HIDE DEF k, h
<1>5. k[U] = g[U]
  BY <1>2, <1>4, SumsAgree DEF k
<1> QED  BY <1>3, <1>5

\* ... and there is one, over the subsets of any finite set.
LEMMA SumExists ==
  ASSUME NEW f, NEW D, IsFiniteSet(D)
  PROVE  \E g : IsSum(g, f, D)
<1> DEFINE B == {S \in SUBSET D : ~ \E g : IsSum(g, f, S)}
<1>1. SUFFICES ASSUME B # {} PROVE FALSE
  OBVIOUS
<1>2. B \in SUBSET (SUBSET D)
  OBVIOUS
<1>3. PICK T \in B : \A W \in B : W \subseteq T => W = T
  <2> HIDE DEF B
  <2> QED  BY <1>1, <1>2, SmallestSubset
<1>4. T \in SUBSET D /\ ~ \E g : IsSum(g, f, T)
  OBVIOUS
<1>5. \A s \in SUBSET T : s # T => \E g : IsSum(g, f, s)
  BY <1>3, <1>4
<1> HIDE DEF B
<1> DEFINE Sum(s) == SumFunctionOnSet(f, s)
           Step(s) == IF s = {} THEN 0 ELSE f[Chosen(s)] + Sum(s \ {Chosen(s)})
           g == [s \in SUBSET T |-> Step(s)]
<1>6. ASSUME NEW s \in SUBSET T, s # T PROVE Sum(s) = Step(s)
  <2>1. PICK h : IsSum(h, f, s)
    BY <1>5, <1>6
  <2>2. IsFiniteSet(s)
    BY <1>4, FS_Subset
  <2>3. Sum(s) = h[s] /\ Sum(s \ {Chosen(s)}) = h[s \ {Chosen(s)}]
    BY <2>1, <2>2, SumIs
  <2>4. h[s] = IF s = {} THEN 0 ELSE f[Chosen(s)] + h[s \ {Chosen(s)}]
    BY <2>1 DEF IsSum
  <2> QED  BY <2>3, <2>4
<1>7. \A s \in SUBSET T : s # T => g[s] = Sum(s)
  <2> HIDE DEF Sum
  <2> QED  BY <1>6
<1>8. \A s \in SUBSET T : s # {} =>
        s \ {Chosen(s)} \in SUBSET T /\ s \ {Chosen(s)} # T
  BY ChosenIn
<1>9. IsSum(g, f, T)
  <2>1. \A s \in SUBSET T : s # {} => g[s \ {Chosen(s)}] = Sum(s \ {Chosen(s)})
    BY <1>7, <1>8
  <2> HIDE DEF Sum
  <2> QED  BY <2>1 DEF IsSum
<1> HIDE DEF g
<1> QED  BY <1>4, <1>9

\* The recursion of the sum itself.
LEMMA SumStep ==
  ASSUME NEW f, NEW S, IsFiniteSet(S)
  PROVE  /\ SumFunctionOnSet(f, {}) = 0
         /\ S # {} => SumFunctionOnSet(f, S)
                        = f[Chosen(S)] + SumFunctionOnSet(f, S \ {Chosen(S)})
<1>1. PICK g : IsSum(g, f, S)
  BY SumExists
<1>2. /\ SumFunctionOnSet(f, {}) = g[{}]
      /\ SumFunctionOnSet(f, S) = g[S]
      /\ SumFunctionOnSet(f, S \ {Chosen(S)}) = g[S \ {Chosen(S)}]
  BY <1>1, SumIs
<1>3. g[{}] = 0 /\ (S # {} => g[S] = f[Chosen(S)] + g[S \ {Chosen(S)}])
  BY <1>1 DEF IsSum
<1> QED  BY <1>2, <1>3

\* A sum of integers is an integer, and a sum of naturals a natural.
LEMMA SumIn ==
  ASSUME NEW f, NEW S, IsFiniteSet(S), NEW N \in {Int, Nat}, \A x \in S : f[x] \in N
  PROVE  SumFunctionOnSet(f, S) \in N
<1> DEFINE B == {V \in SUBSET S : SumFunctionOnSet(f, V) \notin N}
<1>1. SUFFICES ASSUME B # {} PROVE FALSE
  OBVIOUS
<1>2. PICK V \in B : \A W \in B : W \subseteq V => W = V
  <2>1. B \in SUBSET (SUBSET S)
    OBVIOUS
  <2> HIDE DEF B
  <2> QED  BY <1>1, <2>1, SmallestSubset
<1>3. IsFiniteSet(V) /\ V \in SUBSET S
  BY FS_Subset
<1>4. V # {} => Chosen(V) \in V
  BY ChosenIn
<1>5. V # {} => SumFunctionOnSet(f, V \ {Chosen(V)}) \in N
  BY <1>2, <1>3, <1>4
<1>6. V # {} => f[Chosen(V)] \in N
  BY <1>3, <1>4
<1>7. V # {} => SumFunctionOnSet(f, V)
                  = f[Chosen(V)] + SumFunctionOnSet(f, V \ {Chosen(V)})
  BY <1>3, SumStep
<1>8. V = {} => SumFunctionOnSet(f, V) = 0
  BY <1>3, SumStep
<1>9. SumFunctionOnSet(f, V) \in N
  <2>1. CASE N = Int
    BY <1>5, <1>6, <1>7, <1>8, <2>1
  <2>2. CASE N = Nat
    BY <1>5, <1>6, <1>7, <1>8, <2>2
  <2> QED  BY <2>1, <2>2
<1> QED  BY <1>9

LEMMA SumInt ==
  ASSUME NEW f, NEW S, IsFiniteSet(S), \A x \in S : f[x] \in Int
  PROVE  SumFunctionOnSet(f, S) \in Int
  BY SumIn

LEMMA SumNat ==
  ASSUME NEW f, NEW S, IsFiniteSet(S), \A x \in S : f[x] \in Nat
  PROVE  SumFunctionOnSet(f, S) \in Nat
  BY SumIn

\* Any element may be taken first.
LEMMA SumPick ==
  ASSUME NEW f, NEW S, IsFiniteSet(S), \A y \in S : f[y] \in Int, NEW x \in S
  PROVE  SumFunctionOnSet(f, S) = f[x] + SumFunctionOnSet(f, S \ {x})
<1> DEFINE Sum(s) == SumFunctionOnSet(f, s)
           Good(V) == \A y \in V : Sum(V) = f[y] + Sum(V \ {y})
           B == {V \in SUBSET S : ~ Good(V)}
<1>1. SUFFICES ASSUME B # {} PROVE FALSE
  OBVIOUS
<1>2. PICK V \in B : \A W \in B : W \subseteq V => W = V
  <2>1. B \in SUBSET (SUBSET S)
    OBVIOUS
  <2> HIDE DEF B
  <2> QED  BY <1>1, <2>1, SmallestSubset
<1>3. V \in SUBSET S
  OBVIOUS
<1>4. PICK y \in V : Sum(V) # f[y] + Sum(V \ {y})
  OBVIOUS
<1>5. \A W \in SUBSET V : W # V => Good(W)
  BY <1>2, <1>3
<1> HIDE DEF B, Good
<1> DEFINE c == Chosen(V)
<1>6. c \in V
  BY <1>4, ChosenIn
<1>7. \A W \in SUBSET S : Sum(W) \in Int
  BY FS_Subset, SumInt
<1>8. Sum(V) = f[c] + Sum(V \ {c})
  BY <1>3, <1>4, FS_Subset, SumStep
<1> HIDE DEF Sum
<1>9. y # c
  BY <1>4, <1>8
<1>10. Sum(V \ {c}) = f[y] + Sum((V \ {c}) \ {y})
  BY <1>4, <1>5, <1>6, <1>9 DEF Good
<1>11. Sum(V \ {y}) = f[c] + Sum((V \ {y}) \ {c})
  BY <1>4, <1>5, <1>6, <1>9 DEF Good
<1>12. (V \ {c}) \ {y} = (V \ {y}) \ {c}
  OBVIOUS
<1>13. /\ f[c] \in Int /\ f[y] \in Int
       /\ Sum((V \ {c}) \ {y}) \in Int
  BY <1>3, <1>4, <1>6, <1>7
<1>14. Sum(V \ {y}) = f[c] + Sum((V \ {c}) \ {y})
  BY <1>11, <1>12
<1>15. f[c] + (f[y] + Sum((V \ {c}) \ {y})) = f[y] + (f[c] + Sum((V \ {c}) \ {y}))
  BY <1>13
<1>16. Sum(V) = f[y] + Sum(V \ {y})
  BY <1>8, <1>10, <1>14, <1>15, Zenon
<1> QED  BY <1>4, <1>16

\* A sum depends on the function only where it is taken.
LEMMA SumSame ==
  ASSUME NEW f, NEW h, NEW S, IsFiniteSet(S), \A x \in S : f[x] = h[x]
  PROVE  SumFunctionOnSet(f, S) = SumFunctionOnSet(h, S)
<1> DEFINE B == {V \in SUBSET S : SumFunctionOnSet(f, V) # SumFunctionOnSet(h, V)}
<1>1. SUFFICES ASSUME B # {} PROVE FALSE
  OBVIOUS
<1>2. PICK V \in B : \A W \in B : W \subseteq V => W = V
  <2>1. B \in SUBSET (SUBSET S)
    OBVIOUS
  <2> HIDE DEF B
  <2> QED  BY <1>1, <2>1, SmallestSubset
<1>3. IsFiniteSet(V) /\ V \in SUBSET S
  BY FS_Subset
<1>4. V # {} => Chosen(V) \in V
  BY ChosenIn
<1>5. V # {} => SumFunctionOnSet(f, V \ {Chosen(V)}) = SumFunctionOnSet(h, V \ {Chosen(V)})
  BY <1>2, <1>3, <1>4
<1>6. SumFunctionOnSet(f, V) = SumFunctionOnSet(h, V)
  BY <1>3, <1>4, <1>5, SumStep
<1> QED  BY <1>6

\* A sum with one element more.
LEMMA SumWith ==
  ASSUME NEW f, NEW h, NEW S, IsFiniteSet(S), NEW x, x \notin S,
         \A y \in S : h[y] = f[y] /\ f[y] \in Int, h[x] \in Int
  PROVE  SumFunctionOnSet(h, S \cup {x}) = h[x] + SumFunctionOnSet(f, S)
<1>1. IsFiniteSet(S \cup {x})
  BY FS_AddElement
<1>2. \A y \in S \cup {x} : h[y] \in Int
  OBVIOUS
<1>3. SumFunctionOnSet(h, S \cup {x}) = h[x] + SumFunctionOnSet(h, (S \cup {x}) \ {x})
  BY <1>1, <1>2, SumPick
<1>4. (S \cup {x}) \ {x} = S
  OBVIOUS
<1>5. SumFunctionOnSet(h, S) = SumFunctionOnSet(f, S)
  BY SumSame
<1> QED  BY <1>3, <1>4, <1>5, Zenon


-----------------------------------------------------------------------------
(* The sums that the balance and the redemptions are compared with.  Both   *)
(* sets are finite because a step adds at most one element.                 *)

Recorders == {c \in Calls : calls[c].at = "record"}
Points == [c \in Calls |-> calls[c].points]
Due == SumFunctionOnSet(Points, Recorders)

SumInv ==
    /\ IsFiniteSet(credited) /\ IsFiniteSet(Recorders)
    /\ BalanceAccountsForCredits
    /\ RedemptionsAddUp

LEMMA SumInit == Init => SumInv
<1> SUFFICES ASSUME Init PROVE SumInv
  OBVIOUS
<1>1. credited = {} /\ Recorders = {} /\ balance = 0 /\ spent = 0 /\ redeemed = 0 /\ dropped = 0
  BY DEF Init, Recorders, Idle
<1>2. IsFiniteSet({})
  BY FS_EmptySet
<1>3. \A f : SumFunctionOnSet(f, {}) = 0
  BY <1>2, SumStep
<1>4. BalanceAccountsForCredits
  BY <1>1, <1>3 DEF BalanceAccountsForCredits, CreditedPoints
<1>5. SumFunctionOnSet(Points, Recorders) = 0
  BY <1>1, <1>3
<1>6. RedemptionsAddUp
  BY <1>1, <1>5 DEF RedemptionsAddUp, Recorders, Points
<1> QED  BY <1>1, <1>2, <1>4, <1>6 DEF SumInv

\* What the credited events and the redemptions under way are worth is a number.
LEMMA SumTypes ==
  ASSUME TypeOK, SumInv
  PROVE  /\ CreditedPoints \in Int
         /\ SumFunctionOnSet(Points, Recorders) \in Int
<1>1. \A k \in credited : events[k] \in Int
  BY DEF TypeOK
<1>2. \A c \in Recorders : Points[c] \in Int
  BY DEF TypeOK, Recorders, Points, CallStates, Idle
<1> QED  BY <1>1, <1>2, SumInt DEF SumInv, CreditedPoints

LEMMA BalanceStep ==
  ASSUME TypeOK, LedgerInv, SumInv, [Next]_vars
  PROVE  IsFiniteSet(credited') /\ BalanceAccountsForCredits'
<1> USE DEF SumInv, BalanceAccountsForCredits, CreditedPoints
<1>1. ASSUME NEW c \in Calls, NEW p \in Paths, NEW k \in Keys, InsertEvent(c, p, k)
      PROVE  IsFiniteSet(credited') /\ BalanceAccountsForCredits'
  <2>1. k \notin credited
    BY <1>1 DEF InsertEvent, LedgerInv
  <2>2. \A j \in credited : events[j] = events'[j]
    BY <1>1, <2>1 DEF InsertEvent, TypeOK
  <2>3. SumFunctionOnSet(events, credited) = SumFunctionOnSet(events', credited)
    BY <2>2, SumSame
  <2> QED  BY <1>1, <2>3 DEF InsertEvent
<1>2. ASSUME NEW c \in Calls, CreditPoints(c)
      PROVE  IsFiniteSet(credited') /\ BalanceAccountsForCredits'
  <2> DEFINE k == calls[c].key
  <2>1. /\ k \in Keys /\ k \notin credited
        /\ events[k] = calls[c].points /\ events[k] \in Int
        /\ credited' = credited \cup {k} /\ events' = events /\ spent' = spent
        /\ balance' = balance + events[k]
    BY <1>2 DEF CreditPoints, LedgerInv, CreditIsExclusive, TypeOK, CallStates, Idle
  <2>2. IsFiniteSet(credited')
    BY <2>1, FS_AddElement
  <2>3. \A j \in credited : events[j] = events[j] /\ events[j] \in Int
    BY DEF TypeOK
  <2> HIDE DEF k
  <2>4. SumFunctionOnSet(events, credited \cup {k})
          = events[k] + SumFunctionOnSet(events, credited)
    BY <2>1, <2>3, SumWith
  <2>5. balance \in Int /\ spent \in Int /\ SumFunctionOnSet(events, credited) \in Int
    BY SumTypes DEF TypeOK
  <2> QED  BY <2>1, <2>2, <2>4, <2>5
<1>3. ASSUME NEW c \in Calls, NEW cost \in Costs, TakePoints(c, cost)
      PROVE  IsFiniteSet(credited') /\ BalanceAccountsForCredits'
  <2>1. cost \in Int /\ balance \in Int /\ spent \in Int
    BY CostsAssumption DEF TypeOK
  <2> QED  BY <1>3, <2>1 DEF TakePoints
<1>4. ASSUME NEW c \in Calls, RecordRedemption(c) \/ CallFails(c)
      PROVE  IsFiniteSet(credited') /\ BalanceAccountsForCredits'
  BY <1>4 DEF RecordRedemption, CallFails
<1>5. CASE UNCHANGED vars
  BY <1>5 DEF vars
<1> QED  BY <1>1, <1>2, <1>3, <1>4, <1>5 DEF Next

\* A call that does not redeem, before and after, leaves the redemptions alone.
LEMMA SameRecorders ==
  ASSUME SumInv, NEW c \in Calls, calls[c].at # "record", calls'[c].at # "record",
         \A d \in Calls \ {c} : calls'[d] = calls[d]
  PROVE  /\ Recorders' = Recorders
         /\ SumFunctionOnSet(Points', Recorders) = SumFunctionOnSet(Points, Recorders)
<1>1. Recorders' = Recorders
  BY DEF Recorders
<1>2. \A d \in Recorders : Points'[d] = Points[d]
  BY DEF Recorders, Points
<1> QED  BY <1>1, <1>2, SumSame DEF SumInv

\* A call that has redeemed leaves the others, with what they took.
LEMMA OtherRecorders ==
  ASSUME TypeOK, SumInv, NEW c \in Calls, calls[c].at = "record",
         calls' = [calls EXCEPT ![c] = Idle]
  PROVE  /\ IsFiniteSet(Recorders')
         /\ SumFunctionOnSet(Points, Recorders)
              = calls[c].points + SumFunctionOnSet(Points', Recorders')
         /\ calls[c].points \in Int
         /\ SumFunctionOnSet(Points', Recorders') \in Int
<1>1. /\ c \in Recorders
      /\ Recorders' = Recorders \ {c}
      /\ Points[c] = calls[c].points /\ calls[c].points \in Int
  BY DEF Recorders, Points, TypeOK, CallStates, Idle
<1>2. IsFiniteSet(Recorders)
  BY DEF SumInv
<1>3. IsFiniteSet(Recorders \ {c})
  BY <1>2, FS_RemoveElement
<1>4. \A d \in Recorders : Points[d] \in Int
  BY DEF Recorders, Points, TypeOK, CallStates, Idle
<1>5. SumFunctionOnSet(Points, Recorders)
        = Points[c] + SumFunctionOnSet(Points, Recorders \ {c})
  BY <1>1, <1>2, <1>4, SumPick
<1>6. \A d \in Recorders \ {c} : Points[d] = Points'[d]
  BY DEF Recorders, Points, TypeOK
<1>7. SumFunctionOnSet(Points, Recorders \ {c}) = SumFunctionOnSet(Points', Recorders \ {c})
  BY <1>3, <1>6, SumSame
<1>8. SumFunctionOnSet(Points, Recorders \ {c}) \in Int
  BY <1>3, <1>4, SumInt
<1> QED  BY <1>1, <1>3, <1>5, <1>7, <1>8

LEMMA RedemptionStep ==
  ASSUME TypeOK, SumInv, [Next]_vars
  PROVE  IsFiniteSet(Recorders') /\ RedemptionsAddUp'
<1> USE DEF SumInv, Due
<1>0. /\ spent = redeemed + dropped + Due
      /\ redeemed \in Int /\ dropped \in Int /\ Due \in Int
  BY SumTypes DEF RedemptionsAddUp, Points, Recorders, TypeOK
<1>a. SUFFICES IsFiniteSet(Recorders') /\ spent' = redeemed' + dropped' + Due'
  BY DEF RedemptionsAddUp, Points, Recorders
<1>1. ASSUME NEW c \in Calls, \/ \E p \in Paths, k \in Keys : InsertEvent(c, p, k)
                              \/ CreditPoints(c)
                              \/ CallFails(c) /\ calls[c].at = "credit"
      PROVE  IsFiniteSet(Recorders') /\ spent' = redeemed' + dropped' + Due'
  <2>1. /\ calls[c].at # "record" /\ calls'[c].at # "record"
        /\ \A d \in Calls \ {c} : calls'[d] = calls[d]
        /\ redeemed' = redeemed /\ spent' = spent /\ dropped' = dropped
    BY <1>1 DEF InsertEvent, CreditPoints, CallFails, Idle, Crediting, TypeOK
  <2>2. Recorders' = Recorders /\ Due' = Due
    BY <2>1, SameRecorders
  <2> QED  BY <1>0, <2>1, <2>2
<1>2. ASSUME NEW c \in Calls, NEW cost \in Costs, TakePoints(c, cost)
      PROVE  IsFiniteSet(Recorders') /\ spent' = redeemed' + dropped' + Due'
  <2>1. /\ c \notin Recorders
        /\ Recorders' = Recorders \cup {c}
        /\ Points'[c] = cost /\ cost \in Int
        /\ redeemed' = redeemed /\ dropped' = dropped /\ spent' = spent + cost
    BY <1>2, CostsAssumption DEF TakePoints, Recorders, Points, Recording, Idle, TypeOK
  <2>2. \A d \in Recorders : Points'[d] = Points[d] /\ Points[d] \in Int
    BY <1>2 DEF TakePoints, Recorders, Points, TypeOK, CallStates, Idle
  <2>3. IsFiniteSet(Recorders')
    BY <2>1, FS_AddElement
  <2>4. SumFunctionOnSet(Points', Recorders \cup {c}) = Points'[c] + Due
    BY <2>1, <2>2, SumWith
  <2>5. Due' = cost + Due
    BY <2>1, <2>4
  <2> HIDE DEF Due
  <2> QED  BY <1>0, <2>1, <2>3, <2>5
<1>3. ASSUME NEW c \in Calls,
             RecordRedemption(c) \/ (CallFails(c) /\ calls[c].at # "credit")
      PROVE  IsFiniteSet(Recorders') /\ spent' = redeemed' + dropped' + Due'
  <2> DEFINE n == calls[c].points
  <2>1. /\ calls[c].at = "record" /\ calls' = [calls EXCEPT ![c] = Idle] /\ spent' = spent
        /\ \/ redeemed' = redeemed + n /\ dropped' = dropped
           \/ redeemed' = redeemed /\ dropped' = dropped + n
    BY <1>3 DEF RecordRedemption, CallFails, TypeOK, CallStates, Idle
  <2>2. IsFiniteSet(Recorders') /\ Due = n + Due' /\ n \in Int /\ Due' \in Int
    BY <2>1, OtherRecorders
  <2> DEFINE rest == Due'
  <2> HIDE DEF Due, rest, n
  <2>3. Due = n + rest /\ n \in Int /\ rest \in Int
    BY <2>2 DEF rest
  <2>4. spent' = redeemed' + dropped' + rest
    BY <1>0, <2>1, <2>3
  <2> QED  BY <2>2, <2>4 DEF rest
<1>4. CASE UNCHANGED vars
  <2>1. /\ Recorders' = Recorders /\ Points' = Points
        /\ redeemed' = redeemed /\ dropped' = dropped /\ spent' = spent
    BY <1>4 DEF vars, Recorders, Points
  <2> QED  BY <1>0, <2>1
<1> HIDE DEF SumInv, Due
<1>5. ASSUME NEW c \in Calls, NEW p \in Paths, NEW k \in Keys, InsertEvent(c, p, k)
      PROVE  IsFiniteSet(Recorders') /\ spent' = redeemed' + dropped' + Due'
  BY <1>1, <1>5, Zenon
<1>6. ASSUME NEW c \in Calls, CreditPoints(c)
      PROVE  IsFiniteSet(Recorders') /\ spent' = redeemed' + dropped' + Due'
  BY <1>1, <1>6, Zenon
<1>7. ASSUME NEW c \in Calls, RecordRedemption(c)
      PROVE  IsFiniteSet(Recorders') /\ spent' = redeemed' + dropped' + Due'
  BY <1>3, <1>7, Zenon
<1>8. ASSUME NEW c \in Calls, CallFails(c)
      PROVE  IsFiniteSet(Recorders') /\ spent' = redeemed' + dropped' + Due'
  BY <1>1, <1>3, <1>8, Zenon
<1> QED  BY <1>2, <1>4, <1>5, <1>6, <1>7, <1>8 DEF Next

(* The balance, with what redemptions took from it, is exactly the sum of   *)
(* the points of the credited events, for any actions, duplicates, racing   *)
(* calls and failures.                                                      *)
THEOREM BalanceIsTheSum == Spec => []BalanceAccountsForCredits
<1>1. TypeOK /\ LedgerInv /\ SumInv /\ [Next]_vars => SumInv'
  BY BalanceStep, RedemptionStep DEF SumInv
<1>2. SumInv => BalanceAccountsForCredits
  BY DEF SumInv
<1> QED  BY <1>1, <1>2, SumInit, LedgerInit, LedgerStep, TypeCorrect, PTL DEF Spec

(* What redemptions took from the balance is what their rows record, what   *)
(* calls are about to record, and what calls dropped that failed between    *)
(* the two statements, for costs of either sign, any racing calls and any   *)
(* failures.                                                                *)
THEOREM RedeemedAddsUp == Spec => []RedemptionsAddUp
<1>1. TypeOK /\ LedgerInv /\ SumInv /\ [Next]_vars => SumInv'
  BY BalanceStep, RedemptionStep DEF SumInv
<1>2. SumInv => RedemptionsAddUp
  BY DEF SumInv
<1> QED  BY <1>1, <1>2, SumInit, LedgerInit, LedgerStep, TypeCorrect, PTL DEF Spec

-----------------------------------------------------------------------------
(* The heatmap engine (services/heatmap-engine/app).  What the readings of  *)
(* a zone amount to is a sum over positions of the topic, so that the       *)
(* counts of a zone can be followed from the topic to the hash.             *)

\* What the topic and the channel carry, and the types of the state.
Readings == [zone : Zones, count : Nat]
Snapshots == [zone : Zones, count : Nat, status : {"red", "amber", "green"}]

EngineTypes ==
    /\ topic \in Seq(Readings) /\ uncommitted \in Seq(Readings)
    /\ window \in [Zones -> Nat \cup {NoData}] /\ batch \in [Zones -> Nat \cup {NoData}]
    /\ unpublished \in Snapshots \cup {NoData}
    /\ heatmap \in [Zones -> Snapshots \cup {NoData}]
    /\ channel \in Seq(Snapshots)
    /\ sent \in [Zones -> Nat] /\ processed \in [Zones -> Nat]
    /\ crashed \in BOOLEAN

\* Nothing is counted that was not transmitted, now or when a crash has the
\* uncommitted readings read again.
EngineBounds ==
    \A z \in Zones :
        /\ CountIn(topic, z) + CountOf(window[z]) + CountOf(batch[z]) <= sent[z]
        /\ CountIn(uncommitted, z) + CountIn(topic, z) <= sent[z]

\* What is about to be published is what the hash holds.
EngineStored ==
    unpublished # NoData => heatmap[unpublished.zone] = unpublished

\* The inductive invariant.  EachReadingOnce speaks of engines that never
\* crashed and says nothing of the hash: EngineBounds carries across a crash what
\* SnapshotNotInflated needs.
EngineInv == EngineTypes /\ EngineBounds /\ EngineStored /\ SnapshotNotInflated /\ EachReadingOnce

-----------------------------------------------------------------------------
\* The places of the readings of zone z in s, and the counts there.
Positions(s, z) == {i \in DOMAIN s : s[i].zone = z}
CountsOf(s) == [i \in DOMAIN s |-> s[i].count]

\* CountIn is the sum of numbers over finitely many places.
LEMMA PositionsFinite ==
  ASSUME NEW s \in Seq(Readings), NEW z
  PROVE  /\ IsFiniteSet(Positions(s, z))
         /\ \A i \in Positions(s, z) : CountsOf(s)[i] \in Nat /\ CountsOf(s)[i] = s[i].count
         /\ CountIn(s, z) = SumFunctionOnSet(CountsOf(s), Positions(s, z))
<1>1. DOMAIN s = 1 .. Len(s) /\ Len(s) \in Nat
  BY LenProperties
<1>2. IsFiniteSet(1 .. Len(s))
  BY <1>1, FS_Interval
<1>3. Positions(s, z) \in SUBSET (1 .. Len(s))
  BY <1>1 DEF Positions
<1>4. IsFiniteSet(Positions(s, z))
  BY <1>2, <1>3, FS_Subset
<1>5. \A i \in Positions(s, z) : CountsOf(s)[i] = s[i].count /\ s[i] \in Readings
  BY <1>1, ElementOfSeq DEF Positions, CountsOf
<1>6. CountIn(s, z) = SumFunctionOnSet(CountsOf(s), Positions(s, z))
  BY DEF CountIn, CountsOf, Positions
<1> QED  BY <1>4, <1>5, <1>6 DEF Readings

\* No readings count nothing ...
LEMMA CountEmpty == ASSUME NEW z PROVE CountIn(<<>>, z) = 0
<1>1. Positions(<<>>, z) = {}
  BY DEF Positions
<1>2. IsFiniteSet({})
  BY FS_EmptySet
<1>3. CountIn(<<>>, z) = SumFunctionOnSet(CountsOf(<<>>), Positions(<<>>, z))
  BY DEF CountIn, CountsOf, Positions
<1> QED  BY <1>1, <1>2, <1>3, SumStep

\* ... and any readings count a number.
LEMMA CountNat ==
  ASSUME NEW s \in Seq(Readings), NEW z
  PROVE  CountIn(s, z) \in Nat
  BY PositionsFinite, SumNat

\* A reading that is appended adds its count to its zone and to no other.
LEMMA CountAppend ==
  ASSUME NEW s \in Seq(Readings), NEW r \in Readings, NEW z
  PROVE  CountIn(Append(s, r), z) = CountIn(s, z) + IF r.zone = z THEN r.count ELSE 0
<1> DEFINE t == Append(s, r)
           n == Len(s) + 1
<1>1. /\ t \in Seq(Readings) /\ DOMAIN s = 1 .. Len(s) /\ DOMAIN t = 1 .. n
      /\ t[n] = r /\ \A i \in 1 .. Len(s) : t[i] = s[i]
      /\ Len(s) \in Nat
  BY LenProperties
<1>2. \A i \in Positions(s, z) : CountsOf(t)[i] = CountsOf(s)[i] /\ CountsOf(s)[i] \in Int
  <2> SUFFICES ASSUME NEW i \in Positions(s, z)
               PROVE  CountsOf(t)[i] = CountsOf(s)[i] /\ CountsOf(s)[i] \in Int
    OBVIOUS
  <2>1. i \in DOMAIN s /\ i \in DOMAIN t /\ t[i] = s[i]
    BY <1>1 DEF Positions
  <2>2. CountsOf(s)[i] \in Nat
    BY PositionsFinite
  <2> HIDE DEF t
  <2> QED  BY <2>1, <2>2 DEF CountsOf
<1>3. n \notin Positions(s, z) /\ IsFiniteSet(Positions(s, z))
  <2>1. n \notin 1 .. Len(s)
    BY <1>1
  <2> QED  BY <2>1, <1>1, PositionsFinite DEF Positions
<1>4. CountsOf(t)[n] = r.count /\ r.count \in Nat
  BY <1>1 DEF CountsOf, Readings
<1>5. CountIn(s, z) = SumFunctionOnSet(CountsOf(s), Positions(s, z))
  BY PositionsFinite
<1>6. CountIn(t, z) = SumFunctionOnSet(CountsOf(t), Positions(t, z))
  BY <1>1, PositionsFinite
<1>7. CountIn(s, z) \in Nat
  BY CountNat
<1>8. CASE r.zone = z
  <2>1. Positions(t, z) = Positions(s, z) \cup {n}
    BY <1>1, <1>8 DEF Positions
  <2> HIDE DEF n, t
  <2>2. SumFunctionOnSet(CountsOf(t), Positions(s, z) \cup {n})
          = CountsOf(t)[n] + SumFunctionOnSet(CountsOf(s), Positions(s, z))
    BY <1>2, <1>3, <1>4, SumWith
  <2>3. CountIn(t, z) = r.count + CountIn(s, z)
    BY <2>1, <2>2, <1>4, <1>5, <1>6
  <2> QED  BY <2>3, <1>4, <1>7, <1>8 DEF t
<1>9. CASE r.zone # z
  <2>1. Positions(t, z) = Positions(s, z)
    BY <1>1, <1>9 DEF Positions
  <2> HIDE DEF n, t
  <2>2. SumFunctionOnSet(CountsOf(t), Positions(s, z))
          = SumFunctionOnSet(CountsOf(s), Positions(s, z))
    BY <1>2, <1>3, SumSame
  <2> QED  BY <2>1, <2>2, <1>5, <1>6, <1>7, <1>9 DEF t
<1> QED  BY <1>8, <1>9

\* Readings put before others, as those that a crash has read again, count as
\* both.  By the shortest beginning of t for which it would fail.
LEMMA CountConcat ==
  ASSUME NEW s \in Seq(Readings), NEW t \in Seq(Readings), NEW z
  PROVE  CountIn(s \o t, z) = CountIn(s, z) + CountIn(t, z)
<1> DEFINE first(k) == SubSeq(t, 1, k)
           B == {k \in 0 .. Len(t) : CountIn(s \o first(k), z) # CountIn(s, z) + CountIn(first(k), z)}
<1>0. Len(t) \in Nat
  BY LenProperties
<1>1. SUFFICES ASSUME B # {} PROVE FALSE
  <2>1. first(Len(t)) = t /\ Len(t) \in 0 .. Len(t)
    BY <1>0, SubSeqFull
  <2> QED  BY <2>1
<1>2. PICK k \in B : \A j \in B : ~ <<j, k>> \in OpToRel(<, Nat)
  <2>1. B \subseteq Nat
    OBVIOUS
  <2> HIDE DEF B
  <2> QED  BY <1>1, <2>1, NatLessThanWellFounded, WFMin
<1>3. k \in 0 .. Len(t) /\ CountIn(s \o first(k), z) # CountIn(s, z) + CountIn(first(k), z)
  OBVIOUS
<1>4. \A j \in 0 .. Len(t) : j < k =>
        CountIn(s \o first(j), z) = CountIn(s, z) + CountIn(first(j), z)
  <2> SUFFICES ASSUME NEW j \in 0 .. Len(t), j < k, j \in B PROVE FALSE
    OBVIOUS
  <2>1. <<j, k>> \in Nat \X Nat
    BY <1>0, <1>3
  <2>2. <<j, k>> \in OpToRel(<, Nat)
    BY <2>1 DEF OpToRel
  <2> QED  BY <1>2, <2>2
<1> HIDE DEF B
<1>5. CASE k = 0
  <2>1. first(k) = <<>>
    BY <1>5, SubSeqEmpty
  <2>2. s \o <<>> = s
    BY ConcatEmptySeq
  <2>3. CountIn(s, z) \in Nat /\ CountIn(<<>>, z) = 0
    BY CountEmpty, CountNat
  <2> HIDE DEF first
  <2> QED  BY <1>3, <2>1, <2>2, <2>3
<1>6. CASE k # 0
  <2> DEFINE j == k - 1
             r == t[k]
  <2>1. /\ k \in 1 .. Len(t) /\ j \in 0 .. Len(t) /\ j < k
        /\ r \in Readings
    BY <1>0, <1>3, <1>6, ElementOfSeq
  <2>2. first(j) \in Seq(Readings)
    BY <1>0, <2>1, ElementOfSeq, SubSeqProperties
  <2>3. first(k) = first(j) \o <<r>>
    BY <1>0, <2>1, SubSeqRecursiveSecond
  <2>4. first(k) = Append(first(j), r)
    BY <2>1, <2>2, <2>3
  <2> HIDE DEF first, j, r
  <2>5. s \o first(k) = Append(s \o first(j), r) /\ s \o first(j) \in Seq(Readings)
    <3>1. <<r>> \in Seq(Readings)
      BY <2>1
    <3>2. s \o (first(j) \o <<r>>) = (s \o first(j)) \o <<r>>
      BY <2>2, <3>1, ConcatAssociative
    <3>3. s \o first(j) \in Seq(Readings)
      BY <2>2, ConcatProperties
    <3>4. (s \o first(j)) \o <<r>> = Append(s \o first(j), r)
      BY <2>1, <3>3
    <3> QED  BY <2>3, <3>2, <3>3, <3>4
  <2> DEFINE v == IF r.zone = z THEN r.count ELSE 0
  <2>6. v \in Nat
    BY <2>1 DEF Readings
  <2>7. CountIn(s \o first(k), z) = CountIn(s \o first(j), z) + v
    <3>1. CountIn(Append(s \o first(j), r), z) = CountIn(s \o first(j), z) + v
      BY <2>1, <2>5, CountAppend
    <3> QED  BY <2>5, <3>1
  <2>8. CountIn(first(k), z) = CountIn(first(j), z) + v
    <3>1. CountIn(Append(first(j), r), z) = CountIn(first(j), z) + v
      BY <2>1, <2>2, CountAppend
    <3> QED  BY <2>4, <3>1
  <2>9. CountIn(s \o first(j), z) = CountIn(s, z) + CountIn(first(j), z)
    BY <1>4, <2>1
  <2>10. CountIn(s, z) \in Nat /\ CountIn(first(j), z) \in Nat
    BY <2>2, CountNat
  <2> HIDE DEF v
  <2> QED  BY <1>3, <2>6, <2>7, <2>8, <2>9, <2>10
<1> QED  BY <1>5, <1>6

\* Taking the first reading takes its count from its zone.
LEMMA CountHead ==
  ASSUME NEW s \in Seq(Readings), s # <<>>, NEW z
  PROVE  /\ CountIn(s, z) = CountIn(Tail(s), z) + IF Head(s).zone = z THEN Head(s).count ELSE 0
         /\ Head(s) \in Readings /\ Tail(s) \in Seq(Readings)
<1>1. Head(s) \in Readings /\ Tail(s) \in Seq(Readings)
  BY HeadTailProperties
<1>2. <<Head(s)>> \in Seq(Readings) /\ s = <<Head(s)>> \o Tail(s)
  BY <1>1
<1>3. <<Head(s)>> = Append(<<>>, Head(s)) /\ <<>> \in Seq(Readings)
  OBVIOUS
<1> DEFINE v == IF Head(s).zone = z THEN Head(s).count ELSE 0
<1>4. v \in Nat
  BY <1>1 DEF Readings
<1>5. CountIn(<<Head(s)>>, z) = CountIn(<<>>, z) + v
  <2>1. CountIn(Append(<<>>, Head(s)), z) = CountIn(<<>>, z) + v
    BY <1>1, <1>3, CountAppend
  <2> QED  BY <2>1, <1>3
<1>6. CountIn(<<Head(s)>>, z) = v
  BY <1>4, <1>5, CountEmpty
<1>7. CountIn(s, z) = CountIn(<<Head(s)>>, z) + CountIn(Tail(s), z)
  BY <1>1, <1>2, CountConcat
<1> HIDE DEF v
<1>8. CountIn(s, z) = CountIn(Tail(s), z) + v
  <2>1. CountIn(Tail(s), z) \in Nat
    BY <1>1, CountNat
  <2> QED  BY <2>1, <1>4, <1>6, <1>7
<1> QED  BY <1>1, <1>8 DEF v

-----------------------------------------------------------------------------
\* A zone that is not in the window counts nothing.
LEMMA CountOfNat ==
  ASSUME NEW e \in Nat \cup {NoData}
  PROVE  CountOf(e) \in Nat /\ CountOf(NoData) = 0 /\ (e \in Nat => CountOf(e) = e)
  BY NoDataAssumption DEF CountOf

\* WindowAggregator.add adds the count of the reading to its zone (aggregator.py).
LEMMA AddedTo ==
  ASSUME NEW win \in [Zones -> Nat \cup {NoData}], NEW r \in Readings
  PROVE  /\ Add(win, r) \in [Zones -> Nat \cup {NoData}]
         /\ \A z \in Zones : CountOf(Add(win, r)[z])
                               = CountOf(win[z]) + IF r.zone = z THEN r.count ELSE 0
<1>1. r.zone \in Zones /\ r.count \in Nat
  BY DEF Readings
<1>2. \A z \in Zones : Add(win, r)[z] = IF z # r.zone THEN win[z]
                                        ELSE IF win[z] = NoData THEN r.count ELSE win[z] + r.count
  BY <1>1 DEF Add
<1>3. \A z \in Zones : Add(win, r)[z] \in Nat \cup {NoData}
  BY <1>1, <1>2
<1>4. Add(win, r) \in [Zones -> Nat \cup {NoData}]
  BY <1>3 DEF Add
<1>5. ASSUME NEW z \in Zones
      PROVE  CountOf(Add(win, r)[z]) = CountOf(win[z]) + IF r.zone = z THEN r.count ELSE 0
  <2>1. win[z] \in Nat \cup {NoData}
    OBVIOUS
  <2>2. CASE r.zone # z
    <3>1. CountOf(win[z]) \in Nat
      BY <2>1, CountOfNat
    <3>2. Add(win, r)[z] = win[z]
      BY <1>2, <2>2
    <3> QED  BY <2>2, <3>1, <3>2
  <2>3. CASE r.zone = z /\ win[z] = NoData
    <3>1. Add(win, r)[z] = r.count
      BY <1>2, <2>3
    <3> QED  BY <1>1, <2>3, <3>1, CountOfNat
  <2>4. CASE r.zone = z /\ win[z] # NoData
    <3>1. Add(win, r)[z] = win[z] + r.count /\ win[z] \in Nat
      BY <1>2, <2>1, <2>4
    <3>2. win[z] + r.count \in Nat
      BY <1>1, <3>1
    <3>3. CountOf(win[z]) = win[z] /\ CountOf(win[z] + r.count) = win[z] + r.count
      BY <3>1, <3>2, CountOfNat
    <3> QED  BY <2>4, <3>1, <3>3
  <2> QED  BY <2>2, <2>3, <2>4
<1> QED  BY <1>4, <1>5

\* A new window counts nothing.
LEMMA EmptyWindow ==
  /\ Empty \in [Zones -> Nat \cup {NoData}]
  /\ \A z \in Zones : CountOf(Empty[z]) = 0
  BY DEF Empty, CountOf

\* The engine starts with nothing counted and nothing stored.
LEMMA EngineInit == HeatmapInit => EngineInv
<1> SUFFICES ASSUME HeatmapInit PROVE EngineInv
  OBVIOUS
<1>1. \A z \in Zones : CountOf(window[z]) = 0 /\ CountOf(batch[z]) = 0 /\ heatmap[z] = NoData
  BY EmptyWindow DEF HeatmapInit, Empty
<1>2. \A z \in Zones : CountIn(topic, z) = 0 /\ CountIn(uncommitted, z) = 0
  BY CountEmpty DEF HeatmapInit
<1>3. \A z \in Zones : sent[z] = 0 /\ processed[z] = 0
  BY DEF HeatmapInit
<1>4. EngineTypes
  <2>1. <<>> \in Seq(Readings) /\ <<>> \in Seq(Snapshots)
    OBVIOUS
  <2>2. heatmap \in [Zones -> Snapshots \cup {NoData}]
    BY DEF HeatmapInit, Empty
  <2>3. window \in [Zones -> Nat \cup {NoData}] /\ batch \in [Zones -> Nat \cup {NoData}]
    BY EmptyWindow DEF HeatmapInit
  <2> QED  BY <2>1, <2>2, <2>3 DEF HeatmapInit, EngineTypes
<1>5. EngineBounds
  BY <1>1, <1>2, <1>3 DEF EngineBounds
<1>6. EngineStored
  BY DEF HeatmapInit, EngineStored
<1>7. SnapshotNotInflated
  BY <1>1 DEF SnapshotNotInflated
<1>8. EachReadingOnce
  BY <1>1, <1>2, <1>3 DEF EachReadingOnce
<1> QED  BY <1>4, <1>5, <1>6, <1>7, <1>8 DEF EngineInv

\* What is counted of a zone in a state is a number.
LEMMA EngineNumbers ==
  ASSUME EngineTypes, NEW z \in Zones
  PROVE  /\ CountIn(topic, z) \in Nat /\ CountIn(uncommitted, z) \in Nat
         /\ CountOf(window[z]) \in Nat /\ CountOf(batch[z]) \in Nat
         /\ sent[z] \in Nat /\ processed[z] \in Nat
<1>1. window[z] \in Nat \cup {NoData} /\ batch[z] \in Nat \cup {NoData}
  BY DEF EngineTypes
<1>2. CountOf(window[z]) \in Nat /\ CountOf(batch[z]) \in Nat
  BY <1>1, CountOfNat
<1> QED  BY <1>2, CountNat DEF EngineTypes

-----------------------------------------------------------------------------
\* The snapshot of a zone that is in the batch.
LEMMA SnapshotTypes ==
  ASSUME EngineTypes, NEW z \in Zones, batch[z] # NoData
  PROVE  /\ SnapshotOf(z) \in Snapshots
         /\ SnapshotOf(z).zone = z /\ SnapshotOf(z).count = batch[z]
         /\ batch[z] \in Nat
<1>1. batch[z] \in Nat
  BY DEF EngineTypes
<1>2. ClassifyDensity(batch[z]) \in {"red", "amber", "green"}
  BY DEF ClassifyDensity
<1> QED  BY <1>1, <1>2 DEF SnapshotOf, Snapshots

\* _process_window takes a zone from the batch and accounts for it.
LEMMA AccountTypes ==
  ASSUME EngineTypes, NEW z \in Zones, batch[z] # NoData, Account(z),
         batch' = [batch EXCEPT ![z] = NoData]
  PROVE  /\ processed' \in [Zones -> Nat]
         /\ batch' \in [Zones -> Nat \cup {NoData}]
         /\ \A y \in Zones : y # z => batch'[y] = batch[y] /\ processed'[y] = processed[y]
         /\ batch'[z] = NoData
         /\ ~crashed => processed'[z] = processed[z] + batch[z]
<1>1. batch[z] \in Nat /\ processed[z] \in Nat
  BY DEF EngineTypes
<1> QED  BY <1>1 DEF EngineTypes, Account

\* Every step keeps the types.
LEMMA EngineTypesStep ==
  ASSUME EngineTypes, [HeatmapNext]_heatmapVars
  PROVE  EngineTypes'
<1> USE DEF EngineTypes
<1>1. CASE Consume
  <2>1. Head(topic) \in Readings /\ Tail(topic) \in Seq(Readings)
    BY <1>1, HeadTailProperties DEF Consume
  <2>2. Append(uncommitted, Head(topic)) \in Seq(Readings)
    BY <2>1
  <2>3. Add(window, Head(topic)) \in [Zones -> Nat \cup {NoData}]
    BY <2>1, AddedTo
  <2> QED  BY <1>1, <2>1, <2>2, <2>3, EmptyWindow DEF Consume, redisVars, historyVars
<1>2. CASE CommitOffset
  BY <1>2 DEF CommitOffset, redisVars, historyVars
<1>3. CASE PublishZone
  BY <1>3 DEF PublishZone, redisVars, historyVars
<1>4. CASE PublishFails
  BY <1>4 DEF PublishFails, redisVars, historyVars
<1>5. CASE Crash
  <2>1. uncommitted \o topic \in Seq(Readings) /\ <<>> \in Seq(Readings)
    BY ConcatProperties
  <2> QED  BY <1>5, <2>1, EmptyWindow DEF Crash, redisVars, historyVars
<1>6. ASSUME NEW z \in Zones, StoreZone(z) PROVE EngineTypes'
  <2>1. SnapshotOf(z) \in Snapshots
    BY <1>6, SnapshotTypes DEF StoreZone
  <2>2. processed' \in [Zones -> Nat] /\ batch' \in [Zones -> Nat \cup {NoData}]
    BY <1>6, AccountTypes DEF StoreZone
  <2> QED  BY <1>6, <2>1, <2>2 DEF StoreZone
<1>7. ASSUME NEW z \in Zones, StoreFails(z) PROVE EngineTypes'
  <2>1. processed' \in [Zones -> Nat] /\ batch' \in [Zones -> Nat \cup {NoData}]
    BY <1>7, AccountTypes DEF StoreFails
  <2> QED  BY <1>7, <2>1 DEF StoreFails, redisVars
<1>8. ASSUME NEW z \in Zones, NEW n \in Counts, Transmit(z, n) PROVE EngineTypes'
  <2>1. n \in Nat
    BY CountsAssumption
  <2>2. [zone |-> z, count |-> n] \in Readings
    BY <2>1 DEF Readings
  <2>3. sent' \in [Zones -> Nat] /\ topic' \in Seq(Readings)
    BY <1>8, <2>1, <2>2 DEF Transmit
  <2> QED  BY <1>8, <2>3 DEF Transmit, redisVars
<1>9. CASE Deliver
  <2>1. Tail(channel) \in Seq(Snapshots)
    BY <1>9, HeadTailProperties DEF Deliver
  <2> QED  BY <1>9, <2>1 DEF Deliver, engineVars, historyVars
<1>10. CASE Tick
  BY <1>10 DEF Tick, historyVars
<1>11. CASE UNCHANGED heatmapVars
  BY <1>11 DEF heatmapVars
<1> QED  BY <1>1, <1>2, <1>3, <1>4, <1>5, <1>6, <1>7, <1>8, <1>9, <1>10, <1>11 DEF HeatmapNext, Engine

-----------------------------------------------------------------------------
\* What the invariant says of the counts of one zone.
Counted(z) ==
    /\ CountIn(topic, z) + CountOf(window[z]) + CountOf(batch[z]) <= sent[z]
    /\ CountIn(uncommitted, z) + CountIn(topic, z) <= sent[z]
    /\ ~crashed => sent[z] = CountIn(topic, z) + CountOf(window[z]) + CountOf(batch[z]) + processed[z]

\* ... and it says that of every zone.
LEMMA CountedMeaning ==
  (\A z \in Zones : Counted(z)) <=> EngineBounds /\ EachReadingOnce
  BY DEF Counted, EngineBounds, EachReadingOnce

\* A reading that the gateway transmits is on the topic.
LEMMA TransmitCounted ==
  ASSUME EngineTypes, NEW z \in Zones, Counted(z),
         NEW y \in Zones, NEW n \in Counts, Transmit(y, n)
  PROVE  Counted(z)'
<1> DEFINE v == IF y = z THEN n ELSE 0
           r == [zone |-> y, count |-> n]
<1>1. n \in Nat /\ v \in Nat
  BY CountsAssumption
<1>2. r \in Readings /\ r.zone = y /\ r.count = n
  BY <1>1 DEF Readings
<1>3. topic' = Append(topic, r) /\ topic \in Seq(Readings)
  BY DEF Transmit, EngineTypes
<1> HIDE DEF r
<1>4. CountIn(Append(topic, r), z) = CountIn(topic, z) + v
  BY <1>2, <1>3, CountAppend
<1>5. sent'[z] = sent[z] + v
  BY DEF Transmit, EngineTypes
<1>6. /\ window' = window /\ batch' = batch /\ uncommitted' = uncommitted
      /\ processed' = processed /\ crashed' = crashed
  BY DEF Transmit
<1> DEFINE T == CountIn(topic, z)
           T1 == CountIn(topic', z)
           S1 == sent'[z]
<1>7. T1 = T + v /\ S1 = sent[z] + v
  BY <1>3, <1>4, <1>5
<1>8. /\ T \in Nat /\ CountIn(uncommitted, z) \in Nat
      /\ CountOf(window[z]) \in Nat /\ CountOf(batch[z]) \in Nat
      /\ sent[z] \in Nat /\ processed[z] \in Nat
  BY EngineNumbers
<1>9. /\ T + CountOf(window[z]) + CountOf(batch[z]) <= sent[z]
      /\ CountIn(uncommitted, z) + T <= sent[z]
      /\ ~crashed => sent[z] = T + CountOf(window[z]) + CountOf(batch[z]) + processed[z]
  BY DEF Counted
<1> HIDE DEF T, T1, S1, v
<1>10. /\ T1 + CountOf(window[z]) + CountOf(batch[z]) <= S1
       /\ CountIn(uncommitted, z) + T1 <= S1
       /\ ~crashed => S1 = T1 + CountOf(window[z]) + CountOf(batch[z]) + processed[z]
  BY <1>1, <1>7, <1>8, <1>9
<1> QED  BY <1>6, <1>10 DEF T1, S1, Counted

\* A reading that is consumed moves from the topic to the window, and with the
\* flush from there to the batch (consumer.py:55-65).
LEMMA ConsumeCounted ==
  ASSUME EngineTypes, NEW z \in Zones, Counted(z), Consume
  PROVE  Counted(z)'
<1> DEFINE r == Head(topic)
           v == IF r.zone = z THEN r.count ELSE 0
<1>1. /\ topic \in Seq(Readings) /\ topic # <<>> /\ topic' = Tail(topic)
      /\ uncommitted' = Append(uncommitted, r) /\ uncommitted \in Seq(Readings)
      /\ sent' = sent /\ processed' = processed /\ crashed' = crashed
  BY DEF Consume, EngineTypes, historyVars
<1>2. CountIn(topic, z) = CountIn(Tail(topic), z) + v /\ r \in Readings
  BY <1>1, CountHead
<1>3. v \in Nat
  BY <1>2 DEF Readings
<1>4. CountIn(Append(uncommitted, r), z) = CountIn(uncommitted, z) + v
  BY <1>1, <1>2, CountAppend
<1>5. CountIn(Tail(topic), z) \in Nat
  BY <1>1, HeadTailProperties, CountNat
<1>6. CountOf(Add(window, r)[z]) = CountOf(window[z]) + v
  BY <1>2, AddedTo DEF EngineTypes
<1>7. batch = Empty /\ CountOf(batch[z]) = 0
  BY EmptyWindow DEF Consume, Processing
<1>8. CountOf(window'[z]) + CountOf(batch'[z]) = CountOf(window[z]) + v
  <2>1. CountOf(window[z]) \in Nat
    BY EngineNumbers
  <2>2. CASE sinceFlush = WindowTicks
    <3>1. window' = Empty /\ batch' = Add(window, r)
      BY <2>2 DEF Consume
    <3>2. CountOf(Empty[z]) = 0
      BY EmptyWindow
    <3> HIDE DEF v, r
    <3> QED  BY <1>3, <1>6, <2>1, <3>1, <3>2
  <2>3. CASE sinceFlush # WindowTicks
    <3>1. window' = Add(window, r) /\ batch' = batch
      BY <2>3 DEF Consume
    <3> HIDE DEF v, r
    <3> QED  BY <1>3, <1>6, <1>7, <2>1, <3>1
  <2> QED  BY <2>2, <2>3
<1> DEFINE T1 == CountIn(topic', z)
           U1 == CountIn(uncommitted', z)
           W1 == CountOf(window'[z])
           B1 == CountOf(batch'[z])
<1>9. W1 \in Nat /\ B1 \in Nat
  <2>1. EngineTypes'
    BY EngineTypesStep DEF HeatmapNext, Engine
  <2>2. window'[z] \in Nat \cup {NoData} /\ batch'[z] \in Nat \cup {NoData}
    BY <2>1 DEF EngineTypes
  <2> QED  BY <2>2, CountOfNat
<1>10. /\ CountIn(topic, z) = T1 + v /\ T1 \in Nat
       /\ U1 = CountIn(uncommitted, z) + v
       /\ W1 + B1 = CountOf(window[z]) + v
  BY <1>1, <1>2, <1>4, <1>5, <1>8
<1>11. /\ CountIn(topic, z) \in Nat /\ CountIn(uncommitted, z) \in Nat
       /\ CountOf(window[z]) \in Nat /\ sent[z] \in Nat /\ processed[z] \in Nat
  BY EngineNumbers
<1>12. /\ CountIn(topic, z) + CountOf(window[z]) + 0 <= sent[z]
       /\ CountIn(uncommitted, z) + CountIn(topic, z) <= sent[z]
       /\ ~crashed => sent[z] = CountIn(topic, z) + CountOf(window[z]) + 0 + processed[z]
  BY <1>7 DEF Counted
<1> HIDE DEF T1, U1, W1, B1, v
<1>13. /\ T1 + W1 + B1 <= sent[z]
       /\ U1 + T1 <= sent[z]
       /\ ~crashed => sent[z] = T1 + W1 + B1 + processed[z]
  BY <1>3, <1>9, <1>10, <1>11, <1>12
<1> QED  BY <1>1, <1>13 DEF T1, U1, W1, B1, Counted

\* The zone leaves the batch: its count is processed.
LEMMA AccountCounted ==
  ASSUME EngineTypes, NEW z \in Zones, Counted(z),
         NEW y \in Zones, batch[y] # NoData, Account(y), batch' = [batch EXCEPT ![y] = NoData],
         UNCHANGED <<topic, uncommitted, window, sent, crashed>>
  PROVE  Counted(z)'
<1>1. /\ CountIn(topic, z) \in Nat /\ CountIn(uncommitted, z) \in Nat
      /\ CountOf(window[z]) \in Nat /\ CountOf(batch[z]) \in Nat
      /\ sent[z] \in Nat /\ processed[z] \in Nat
  BY EngineNumbers
<1>2. CASE z # y
  <2>1. batch'[z] = batch[z] /\ processed'[z] = processed[z]
    BY <1>2, AccountTypes
  <2> QED  BY <2>1 DEF Counted
<1>3. CASE z = y
  <2>1. /\ batch'[z] = NoData /\ batch[z] \in Nat
        /\ ~crashed => processed'[z] = processed[z] + batch[z]
    BY <1>3, AccountTypes DEF EngineTypes
  <2>2. CountOf(batch'[z]) = 0 /\ CountOf(batch[z]) = batch[z]
    BY <2>1, CountOfNat
  <2> DEFINE P1 == processed'[z]
             b == CountOf(batch[z])
             B1 == CountOf(batch'[z])
             T == CountIn(topic, z)
             W == CountOf(window[z])
  <2>3. /\ T + W + b <= sent[z] /\ CountIn(uncommitted, z) + T <= sent[z]
        /\ ~crashed => sent[z] = T + W + b + processed[z]
        /\ T \in Nat /\ W \in Nat /\ b \in Nat /\ B1 = 0
        /\ ~crashed => P1 = processed[z] + b
    BY <1>1, <2>1, <2>2 DEF Counted
  <2> HIDE DEF P1, b, B1, T, W
  <2>4. /\ T + W + B1 <= sent[z]
        /\ ~crashed => sent[z] = T + W + B1 + P1
    BY <1>1, <2>3
  <2> QED  BY <2>3, <2>4 DEF P1, B1, T, W, Counted
<1> QED  BY <1>2, <1>3

\* A crash loses the window and the batch and has the uncommitted readings read
\* again, or all of the topic skipped: nothing counts twice.
LEMMA CrashCounted ==
  ASSUME EngineTypes, NEW z \in Zones, Counted(z), Crash
  PROVE  Counted(z)'
<1>1. /\ topic' = IF hasOffset THEN uncommitted \o topic ELSE <<>>
      /\ uncommitted' = <<>> /\ window' = Empty /\ batch' = Empty
      /\ sent' = sent /\ crashed' = TRUE
  BY DEF Crash
<1>2. CountOf(Empty[z]) = 0 /\ CountIn(<<>>, z) = 0
  BY EmptyWindow, CountEmpty
<1>3. CountIn(uncommitted \o topic, z) = CountIn(uncommitted, z) + CountIn(topic, z)
  BY CountConcat DEF EngineTypes
<1>4. CountIn(topic, z) \in Nat /\ CountIn(uncommitted, z) \in Nat /\ sent[z] \in Nat
  BY EngineNumbers
<1> DEFINE T1 == CountIn(topic', z)
<1>5. T1 \in Nat /\ T1 <= sent[z]
  BY <1>1, <1>2, <1>3, <1>4 DEF Counted
<1> HIDE DEF T1
<1>6. T1 + 0 + 0 <= sent[z] /\ 0 + T1 <= sent[z]
  BY <1>4, <1>5
<1> QED  BY <1>1, <1>2, <1>6 DEF T1, Counted

\* Every step keeps the counts.
LEMMA CountedStep ==
  ASSUME EngineTypes, \A z \in Zones : Counted(z), [HeatmapNext]_heatmapVars
  PROVE  \A z \in Zones : Counted(z)'
<1> SUFFICES ASSUME NEW z \in Zones PROVE Counted(z)'
  OBVIOUS
<1>0. Counted(z)
  OBVIOUS
<1>a. ASSUME UNCHANGED <<topic, uncommitted, window, batch, sent, processed, crashed>>
      PROVE  Counted(z)'
  BY <1>0, <1>a DEF Counted
<1>1. CASE Consume
  BY <1>0, <1>1, ConsumeCounted
<1>2. CASE CommitOffset
  <2>1. /\ topic' = topic /\ window' = window /\ batch' = batch /\ sent' = sent
        /\ processed' = processed /\ crashed' = crashed /\ uncommitted' = <<>>
    BY <1>2 DEF CommitOffset, historyVars
  <2>2. CountIn(<<>>, z) = 0
    BY CountEmpty
  <2>3. CountIn(topic, z) \in Nat /\ CountIn(uncommitted, z) \in Nat /\ sent[z] \in Nat
    BY EngineNumbers
  <2>4. 0 + CountIn(topic, z) <= sent[z]
    BY <1>0, <2>3 DEF Counted
  <2> QED  BY <1>0, <2>1, <2>2, <2>4 DEF Counted
<1>3. CASE PublishZone \/ PublishFails \/ Deliver \/ Tick
  BY <1>3, <1>a DEF PublishZone, PublishFails, Deliver, Tick, engineVars, historyVars
<1>4. CASE Crash
  BY <1>0, <1>4, CrashCounted
<1>5. ASSUME NEW y \in Zones, StoreZone(y) \/ StoreFails(y) PROVE Counted(z)'
  BY <1>0, <1>5, AccountCounted DEF StoreZone, StoreFails
<1>6. ASSUME NEW y \in Zones, NEW n \in Counts, Transmit(y, n) PROVE Counted(z)'
  BY <1>0, <1>6, TransmitCounted
<1>7. CASE UNCHANGED heatmapVars
  BY <1>7, <1>a DEF heatmapVars
<1> QED  BY <1>1, <1>2, <1>3, <1>4, <1>5, <1>6, <1>7 DEF HeatmapNext, Engine

\* What is stored was counted in the batch.
LEMMA SnapshotStep ==
  ASSUME EngineInv, [HeatmapNext]_heatmapVars
  PROVE  SnapshotNotInflated'
<1> USE DEF EngineInv
<1>1. ASSUME NEW z \in Zones
      PROVE  /\ heatmap'[z] = heatmap[z]
                \/ (heatmap'[z].count = batch[z] /\ batch[z] \in Nat /\ batch[z] <= sent[z])
             /\ sent'[z] \in Nat /\ sent[z] \in Nat /\ sent[z] <= sent'[z]
  <2>1. sent[z] \in Nat
    BY DEF EngineTypes
  <2>2. CASE UNCHANGED <<heatmap, sent>>
    BY <2>1, <2>2
  <2>3. ASSUME NEW y \in Zones, StoreZone(y)
        PROVE  /\ heatmap'[z] = heatmap[z]
                  \/ (heatmap'[z].count = batch[z] /\ batch[z] \in Nat /\ batch[z] <= sent[z])
               /\ sent'[z] \in Nat /\ sent[z] \in Nat /\ sent[z] <= sent'[z]
    <3>1. heatmap' = [heatmap EXCEPT ![y] = SnapshotOf(y)] /\ sent' = sent /\ batch[y] # NoData
      BY <2>3 DEF StoreZone
    <3>2. CASE z # y
      BY <2>1, <3>1, <3>2 DEF EngineTypes
    <3>3. CASE z = y
      <4>1. heatmap'[z] = SnapshotOf(z) /\ SnapshotOf(z).count = batch[z] /\ batch[z] \in Nat
        BY <3>1, <3>3, SnapshotTypes DEF EngineTypes
      <4>2. CountOf(batch[z]) = batch[z]
        BY <4>1, CountOfNat
      <4>3. CountIn(topic, z) + CountOf(window[z]) + CountOf(batch[z]) <= sent[z]
        BY DEF EngineBounds
      <4>4. CountIn(topic, z) \in Nat /\ CountOf(window[z]) \in Nat
        BY EngineNumbers
      <4>5. batch[z] <= sent[z]
        BY <2>1, <4>1, <4>2, <4>3, <4>4
      <4> QED  BY <2>1, <3>1, <4>1, <4>5
    <3> QED  BY <3>2, <3>3
  <2>4. ASSUME NEW y \in Zones, NEW n \in Counts, Transmit(y, n)
        PROVE  /\ heatmap'[z] = heatmap[z]
               /\ sent'[z] \in Nat /\ sent[z] \in Nat /\ sent[z] <= sent'[z]
    <3>1. n \in Nat
      BY CountsAssumption
    <3> QED  BY <2>1, <2>4, <3>1 DEF Transmit, redisVars, EngineTypes
  <2>5. CASE UNCHANGED heatmapVars
    BY <2>1, <2>5 DEF heatmapVars
  <2>6. ASSUME \/ Consume \/ CommitOffset \/ PublishZone \/ PublishFails \/ Crash \/ Deliver \/ Tick
               \/ \E y \in Zones : StoreFails(y)
        PROVE  UNCHANGED <<heatmap, sent>>
    BY <2>6 DEF Consume, CommitOffset, PublishZone, PublishFails, Crash, Deliver, Tick, StoreFails,
            redisVars, historyVars
  <2> QED  BY <2>2, <2>3, <2>4, <2>5, <2>6 DEF HeatmapNext, Engine
<1>2. ASSUME NEW z \in Zones, heatmap'[z] # NoData PROVE heatmap'[z].count <= sent'[z]
  <2>1. CASE heatmap'[z] = heatmap[z]
    <3>1. heatmap[z] \in Snapshots /\ heatmap[z].count <= sent[z]
      BY <1>2, <2>1 DEF EngineTypes, SnapshotNotInflated
    <3>2. heatmap[z].count \in Nat
      BY <3>1 DEF Snapshots
    <3> DEFINE S1 == sent'[z]
               c == heatmap[z].count
    <3>3. c \in Nat /\ c <= sent[z] /\ sent[z] <= S1 /\ S1 \in Nat /\ sent[z] \in Nat
      BY <1>1, <3>1, <3>2
    <3> HIDE DEF S1, c
    <3>4. c <= S1
      BY <3>3
    <3> QED  BY <2>1, <3>4 DEF S1, c
  <2>2. CASE heatmap'[z] # heatmap[z]
    <3> DEFINE S1 == sent'[z]
               b == batch[z]
    <3>1. b \in Nat /\ b <= sent[z] /\ sent[z] <= S1 /\ S1 \in Nat /\ sent[z] \in Nat
      BY <1>1, <2>2
    <3>2. heatmap'[z].count = b
      BY <1>1, <2>2
    <3> HIDE DEF S1, b
    <3>3. b <= S1
      BY <3>1
    <3> QED  BY <3>2, <3>3 DEF S1
  <2> QED  BY <2>1, <2>2
<1> QED  BY <1>2 DEF SnapshotNotInflated

\* HSET comes before PUBLISH in the same iteration, and no other step of the
\* sequential consumer comes between (store.py, consumer.py).
LEMMA StoredStep ==
  ASSUME EngineTypes, EngineStored, [HeatmapNext]_heatmapVars
  PROVE  EngineStored'
<1>1. ASSUME NEW z \in Zones, StoreZone(z) PROVE EngineStored'
  <2>1. SnapshotOf(z).zone = z
    BY DEF SnapshotOf
  <2> QED  BY <1>1, <2>1 DEF StoreZone, EngineStored, EngineTypes
<1>2. CASE PublishZone \/ PublishFails \/ Crash
  BY <1>2 DEF PublishZone, PublishFails, Crash, EngineStored
<1>3. ASSUME \/ Consume \/ CommitOffset \/ Deliver \/ Tick \/ \E y \in Zones : StoreFails(y)
             \/ \E y \in Zones, n \in Counts : Transmit(y, n)
      PROVE  UNCHANGED <<heatmap, unpublished>>
  BY <1>3 DEF Consume, CommitOffset, Deliver, Tick, StoreFails, Transmit, redisVars, engineVars
<1>4. CASE UNCHANGED heatmapVars
  BY <1>4 DEF heatmapVars, EngineStored
<1> QED  BY <1>1, <1>2, <1>3, <1>4 DEF HeatmapNext, Engine, EngineStored

\* The invariant is inductive.
LEMMA EngineStep == EngineInv /\ [HeatmapNext]_heatmapVars => EngineInv'
<1> SUFFICES ASSUME EngineInv, [HeatmapNext]_heatmapVars PROVE EngineInv'
  OBVIOUS
<1>1. EngineTypes /\ EngineBounds /\ EngineStored /\ EachReadingOnce
  BY DEF EngineInv
<1>2. \A z \in Zones : Counted(z)'
  BY <1>1, CountedMeaning, CountedStep
<1>3. EngineBounds' /\ EachReadingOnce'
  BY <1>2 DEF Counted, EngineBounds, EachReadingOnce
<1> QED  BY <1>1, <1>3, EngineTypesStep, SnapshotStep, StoredStep DEF EngineInv

\* Until a crash each transmitted reading is on the topic, in the window, in the
\* batch or processed, and in one of them only, for any zones, counts, windows,
\* failed Redis writes and commits (consumer.py, aggregator.py).
THEOREM ReadingsCountedOnce == HeatmapSpec => []EachReadingOnce
<1>1. EngineInv => EachReadingOnce
  BY DEF EngineInv
<1>2. EngineInv /\ [HeatmapNext]_heatmapVars => EngineInv'
  BY EngineStep
<1> QED  BY <1>1, <1>2, EngineInit, PTL DEF HeatmapSpec

\* No stored snapshot counts more heads than were transmitted for its zone, over
\* any number of crashes and of readings consumed again.
THEOREM SnapshotsNotInflated == HeatmapSpec => []SnapshotNotInflated
<1>1. EngineInv => SnapshotNotInflated
  BY DEF EngineInv
<1>2. EngineInv /\ [HeatmapNext]_heatmapVars => EngineInv'
  BY EngineStep
<1> QED  BY <1>1, <1>2, EngineInit, PTL DEF HeatmapSpec

\* A longer channel is one on which the stored snapshot was published.
LEMMA PublishStep ==
  ASSUME EngineTypes, EngineStored, [HeatmapNext]_heatmapVars, Len(channel') > Len(channel)
  PROVE  heatmap'[channel'[Len(channel')].zone] = channel'[Len(channel')]
<1>0. channel \in Seq(Snapshots) /\ Len(channel) \in Nat
  BY LenProperties DEF EngineTypes
<1>a. ASSUME channel' = channel PROVE FALSE
  BY <1>0, <1>a
<1>1. CASE PublishZone
  <2>1. /\ unpublished # NoData /\ unpublished \in Snapshots
        /\ channel' = Append(channel, unpublished) /\ heatmap' = heatmap
    BY <1>1 DEF PublishZone, EngineTypes
  <2>2. channel'[Len(channel')] = unpublished
    BY <1>0, <2>1
  <2> QED  BY <2>1, <2>2 DEF EngineStored
<1>2. CASE Deliver
  <2>1. channel # <<>> /\ channel' = Tail(channel)
    BY <1>2 DEF Deliver
  <2>2. Len(channel') = Len(channel) - 1
    BY <1>0, <2>1, HeadTailProperties
  <2> DEFINE n == Len(channel')
  <2>3. n = Len(channel) - 1 /\ n > Len(channel)
    BY <2>2
  <2> HIDE DEF n
  <2> QED  BY <1>0, <2>3
<1>3. CASE UNCHANGED heatmapVars \/ Consume \/ CommitOffset \/ PublishFails \/ Crash \/ Tick
  BY <1>a, <1>3 DEF heatmapVars, Consume, CommitOffset, PublishFails, Crash, Tick, redisVars
<1>4. ASSUME NEW z \in Zones, \/ StoreZone(z) \/ StoreFails(z) \/ \E n \in Counts : Transmit(z, n)
      PROVE  FALSE
  BY <1>a, <1>4 DEF StoreZone, StoreFails, Transmit, redisVars
<1> QED  BY <1>1, <1>2, <1>3, <1>4 DEF HeatmapNext, Engine

\* What is published is in the hash at that moment: a subscriber that reads the
\* hash on a message finds it (store.py).
THEOREM StoredBeforePublished == HeatmapSpec => PublishedIsStored
<1>1. EngineInv /\ [HeatmapNext]_heatmapVars => EngineInv'
  BY EngineStep
<1>2. EngineInv /\ [HeatmapNext]_heatmapVars =>
        [Len(channel') > Len(channel) =>
            LET m == channel'[Len(channel')] IN heatmap'[m.zone] = m]_heatmapVars
  BY PublishStep DEF EngineInv
<1> QED  BY <1>1, <1>2, EngineInit, PTL DEF HeatmapSpec, PublishedIsStored
=============================================================================
