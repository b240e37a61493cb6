----------------------------- MODULE MoneyProofs -----------------------------
(***************************************************************************)
(* What the money operators of payments.service.ts guarantee for every     *)
(* amount, how totals over the rows of a table change, and what a posting  *)
(* in Ledger's books does.                                                 *)
(***************************************************************************)
EXTENDS Money, Ledger, FiniteSetTheorems, WellFoundedInduction, TLAPS

(* capturePaymentForTrip: the driver's share and the commission are        *)
(* natural numbers that add up to the gross amount.                        *)
THEOREM SplitIsExact ==
  ASSUME NEW g \in Nat
  PROVE  /\ DriverShare(g) \in Nat
         /\ CommissionShare(g) \in Nat
         /\ DriverShare(g) + CommissionShare(g) = g
  BY DEF DriverShare, CommissionShare, CalculateShare, DRIVER_EARNINGS_BPS,
         BPS_DENOMINATOR

(* reverseFullRefundLedger rounds the commission down, capture rounded the *)
(* driver's share down: the refund takes back at most the commission and   *)
(* leaves at most one minor unit, exactly when five does not divide gross. *)
THEOREM RefundResidue ==
  ASSUME NEW g \in Nat
  PROVE  CommissionShare(g) - ReversedCommission(g)
           = IF g % 5 = 0 THEN 0 ELSE 1
  BY DEF DriverShare, CommissionShare, ReversedCommission, CalculateShare,
         DRIVER_EARNINGS_BPS, PLATFORM_COMMISSION_BPS, BPS_DENOMINATOR

(* Two digits are their own normalised fraction: nothing is padded.        *)
LEMMA TwoDigits ==
  ASSUME NEW a \in Nat, NEW b \in Nat
  PROVE  NormalizedFraction(<<a, b>>) = a * 10 + b
  BY DEF NormalizedFraction, DigitAt

(* minorUnitsToDecimal then decimalToMinorUnits, as every amount that is   *)
(* stored and read again: the identity on amounts that are not negative.   *)
THEOREM RoundTrip ==
  ASSUME NEW n \in Nat
  PROVE  DecimalToMinorUnits(MinorUnitsToDecimal(n)) = n
<1> DEFINE tens == (n % 100) \div 10
           ones == n % 10
<1>1. MinorUnitsToDecimal(n)
        = [neg |-> FALSE, whole |-> n \div 100, frac |-> <<tens, ones>>]
  <2>1. (n < 0) = FALSE
    OBVIOUS
  <2>2. (IF n < 0 THEN -n ELSE n) = n
    BY <2>1
  <2>3. MinorUnitsToDecimal(n)
          = [neg |-> n < 0, whole |-> n \div 100, frac |-> <<tens, ones>>]
    BY <2>2, Zenon DEF MinorUnitsToDecimal
  <2> QED
    BY <2>1, <2>3, Zenon
<1>2. tens \in Nat /\ ones \in Nat
  OBVIOUS
<1>3. NormalizedFraction(<<tens, ones>>) = tens * 10 + ones
  BY <1>2, TwoDigits
<1>4. (n \div 100) * 100 + (tens * 10 + ones) = n
  OBVIOUS
<1> HIDE DEF tens, ones
<1>5. DecimalToMinorUnits(MinorUnitsToDecimal(n))
        = (n \div 100) * 100 + NormalizedFraction(<<tens, ones>>)
  BY <1>1 DEF DecimalToMinorUnits
<1> QED
  BY <1>3, <1>4, <1>5
-----------------------------------------------------------------------------
(* Totals.  The community modules' SumFunctionOnSet(w, S) is a recursive   *)
(* function taken with CHOOSE; these lemmas say what it is for every       *)
(* finite S, by looking at a smallest subset for which they would fail.    *)

(* g is the sum of w over every subset of S, whatever is taken out first.  *)
Additive(g, w, S) ==
  /\ g \in [SUBSET S -> Int]
  /\ g[{}] = 0
  /\ \A s \in SUBSET S : \A x \in s : g[s] = w[x] + g[s \ {x}]

LEMMA SmallestSubset ==
  ASSUME NEW S, IsFiniteSet(S), NEW B \in SUBSET SUBSET S, B # {}
  PROVE  \E T \in B : \A U \in B : U \subseteq T => U = T
<1>1. IsWellFoundedOn(StrictSubsetOrdering(S), SUBSET S)
  BY FS_StrictSubsetOrderingWellFounded, FS_FiniteSubsetsOfFinite
<1>2. \E T \in B : \A U \in B : ~ (<<U, T>> \in StrictSubsetOrdering(S))
  BY <1>1, WFMin
<1> QED
  BY <1>2 DEF StrictSubsetOrdering

LEMMA AdditiveExists ==
  ASSUME NEW S, IsFiniteSet(S), NEW w, \A x \in S : w[x] \in Int
  PROVE  \E g : Additive(g, w, S)
<1> DEFINE B == {T \in SUBSET S : ~ \E g : Additive(g, w, T)}
<1>1. SUFFICES ASSUME B # {} PROVE FALSE
  OBVIOUS
<1>2. PICK T \in B : \A U \in B : U \subseteq T => U = T
  <2>1. B \in SUBSET SUBSET S
    OBVIOUS
  <2> HIDE DEF B
  <2> QED
    BY <1>1, <2>1, SmallestSubset
<1>3. T # {}
  <2>1. Additive([s \in SUBSET {} |-> 0], w, {})
    BY DEF Additive
  <2> QED
    BY <2>1
<1>4. PICK a \in T : TRUE
  BY <1>3
<1>5. PICK g : Additive(g, w, T \ {a})
  BY <1>2, <1>4
<1>6. w[a] \in Int /\ \A s \in SUBSET T : g[s \ {a}] \in Int
  BY <1>5 DEF Additive
<1>7. PICK h \in [SUBSET T -> Int] :
        \A s \in SUBSET T :
          /\ a \in s => h[s] = g[s \ {a}] + w[a]
          /\ a \notin s => h[s] = g[s \ {a}]
  <2> DEFINE f == [s \in SUBSET T |-> IF a \in s THEN g[s \ {a}] + w[a]
                                     ELSE g[s \ {a}]]
  <2>1. f \in [SUBSET T -> Int]
    BY <1>6
  <2>2. \A s \in SUBSET T : /\ a \in s => f[s] = g[s \ {a}] + w[a]
                            /\ a \notin s => f[s] = g[s \ {a}]
    OBVIOUS
  <2> QED
    BY <2>1, <2>2
<1>8. ASSUME NEW s \in SUBSET T, NEW x \in s
      PROVE  h[s] = w[x] + h[s \ {x}]
  <2>1. w[x] \in Int /\ s \ {x} \in SUBSET T
    OBVIOUS
  <2>2. CASE x = a
    <3>1. (s \ {x}) \ {a} = s \ {a} /\ a \in s /\ a \notin s \ {x}
      BY <2>2
    <3>2. h[s] = g[s \ {a}] + w[a]
      BY <1>7, <3>1
    <3>3. h[s \ {x}] = g[(s \ {x}) \ {a}]
      BY <1>7, <2>1, <3>1
    <3>4. h[s \ {x}] = g[s \ {a}]
      BY <3>1, <3>3
    <3>5. w[a] \in Int /\ g[s \ {a}] \in Int
      BY <1>6
    <3> QED
      BY ONLY <2>2, <3>2, <3>4, <3>5
  <2>3. CASE x # a
    <3>1. g[s \ {a}] = w[x] + g[(s \ {a}) \ {x}]
      BY <1>5, <2>3 DEF Additive
    <3>2. (s \ {a}) \ {x} = (s \ {x}) \ {a}
      OBVIOUS
    <3>7. g[s \ {a}] = w[x] + g[(s \ {x}) \ {a}]
      BY <3>1, <3>2
    <3>3. g[(s \ {x}) \ {a}] \in Int /\ w[a] \in Int
      BY <1>6, <2>1
    <3>4. a \in s <=> a \in s \ {x}
      BY <2>3
    <3>5. CASE a \in s
      <4>1. h[s] = g[s \ {a}] + w[a]
        BY <1>7, <3>5
      <4>2. h[s \ {x}] = g[(s \ {x}) \ {a}] + w[a]
        BY <1>7, <2>1, <3>4, <3>5
      <4> QED
        BY ONLY <2>1, <3>3, <3>7, <4>1, <4>2
    <3>6. CASE a \notin s
      <4>1. h[s] = g[s \ {a}]
        BY <1>7, <3>6
      <4>2. h[s \ {x}] = g[(s \ {x}) \ {a}]
        BY <1>7, <2>1, <3>4, <3>6
      <4> QED
        BY ONLY <2>1, <3>3, <3>7, <4>1, <4>2
    <3> QED
      BY <3>5, <3>6
  <2> QED
    BY <2>2, <2>3
<1>0. h[{}] = 0
  BY <1>5, <1>7 DEF Additive
<1>9. Additive(h, w, T)
  BY <1>0, <1>7, <1>8 DEF Additive
<1> QED
  BY <1>2, <1>9

LEMMA SumIsAdditive ==
  ASSUME NEW S, IsFiniteSet(S), NEW w, NEW g, Additive(g, w, S)
  PROVE  SumFunctionOnSet(w, S) = g[S]
<1> DEFINE Is(i) == i = [s \in SUBSET S |->
             IF s = {} THEN 0
             ELSE w[CHOOSE x \in s : TRUE] + i[s \ {CHOOSE x \in s : TRUE}]]
           iter == CHOOSE i : Is(i)
<1>1. SumFunctionOnSet(w, S) = iter[S]
  BY DEF SumFunctionOnSet, FoldFunctionOnSet, MapThenFoldSet
<1>2. Is(g)
  BY DEF Additive
<1>3. Is(iter)
  BY <1>2
<1> HIDE DEF iter
<1> DEFINE B == {s \in SUBSET S : iter[s] # g[s]}
<1>4. SUFFICES ASSUME B # {} PROVE FALSE
  BY <1>1
<1>5. PICK T \in B : \A U \in B : U \subseteq T => U = T
  <2>1. B \in SUBSET SUBSET S
    OBVIOUS
  <2> HIDE DEF B
  <2> QED
    BY <1>4, <2>1, SmallestSubset
<1>6. CASE T = {}
  BY <1>3, <1>5, <1>6 DEF Additive
<1>7. CASE T # {}
  <2> DEFINE x == CHOOSE x \in T : TRUE
  <2>1. x \in T
    BY <1>7
  <2>2. iter[T] = w[x] + iter[T \ {x}]
    BY <1>3, <1>7
  <2>3. g[T] = w[x] + g[T \ {x}]
    BY <2>1 DEF Additive
  <2>4. T \ {x} \notin B /\ T \ {x} \in SUBSET S
    BY <1>5, <2>1
  <2> QED
    BY <1>5, <2>2, <2>3, <2>4
<1> QED
  BY <1>6, <1>7

LEMMA SumIsInt ==
  ASSUME NEW S, IsFiniteSet(S), NEW w, \A x \in S : w[x] \in Int
  PROVE  SumFunctionOnSet(w, S) \in Int
<1>1. PICK g : Additive(g, w, S)
  BY AdditiveExists
<1>2. SumFunctionOnSet(w, S) = g[S]
  BY <1>1, SumIsAdditive
<1> QED
  BY <1>1, <1>2 DEF Additive

LEMMA SumOfNone ==
  ASSUME NEW w
  PROVE  SumFunctionOnSet(w, {}) = 0
<1>1. IsFiniteSet({})
  BY FS_EmptySet
<1>2. PICK g : Additive(g, w, {})
  <2>1. \A x \in {} : w[x] \in Int
    OBVIOUS
  <2> QED
    BY ONLY <1>1, <2>1, AdditiveExists
<1> QED
  BY <1>1, <1>2, SumIsAdditive DEF Additive

(* One more summand.                                                       *)
LEMMA SumGrows ==
  ASSUME NEW S, IsFiniteSet(S), NEW a, a \notin S,
         NEW w, \A x \in S \cup {a} : w[x] \in Int
  PROVE  SumFunctionOnSet(w, S \cup {a}) = w[a] + SumFunctionOnSet(w, S)
<1>1. IsFiniteSet(S \cup {a})
  BY FS_AddElement
<1>2. PICK g : Additive(g, w, S \cup {a})
  BY <1>1, AdditiveExists
<1>3. SumFunctionOnSet(w, S \cup {a}) = g[S \cup {a}]
  BY <1>1, <1>2, SumIsAdditive
<1> DEFINE h == [s \in SUBSET S |-> g[s]]
<1>4. Additive(h, w, S)
  BY <1>2 DEF Additive
<1>5. SumFunctionOnSet(w, S) = g[S]
  <2>1. h[S] = g[S]
    OBVIOUS
  <2> HIDE DEF h
  <2> QED
    BY <1>4, <2>1, SumIsAdditive
<1>6. g[S \cup {a}] = w[a] + g[(S \cup {a}) \ {a}]
  BY <1>2 DEF Additive
<1>7. (S \cup {a}) \ {a} = S
  OBVIOUS
<1> QED
  BY <1>3, <1>5, <1>6, <1>7

(* The sum depends on the summands only.                                   *)
LEMMA SumOfSame ==
  ASSUME NEW S, IsFiniteSet(S), NEW w, NEW v,
         \A x \in S : w[x] \in Int /\ v[x] = w[x]
  PROVE  SumFunctionOnSet(v, S) = SumFunctionOnSet(w, S)
<1>1. PICK g : Additive(g, w, S)
  BY AdditiveExists
<1>2. Additive(g, v, S)
  BY <1>1 DEF Additive
<1> QED
  BY <1>1, <1>2, SumIsAdditive

(* One summand changes.                                                    *)
LEMMA SumChanges ==
  ASSUME NEW S, IsFiniteSet(S), NEW a \in S, NEW w, NEW v, v[a] \in Int,
         \A x \in S : w[x] \in Int,
         \A x \in S \ {a} : v[x] = w[x]
  PROVE  SumFunctionOnSet(v, S) = SumFunctionOnSet(w, S) + (v[a] - w[a])
<1> DEFINE R == S \ {a}
<1>1. IsFiniteSet(R) /\ a \notin R /\ S = R \cup {a}
  BY FS_RemoveElement
<1>2. /\ \A x \in R \cup {a} : w[x] \in Int
      /\ \A x \in R \cup {a} : v[x] \in Int
      /\ \A x \in R : w[x] \in Int /\ v[x] = w[x]
  OBVIOUS
<1> HIDE DEF R
<1>3. SumFunctionOnSet(w, S) = w[a] + SumFunctionOnSet(w, R)
  BY <1>1, <1>2, SumGrows
<1>4. SumFunctionOnSet(v, S) = v[a] + SumFunctionOnSet(v, R)
  BY <1>1, <1>2, SumGrows
<1>5. SumFunctionOnSet(v, R) = SumFunctionOnSet(w, R)
  BY <1>1, <1>2, SumOfSame
<1>6. SumFunctionOnSet(w, R) \in Int
  BY <1>1, <1>2, SumIsInt
<1> QED
  BY <1>3, <1>4, <1>5, <1>6

(* One more summand, while the others are computed anew.                   *)
LEMMA SumExtends ==
  ASSUME NEW S, IsFiniteSet(S), NEW a, a \notin S, NEW w, NEW v,
         v[a] \in Int, \A x \in S : w[x] \in Int /\ v[x] = w[x]
  PROVE  SumFunctionOnSet(v, S \cup {a}) = SumFunctionOnSet(w, S) + v[a]
<1>1. \A x \in S \cup {a} : v[x] \in Int
  OBVIOUS
<1>2. SumFunctionOnSet(v, S \cup {a}) = v[a] + SumFunctionOnSet(v, S)
  BY <1>1, SumGrows
<1>3. SumFunctionOnSet(v, S) = SumFunctionOnSet(w, S)
  BY SumOfSame
<1>4. SumFunctionOnSet(w, S) \in Int
  BY SumIsInt
<1> QED
  BY <1>2, <1>3, <1>4

(* Nothing adds up to nothing.                                             *)
LEMMA SumOfZeros ==
  ASSUME NEW S, IsFiniteSet(S), NEW w, \A x \in S : w[x] = 0
  PROVE  SumFunctionOnSet(w, S) = 0
<1> DEFINE g == [s \in SUBSET S |-> 0]
<1>1. Additive(g, w, S)
  BY DEF Additive
<1>2. g[S] = 0
  OBVIOUS
<1> HIDE DEF g
<1> QED
  BY <1>1, <1>2, SumIsAdditive
-----------------------------------------------------------------------------
(* The books of Ledger.                                                    *)

(* recordAccountEvent and recordWalletEvent: the reference is on record    *)
(* afterwards, nothing else is, and balances stay integers.                *)
LEMMA PostFacts ==
  ASSUME NEW b, b.balance \in [Holders -> Int],
         NEW ref, NEW h \in Holders, NEW a \in Int
  PROVE  /\ Post(b, ref, h, a).refs = b.refs \cup {ref}
         /\ Post(b, ref, h, a).balance \in [Holders -> Int]
<1>1. CASE ref \in b.refs
  BY <1>1 DEF Post
<1>2. CASE ref \notin b.refs
  BY <1>2 DEF Post
<1> QED
  BY <1>1, <1>2

(* recordAccountEvent and recordWalletEvent move money once per reference, *)
(* and only the holder they name.                                          *)
PostMoved(b, ref, h, a, c) ==
  /\ c.refs = b.refs \cup {ref}
  /\ c.balance \in [Holders -> Int]
  /\ \A k \in Holders \ {h} : c.balance[k] = b.balance[k]
  /\ c.balance[h] = b.balance[h] + (IF ref \in b.refs THEN 0 ELSE a)

LEMMA PostMoves ==
  ASSUME NEW b, b.balance \in [Holders -> Int],
         NEW ref, NEW h \in Holders, NEW a \in Int
  PROVE  PostMoved(b, ref, h, a, Post(b, ref, h, a))
<1>1. CASE ref \in b.refs
  BY <1>1 DEF Post, PostMoved
<1>2. CASE ref \notin b.refs
  BY <1>2 DEF Post, PostMoved
<1> QED
  BY <1>1, <1>2
=============================================================================
