----------------------------- MODULE SumTheorems -----------------------------
(***************************************************************************)
(* Sums over finite sets (SumFunctionOnSet of the community modules), as   *)
(* far as the theorems about money need them.  The sum is a recursive      *)
(* function over the subsets of its index set; the induction over finite   *)
(* sets that gives it a value is carried out on sets of counterexamples,   *)
(* which have a smallest member (FiniteMinimal), and so is induction over  *)
(* the natural numbers where other theorems need it (NatMinimal, Steps).   *)
(* A recursive function over the first natural numbers has the values its  *)
(* definition gives it (Recursion).                                        *)
(***************************************************************************)
EXTENDS FiniteSetsExt, FiniteSetTheorems, TLAPS

(* A set of subsets of a finite set has a member that includes no other.  *)
LEMMA FiniteMinimal ==
  ASSUME NEW S, IsFiniteSet(S), NEW A \in SUBSET (SUBSET S), A # {}
  PROVE  \E T \in A : \A U \in A : U \subseteq T => U = T
<1>1. FiniteSubsetsOf(S) = SUBSET S
  BY FS_FiniteSubsetsOfFinite
<1>2. IsWellFoundedOn(StrictSubsetOrdering(S), SUBSET S)
  BY <1>1, FS_StrictSubsetOrderingWellFounded
<1>3. PICK T \in A : \A U \in A : ~ (<<U, T>> \in StrictSubsetOrdering(S))
  BY <1>2, WFMin
<1>4. \A U \in A : U \subseteq T => U = T
  <2>1. SUFFICES ASSUME NEW U \in A, U \subseteq T, U # T PROVE FALSE
    OBVIOUS
  <2>2. <<U, T>> \in StrictSubsetOrdering(S)
    BY <2>1 DEF StrictSubsetOrdering
  <2>3. QED
    BY <2>2, <1>3
<1>5. QED
  BY <1>4

(* Induction: a set of subsets of S that has the empty one and, with each  *)
(* of its members, those with one element more, has S.                     *)
LEMMA FiniteGrowth ==
  ASSUME NEW S, IsFiniteSet(S), NEW A, {} \in A,
         \A T \in SUBSET S, x \in S : T \in A /\ x \notin T => T \cup {x} \in A
  PROVE  S \in A
<1> DEFINE Bad == {T \in SUBSET S : T \notin A}
<1>1. SUFFICES ASSUME Bad # {} PROVE FALSE
  OBVIOUS
<1>2. PICK t \in Bad : \A u \in Bad : u \subseteq t => u = t
  <2>1. Bad \in SUBSET (SUBSET S)
    OBVIOUS
  <2> HIDE DEF Bad
  <2>2. QED
    BY <1>1, <2>1, FiniteMinimal
<1>3. PICK x \in t : TRUE
  OBVIOUS
<1>4. t \ {x} \in A
  BY <1>2
<1>5. t = (t \ {x}) \cup {x}
  OBVIOUS
<1>6. QED
  BY <1>4, <1>5

(* A set of natural numbers has a least one.  *)
LEMMA NatMinimal ==
  ASSUME NEW A \in SUBSET Nat, A # {}
  PROVE  \E m \in A : \A n \in A : m <= n
<1>1. PICK k \in A : TRUE
  OBVIOUS
<1> DEFINE B == {0..n : n \in {i \in A : i <= k}}
           C == 0..k
<1>2. B \in SUBSET (SUBSET C) /\ B # {}
  BY <1>1
<1>3. IsFiniteSet(C)
  BY FS_Interval
<1>4. PICK T \in B : \A U \in B : U \subseteq T => U = T
  <2> HIDE DEF B, C
  <2>1. QED
    BY <1>2, <1>3, FiniteMinimal
<1>5. PICK m \in A : m <= k /\ T = 0..m
  OBVIOUS
<1>6. ASSUME NEW n \in A PROVE m <= n
  <2>1. SUFFICES ASSUME n < m PROVE FALSE
    OBVIOUS
  <2>2. n <= k /\ m \in Nat /\ n \in Nat
    BY <1>5, <2>1
  <2>3. 0..n \in B /\ 0..n \subseteq T /\ m \in T /\ m \notin 0..n
    BY <1>5, <2>1, <2>2
  <2> HIDE DEF B
  <2>4. QED
    BY <1>4, <2>3
<1>7. QED
  BY <1>6

-----------------------------------------------------------------------------
(* The function the sum over S recurs with. *)

Picked(s) == CHOOSE x \in s : TRUE

SumsUp(g, f, S) ==
  g = [s \in SUBSET S |-> IF s = {} THEN 0 ELSE f[Picked(s)] + g[s \ {Picked(s)}]]

LEMMA PickedIn == ASSUME NEW s, s # {} PROVE Picked(s) \in s
BY DEF Picked

LEMMA SumUnfold ==
  ASSUME NEW f, NEW S
  PROVE  SumFunctionOnSet(f, S) = (CHOOSE g : SumsUp(g, f, S))[S]
BY DEF SumFunctionOnSet, FoldFunctionOnSet, MapThenFoldSet, SumsUp, Picked

(* Two such functions agree wherever both are defined. *)
LEMMA SumsUpUnique ==
  ASSUME NEW f, NEW S, NEW R, NEW g, NEW h, SumsUp(g, f, S), SumsUp(h, f, R),
         NEW s \in SUBSET S, s \in SUBSET R, IsFiniteSet(s)
  PROVE  g[s] = h[s]
<1> DEFINE Bad == {t \in SUBSET s : g[t] # h[t]}
<1>1. SUFFICES ASSUME Bad # {} PROVE FALSE
  OBVIOUS
<1>2. PICK t \in Bad : \A u \in Bad : u \subseteq t => u = t
  <2>1. Bad \in SUBSET (SUBSET s)
    OBVIOUS
  <2> HIDE DEF Bad
  <2>2. QED
    BY <1>1, <2>1, FiniteMinimal
<1>3. t \in SUBSET S /\ t \in SUBSET R
  OBVIOUS
<1>4. g[t] = IF t = {} THEN 0 ELSE f[Picked(t)] + g[t \ {Picked(t)}]
  BY <1>3 DEF SumsUp
<1>5. h[t] = IF t = {} THEN 0 ELSE f[Picked(t)] + h[t \ {Picked(t)}]
  BY <1>3 DEF SumsUp
<1>6. t # {}
  BY <1>4, <1>5
<1>7. Picked(t) \in t
  BY <1>6, PickedIn
<1>8. t \ {Picked(t)} \notin Bad
  BY <1>2, <1>7
<1>9. g[t \ {Picked(t)}] = h[t \ {Picked(t)}]
  BY <1>8
<1>10. QED
  BY <1>4, <1>5, <1>6, <1>9

LEMMA SumsUpExists ==
  ASSUME NEW f, NEW S, IsFiniteSet(S)
  PROVE  \E g : SumsUp(g, f, S)
<1> DEFINE Bad == {t \in SUBSET S : ~ \E g : SumsUp(g, f, t)}
<1>1. SUFFICES ASSUME Bad # {} PROVE FALSE
  OBVIOUS
<1>2. PICK t \in Bad : \A u \in Bad : u \subseteq t => u = t
  <2>1. Bad \in SUBSET (SUBSET S)
    OBVIOUS
  <2> HIDE DEF Bad
  <2>2. QED
    BY <1>1, <2>1, FiniteMinimal
<1> DEFINE G(u) == CHOOSE g : SumsUp(g, f, u)
           val == [s \in SUBSET t |-> IF s = {} THEN 0
                                      ELSE f[Picked(s)] + G(s \ {Picked(s)})[s \ {Picked(s)}]]
<1>3. ASSUME NEW u \in SUBSET t, u # t PROVE SumsUp(G(u), f, u)
  <2>1. u \notin Bad
    BY <1>2, <1>3
  <2>2. \E g : SumsUp(g, f, u)
    BY <2>1
  <2>3. QED
    BY <2>2
<1>4. ASSUME NEW s \in SUBSET t, s # {}
      PROVE  val[s \ {Picked(s)}] = G(s \ {Picked(s)})[s \ {Picked(s)}]
  <2> DEFINE r == s \ {Picked(s)}
  <2>1. Picked(s) \in s
    BY <1>4, PickedIn
  <2>2. r \in SUBSET t /\ r # t
    BY <2>1
  <2>3. SumsUp(G(r), f, r)
    BY <2>2, <1>3
  <2>4. CASE r = {}
    <3>1. val[r] = 0
      BY <2>4, <2>2
    <3>2. G(r)[r] = 0
      BY <2>3, <2>4 DEF SumsUp
    <3>3. QED
      BY <3>1, <3>2
  <2>5. CASE r # {}
    <3> DEFINE q == r \ {Picked(r)}
    <3>1. Picked(r) \in r
      BY <2>5, PickedIn
    <3>2. q \in SUBSET t /\ q # t /\ q \in SUBSET r
      BY <2>2, <3>1
    <3>3. SumsUp(G(q), f, q)
      BY <3>2, <1>3
    <3>4. IsFiniteSet(q)
      BY <3>2, FS_Subset
    <3>5. G(r)[q] = G(q)[q]
      <4>1. q \in SUBSET q
        OBVIOUS
      <4> HIDE DEF G, q, r
      <4>2. QED
        BY <2>3, <3>2, <3>3, <3>4, <4>1, SumsUpUnique
    <3>6. G(r)[r] = f[Picked(r)] + G(r)[q]
      <4> HIDE DEF G
      <4>1. r \in SUBSET r
        OBVIOUS
      <4>2. QED
        BY <2>3, <2>5, <4>1 DEF SumsUp
    <3>7. val[r] = f[Picked(r)] + G(q)[q]
      BY <2>2, <2>5
    <3>8. QED
      BY <3>5, <3>6, <3>7
  <2>6. QED
    BY <2>4, <2>5
<1>5. val = [s \in SUBSET t |-> IF s = {} THEN 0 ELSE f[Picked(s)] + val[s \ {Picked(s)}]]
  <2>1. \A s \in SUBSET t :
          (IF s = {} THEN 0 ELSE f[Picked(s)] + val[s \ {Picked(s)}])
            = (IF s = {} THEN 0 ELSE f[Picked(s)] + G(s \ {Picked(s)})[s \ {Picked(s)}])
    <3> HIDE DEF val, G
    <3>1. QED
      BY <1>4
  <2> DEFINE A(s) == IF s = {} THEN 0 ELSE f[Picked(s)] + val[s \ {Picked(s)}]
             B(s) == IF s = {} THEN 0 ELSE f[Picked(s)] + G(s \ {Picked(s)})[s \ {Picked(s)}]
  <2>2. \A s \in SUBSET t : A(s) = B(s)
    BY <2>1
  <2>3. val = [s \in SUBSET t |-> B(s)]
    OBVIOUS
  <2>4. [s \in SUBSET t |-> A(s)] = [s \in SUBSET t |-> B(s)]
    <3> HIDE DEF A, B
    <3>1. QED
      BY <2>2
  <2> HIDE DEF val, G
  <2>5. val = [s \in SUBSET t |-> A(s)]
    BY <2>3, <2>4
  <2>6. QED
    BY <2>5
<1>6. SumsUp(val, f, t)
  BY <1>5 DEF SumsUp
<1>7. QED
  BY <1>6

-----------------------------------------------------------------------------
(* The sum over a set from the sums over smaller ones. *)

LEMMA SumEmpty == \A f : SumFunctionOnSet(f, {}) = 0
<1> TAKE f
<1>1. PICK g : SumsUp(g, f, {})
  BY SumsUpExists, FS_EmptySet
<1>2. SumsUp(CHOOSE h : SumsUp(h, f, {}), f, {})
  BY <1>1
<1>3. (CHOOSE h : SumsUp(h, f, {}))[{}] = 0
  <2> DEFINE G == CHOOSE h : SumsUp(h, f, {})
  <2> HIDE DEF G
  <2>1. SumsUp(G, f, {})
    BY <1>2 DEF G
  <2>2. {} \in SUBSET {}
    OBVIOUS
  <2>3. G[{}] = 0
    BY <2>1, <2>2 DEF SumsUp
  <2>4. QED
    BY <2>3 DEF G
<1>4. QED
  BY <1>3, SumUnfold

LEMMA SumPicked ==
  ASSUME NEW f, NEW S, IsFiniteSet(S), S # {}
  PROVE  SumFunctionOnSet(f, S) = f[Picked(S)] + SumFunctionOnSet(f, S \ {Picked(S)})
<1> DEFINE R == S \ {Picked(S)}
           G == CHOOSE g : SumsUp(g, f, S)
           H == CHOOSE g : SumsUp(g, f, R)
<1>1. IsFiniteSet(R)
  BY FS_Subset
<1>2. SumsUp(G, f, S)
  BY SumsUpExists
<1>3. SumsUp(H, f, R)
  BY <1>1, SumsUpExists
<1>4. SumFunctionOnSet(f, S) = G[S] /\ SumFunctionOnSet(f, R) = H[R]
  BY SumUnfold
<1>5. R \in SUBSET S /\ R \in SUBSET R /\ S \in SUBSET S
  OBVIOUS
<1> HIDE DEF G, H
<1>6. G[S] = f[Picked(S)] + G[S \ {Picked(S)}]
  BY <1>2, <1>5 DEF SumsUp
<1>7. G[R] = H[R]
  <2> HIDE DEF R
  <2>1. QED
    BY <1>1, <1>2, <1>3, <1>5, SumsUpUnique
<1>8. QED
  BY <1>4, <1>6, <1>7

(* The sum of finitely many integers is an integer: balances, progress and entries *)
(* of the ledger can be added up.                                                  *)
THEOREM SumInt ==
  ASSUME NEW f, NEW S, IsFiniteSet(S), \A x \in S : f[x] \in Int
  PROVE  SumFunctionOnSet(f, S) \in Int
<1> DEFINE Bad == {t \in SUBSET S : SumFunctionOnSet(f, t) \notin Int}
<1>1. SUFFICES ASSUME Bad # {} PROVE FALSE
  OBVIOUS
<1>2. PICK t \in Bad : \A u \in Bad : u \subseteq t => u = t
  <2>1. Bad \in SUBSET (SUBSET S)
    OBVIOUS
  <2> HIDE DEF Bad
  <2>2. QED
    BY <1>1, <2>1, FiniteMinimal
<1>3. t # {}
  BY SumEmpty
<1>4. Picked(t) \in t
  BY <1>3, PickedIn
<1>5. SumFunctionOnSet(f, t \ {Picked(t)}) \in Int
  BY <1>2, <1>4
<1>6. SumFunctionOnSet(f, t) = f[Picked(t)] + SumFunctionOnSet(f, t \ {Picked(t)})
  BY <1>3, FS_Subset, SumPicked
<1>7. f[Picked(t)] \in Int
  BY <1>4
<1>8. SumFunctionOnSet(f, t) \in Int
  BY <1>5, <1>6, <1>7
<1>9. QED
  BY <1>8

(* Any element may be taken out first: the order in which rows are added up does   *)
(* not matter.                                                                     *)
THEOREM SumRemove ==
  ASSUME NEW f, NEW S, IsFiniteSet(S), \A x \in S : f[x] \in Int, NEW x \in S
  PROVE  SumFunctionOnSet(f, S) = f[x] + SumFunctionOnSet(f, S \ {x})
<1> DEFINE Splits(t, y) == SumFunctionOnSet(f, t) = f[y] + SumFunctionOnSet(f, t \ {y})
           Bad == {t \in SUBSET S : \E y \in t : ~Splits(t, y)}
<1>1. SUFFICES ASSUME Bad # {} PROVE FALSE
  OBVIOUS
<1>2. PICK t \in Bad : \A u \in Bad : u \subseteq t => u = t
  <2>1. Bad \in SUBSET (SUBSET S)
    OBVIOUS
  <2> HIDE DEF Bad
  <2>2. QED
    BY <1>1, <2>1, FiniteMinimal
<1>3. PICK y \in t : ~Splits(t, y)
  BY <1>2
<1>4. Picked(t) \in t
  BY <1>3, PickedIn
<1>5. \A u \in SUBSET t : IsFiniteSet(u)
  BY FS_Subset
<1>6. \A u \in SUBSET t : SumFunctionOnSet(f, u) \in Int
  BY <1>5, SumInt
<1>7. Splits(t, Picked(t))
  BY <1>3, <1>5, SumPicked
<1>8. y # Picked(t)
  BY <1>3, <1>7
<1> DEFINE c == Picked(t)
<1>9. t \ {c} \notin Bad /\ t \ {y} \notin Bad /\ y \in t \ {c} /\ c \in t \ {y}
  BY <1>2, <1>3, <1>4, <1>8
<1>10. Splits(t \ {c}, y) /\ Splits(t \ {y}, c)
  <2>1. t \ {c} \in SUBSET S /\ t \ {y} \in SUBSET S
    BY <1>2
  <2> HIDE DEF Splits, c
  <2>2. QED
    BY <2>1, <1>9
<1>11. (t \ {c}) \ {y} = (t \ {y}) \ {c}
  OBVIOUS
<1>12. f[c] \in Int /\ f[y] \in Int /\ SumFunctionOnSet(f, (t \ {c}) \ {y}) \in Int
  BY <1>3, <1>4, <1>6
<1>13. Splits(t, y)
  <2> DEFINE P == SumFunctionOnSet(f, (t \ {c}) \ {y})
  <2>1. SumFunctionOnSet(f, t) = f[c] + SumFunctionOnSet(f, t \ {c})
    BY <1>7
  <2>2. SumFunctionOnSet(f, t \ {c}) = f[y] + P
    BY <1>10
  <2>3. SumFunctionOnSet(f, t \ {y}) = f[c] + P
    BY <1>10, <1>11
  <2>4. P \in Int
    BY <1>12
  <2> HIDE DEF P, c
  <2>5. SumFunctionOnSet(f, t) = f[y] + SumFunctionOnSet(f, t \ {y})
    BY <2>1, <2>2, <2>3, <2>4, <1>12
  <2>6. QED
    BY <2>5
<1>14. QED
  BY <1>3, <1>13

(* One row more makes a sum larger by what is in that row. *)
THEOREM SumAdd ==
  ASSUME NEW f, NEW S, IsFiniteSet(S), NEW x, x \notin S, \A y \in S \cup {x} : f[y] \in Int
  PROVE  SumFunctionOnSet(f, S \cup {x}) = f[x] + SumFunctionOnSet(f, S)
<1>1. IsFiniteSet(S \cup {x})
  BY FS_AddElement
<1>2. (S \cup {x}) \ {x} = S
  OBVIOUS
<1>3. x \in S \cup {x}
  OBVIOUS
<1> DEFINE R == S \cup {x}
<1>4. SumFunctionOnSet(f, R) = f[x] + SumFunctionOnSet(f, R \ {x})
  <2> HIDE DEF R
  <2>1. QED
    BY <1>1, <1>3, SumRemove DEF R
<1>5. QED
  BY <1>2, <1>4

-----------------------------------------------------------------------------
(* Comparing sums. *)

(* Functions that agree on S have the same sum over it: a statement that leaves the *)
(* rows summed alone leaves the sum alone.                                          *)
THEOREM SumExt ==
  ASSUME NEW f, NEW g, NEW S, IsFiniteSet(S), \A x \in S : f[x] \in Int /\ g[x] = f[x]
  PROVE  SumFunctionOnSet(g, S) = SumFunctionOnSet(f, S)
<1> DEFINE Good == {t \in SUBSET S : SumFunctionOnSet(g, t) = SumFunctionOnSet(f, t)}
<1>1. {} \in Good
  BY SumEmpty
<1>2. ASSUME NEW t \in SUBSET S, NEW x \in S, t \in Good, x \notin t
      PROVE  t \cup {x} \in Good
  <2>1. IsFiniteSet(t)
    BY FS_Subset
  <2>2. SumFunctionOnSet(f, t \cup {x}) = f[x] + SumFunctionOnSet(f, t)
    BY <1>2, <2>1, SumAdd
  <2>3. SumFunctionOnSet(g, t \cup {x}) = g[x] + SumFunctionOnSet(g, t)
    BY <1>2, <2>1, SumAdd
  <2>4. QED
    BY <1>2, <2>2, <2>3
<1>3. S \in Good
  <2> HIDE DEF Good
  <2>1. QED
    BY <1>1, <1>2, FiniteGrowth
<1>4. QED
  BY <1>3

(* Where g is nowhere less, neither is its sum. *)
THEOREM SumMonotonic ==
  ASSUME NEW f, NEW g, NEW S, IsFiniteSet(S),
         \A x \in S : f[x] \in Int /\ g[x] \in Int /\ f[x] <= g[x]
  PROVE  SumFunctionOnSet(f, S) <= SumFunctionOnSet(g, S)
<1> DEFINE Good == {t \in SUBSET S : SumFunctionOnSet(f, t) <= SumFunctionOnSet(g, t)}
<1>1. {} \in Good
  BY SumEmpty
<1>2. ASSUME NEW t \in SUBSET S, NEW x \in S, t \in Good, x \notin t
      PROVE  t \cup {x} \in Good
  <2>1. IsFiniteSet(t)
    BY FS_Subset
  <2>2. SumFunctionOnSet(f, t \cup {x}) = f[x] + SumFunctionOnSet(f, t)
    BY <1>2, <2>1, SumAdd
  <2>3. SumFunctionOnSet(g, t \cup {x}) = g[x] + SumFunctionOnSet(g, t)
    BY <1>2, <2>1, SumAdd
  <2>4. SumFunctionOnSet(f, t) \in Int /\ SumFunctionOnSet(g, t) \in Int
    BY <2>1, SumInt
  <2>5. SumFunctionOnSet(f, t) <= SumFunctionOnSet(g, t) /\ f[x] <= g[x]
    BY <1>2
  <2>6. f[x] \in Int /\ g[x] \in Int
    OBVIOUS
  <2> HIDE DEF Good
  <2>7. SumFunctionOnSet(f, t \cup {x}) <= SumFunctionOnSet(g, t \cup {x})
    BY <2>2, <2>3, <2>4, <2>5, <2>6
  <2>8. QED
    BY <2>7 DEF Good
<1>3. S \in Good
  <2> HIDE DEF Good
  <2>1. QED
    BY <1>1, <1>2, FiniteGrowth
<1>4. QED
  BY <1>3

(* Where every row counts for nothing, so does their sum: what is in flight when    *)
(* nobody is at work.                                                               *)
THEOREM SumZero ==
  ASSUME NEW f, NEW S, IsFiniteSet(S), \A x \in S : f[x] = 0
  PROVE  SumFunctionOnSet(f, S) = 0
<1> DEFINE Good == {t \in SUBSET S : SumFunctionOnSet(f, t) = 0}
<1>1. {} \in Good
  BY SumEmpty
<1>2. ASSUME NEW t \in SUBSET S, NEW x \in S, t \in Good, x \notin t
      PROVE  t \cup {x} \in Good
  <2>1. IsFiniteSet(t)
    BY FS_Subset
  <2>2. SumFunctionOnSet(f, t \cup {x}) = f[x] + SumFunctionOnSet(f, t)
    BY <1>2, <2>1, SumAdd
  <2>3. QED
    BY <1>2, <2>2
<1>3. S \in Good
  <2> HIDE DEF Good
  <2>1. QED
    BY <1>1, <1>2, FiniteGrowth
<1>4. QED
  BY <1>3

(* A sum of natural numbers is one: amounts are never negative in all. *)
THEOREM SumNat ==
  ASSUME NEW f, NEW S, IsFiniteSet(S), \A x \in S : f[x] \in Nat
  PROVE  SumFunctionOnSet(f, S) \in Nat
<1> DEFINE z == [x \in S |-> 0]
<1>1. SumFunctionOnSet(z, S) = 0
  BY SumZero
<1>2. SumFunctionOnSet(z, S) <= SumFunctionOnSet(f, S)
  BY SumMonotonic
<1>3. SumFunctionOnSet(f, S) \in Int
  BY SumInt
<1>4. QED
  BY <1>1, <1>2, <1>3

(* Among natural numbers, none is larger than the sum: no single row holds more    *)
(* than all of them.                                                               *)
THEOREM SumOne ==
  ASSUME NEW f, NEW S, IsFiniteSet(S), \A x \in S : f[x] \in Nat, NEW x \in S
  PROVE  f[x] <= SumFunctionOnSet(f, S)
<1>1. IsFiniteSet(S \ {x})
  BY FS_Subset
<1>2. SumFunctionOnSet(f, S \ {x}) \in Nat
  BY <1>1, SumNat
<1>3. SumFunctionOnSet(f, S) = f[x] + SumFunctionOnSet(f, S \ {x})
  BY SumRemove
<1>4. QED
  BY <1>2, <1>3

(* A change at one element changes the sum by as much: the effect of a statement    *)
(* that writes one row.                                                             *)
THEOREM SumChange ==
  ASSUME NEW f, NEW g, NEW S, IsFiniteSet(S), NEW x \in S, f[x] \in Int, g[x] \in Int,
         \A y \in S : y # x => f[y] \in Int /\ g[y] = f[y]
  PROVE  SumFunctionOnSet(g, S) = SumFunctionOnSet(f, S) - f[x] + g[x]
<1> DEFINE R == S \ {x}
<1>1. IsFiniteSet(R)
  BY FS_Subset
<1>2. SumFunctionOnSet(g, R) = SumFunctionOnSet(f, R)
  BY <1>1, SumExt
<1>3. SumFunctionOnSet(f, R) \in Int
  BY <1>1, SumInt
<1>4. SumFunctionOnSet(f, S) = f[x] + SumFunctionOnSet(f, R)
  BY SumRemove
<1>5. SumFunctionOnSet(g, S) = g[x] + SumFunctionOnSet(g, R)
  BY SumRemove
<1>6. QED
  BY <1>2, <1>3, <1>4, <1>5

(* The sum over a part of the rows is that over all of them of what counts for      *)
(* nothing outside the part.                                                        *)
THEOREM SumPart ==
  ASSUME NEW f, NEW S, IsFiniteSet(S), NEW R \in SUBSET S, \A x \in R : f[x] \in Int
  PROVE  SumFunctionOnSet(f, R) = SumFunctionOnSet([x \in S |-> IF x \in R THEN f[x] ELSE 0], S)
<1> DEFINE m == [x \in S |-> IF x \in R THEN f[x] ELSE 0]
           Good == {t \in SUBSET S : SumFunctionOnSet(f, t \cap R) = SumFunctionOnSet(m, t)}
<1>1. {} \in Good
  <2>1. {} \cap R = {}
    OBVIOUS
  <2>2. QED
    BY <2>1, SumEmpty
<1>2. ASSUME NEW t \in SUBSET S, NEW x \in S, t \in Good, x \notin t
      PROVE  t \cup {x} \in Good
  <2>1. IsFiniteSet(t) /\ IsFiniteSet(t \cap R)
    BY FS_Subset
  <2>2. \A y \in t \cup {x} : m[y] \in Int
    BY <1>2
  <2>3. SumFunctionOnSet(m, t \cup {x}) = m[x] + SumFunctionOnSet(m, t)
    <3> HIDE DEF m
    <3>1. QED
      BY <1>2, <2>1, <2>2, SumAdd
  <2>4. SumFunctionOnSet(f, t \cap R) = SumFunctionOnSet(m, t)
    BY <1>2
  <2>5. SumFunctionOnSet(m, t) \in Int
    <3>1. \A y \in t : m[y] \in Int
      BY <2>2
    <3> HIDE DEF m
    <3>2. QED
      BY <2>1, <3>1, SumInt
  <2>6. CASE x \in R
    <3>1. (t \cup {x}) \cap R = (t \cap R) \cup {x} /\ x \notin t \cap R
      BY <1>2, <2>6
    <3>2. SumFunctionOnSet(f, (t \cap R) \cup {x}) = f[x] + SumFunctionOnSet(f, t \cap R)
      BY <2>1, <2>6, <3>1, SumAdd
    <3>3. m[x] = f[x]
      BY <2>6
    <3>4. QED
      BY <2>3, <2>4, <3>1, <3>2, <3>3
  <2>7. CASE x \notin R
    <3>1. (t \cup {x}) \cap R = t \cap R
      BY <2>7
    <3>2. m[x] = 0
      BY <2>7
    <3>3. SumFunctionOnSet(m, t \cup {x}) = SumFunctionOnSet(m, t)
      BY <2>3, <2>5, <3>2
    <3>4. QED
      BY <2>4, <3>1, <3>3
  <2>8. QED
    BY <2>6, <2>7
<1>3. S \in Good
  <2> HIDE DEF Good
  <2>1. QED
    BY <1>1, <1>2, FiniteGrowth
<1>4. S \cap R = R
  OBVIOUS
<1>5. QED
  BY <1>3, <1>4

(* Two sums over the same rows, added up row by row. *)
THEOREM SumPlus ==
  ASSUME NEW f, NEW g, NEW S, IsFiniteSet(S), \A x \in S : f[x] \in Int /\ g[x] \in Int
  PROVE  SumFunctionOnSet([x \in S |-> f[x] + g[x]], S) = SumFunctionOnSet(f, S) + SumFunctionOnSet(g, S)
<1> DEFINE h == [x \in S |-> f[x] + g[x]]
           Good == {t \in SUBSET S : SumFunctionOnSet(h, t) = SumFunctionOnSet(f, t) + SumFunctionOnSet(g, t)}
<1>1. {} \in Good
  BY SumEmpty
<1>2. ASSUME NEW t \in SUBSET S, NEW x \in S, t \in Good, x \notin t
      PROVE  t \cup {x} \in Good
  <2>1. IsFiniteSet(t)
    BY FS_Subset
  <2>2. SumFunctionOnSet(f, t \cup {x}) = f[x] + SumFunctionOnSet(f, t)
    BY <1>2, <2>1, SumAdd
  <2>3. SumFunctionOnSet(g, t \cup {x}) = g[x] + SumFunctionOnSet(g, t)
    BY <1>2, <2>1, SumAdd
  <2>4. h[x] = f[x] + g[x] /\ \A y \in t \cup {x} : h[y] \in Int
    BY <1>2
  <2>5. SumFunctionOnSet(h, t \cup {x}) = h[x] + SumFunctionOnSet(h, t)
    <3> HIDE DEF h
    <3>1. QED
      BY <1>2, <2>1, <2>4, SumAdd
  <2>6. SumFunctionOnSet(f, t) \in Int /\ SumFunctionOnSet(g, t) \in Int
    BY <2>1, SumInt
  <2>7. SumFunctionOnSet(h, t) = SumFunctionOnSet(f, t) + SumFunctionOnSet(g, t)
    BY <1>2
  <2>8. f[x] \in Int /\ g[x] \in Int
    OBVIOUS
  <2>9. SumFunctionOnSet(h, t \cup {x}) = SumFunctionOnSet(f, t \cup {x}) + SumFunctionOnSet(g, t \cup {x})
    <3> HIDE DEF h, Good
    <3>1. QED
      BY <2>2, <2>3, <2>4, <2>5, <2>6, <2>7, <2>8
  <2>10. QED
    BY <2>9
<1>3. S \in Good
  <2> HIDE DEF Good
  <2>1. QED
    BY <1>1, <1>2, FiniteGrowth
<1>4. QED
  BY <1>3

(* Amounts that are paired off, each with a different one at least as large, sum up *)
(* to no more: transfers against the rows they are sent for.                        *)
THEOREM SumPaired ==
  ASSUME NEW f, NEW S, IsFiniteSet(S), NEW g, NEW R, IsFiniteSet(R), NEW h \in [S -> R],
         \A x, y \in S : h[x] = h[y] => x = y,
         \A y \in R : g[y] \in Nat,
         \A x \in S : f[x] \in Int /\ f[x] <= g[h[x]]
  PROVE  SumFunctionOnSet(f, S) <= SumFunctionOnSet(g, R)
<1> DEFINE Image(t) == {h[x] : x \in t}
           Good == {t \in SUBSET S : SumFunctionOnSet(f, t) <= SumFunctionOnSet(g, Image(t))}
<1>1. {} \in Good
  <2>1. Image({}) = {}
    OBVIOUS
  <2>2. SumFunctionOnSet(f, {}) = 0 /\ SumFunctionOnSet(g, {}) = 0
    BY SumEmpty
  <2>3. QED
    BY <2>1, <2>2
<1>2. ASSUME NEW t \in SUBSET S PROVE Image(t) \in SUBSET R /\ IsFiniteSet(Image(t))
  BY FS_Subset
<1>3. ASSUME NEW t \in SUBSET S, NEW x \in S, t \in Good, x \notin t
      PROVE  t \cup {x} \in Good
  <2>1. IsFiniteSet(t) /\ IsFiniteSet(Image(t)) /\ Image(t) \in SUBSET R
    BY <1>2, FS_Subset
  <2>2. SumFunctionOnSet(f, t \cup {x}) = f[x] + SumFunctionOnSet(f, t)
    BY <1>3, <2>1, SumAdd
  <2>3. Image(t \cup {x}) = Image(t) \cup {h[x]} /\ h[x] \notin Image(t)
    BY <1>3
  <2>4. \A y \in Image(t) \cup {h[x]} : g[y] \in Int
    BY <2>1
  <2>5. SumFunctionOnSet(g, Image(t) \cup {h[x]}) = g[h[x]] + SumFunctionOnSet(g, Image(t))
    <3> HIDE DEF Image
    <3>1. QED
      BY <2>1, <2>3, <2>4, SumAdd
  <2>6. SumFunctionOnSet(f, t) \in Int /\ SumFunctionOnSet(g, Image(t)) \in Int
    <3>1. \A y \in Image(t) : g[y] \in Int
      BY <2>4
    <3> HIDE DEF Image
    <3>2. QED
      BY <2>1, <3>1, SumInt
  <2>7. SumFunctionOnSet(f, t) <= SumFunctionOnSet(g, Image(t))
    BY <1>3
  <2>8. f[x] \in Int /\ g[h[x]] \in Int /\ f[x] <= g[h[x]]
    OBVIOUS
  <2>9. SumFunctionOnSet(f, t \cup {x}) <= SumFunctionOnSet(g, Image(t \cup {x}))
    <3> DEFINE J == Image(t)
               JJ == Image(t \cup {x})
    <3>1. SumFunctionOnSet(g, JJ) = g[h[x]] + SumFunctionOnSet(g, J)
      BY <2>3, <2>5
    <3>2. SumFunctionOnSet(f, t) <= SumFunctionOnSet(g, J) /\ SumFunctionOnSet(g, J) \in Int
      BY <2>6, <2>7
    <3> HIDE DEF J, JJ
    <3>3. SumFunctionOnSet(f, t \cup {x}) <= SumFunctionOnSet(g, JJ)
      BY <2>2, <2>6, <2>8, <3>1, <3>2
    <3>4. QED
      BY <3>3 DEF JJ
  <2>10. QED
    BY <2>9
<1>4. S \in Good
  <2> HIDE DEF Good
  <2>1. QED
    BY <1>1, <1>3, FiniteGrowth
<1>5. SumFunctionOnSet(f, S) <= SumFunctionOnSet(g, Image(S))
  BY <1>4
<1>6. SumFunctionOnSet(g, Image(S)) <= SumFunctionOnSet(g, R)
  <2> DEFINE m == [y \in R |-> IF y \in Image(S) THEN g[y] ELSE 0]
  <2>1. SumFunctionOnSet(g, Image(S)) = SumFunctionOnSet(m, R)
    <3>1. \A y \in Image(S) : g[y] \in Int
      OBVIOUS
    <3>2. Image(S) \in SUBSET R
      BY <1>2
    <3> HIDE DEF Image
    <3>3. QED
      BY <3>1, <3>2, SumPart
  <2>2. \A y \in R : m[y] \in Int /\ g[y] \in Int /\ m[y] <= g[y]
    <3> HIDE DEF Image
    <3>1. QED
      OBVIOUS
  <2>3. SumFunctionOnSet(m, R) <= SumFunctionOnSet(g, R)
    <3> HIDE DEF m
    <3>1. QED
      BY <2>2, SumMonotonic
  <2>4. QED
    BY <2>1, <2>3
<1>7. SumFunctionOnSet(f, S) \in Int /\ SumFunctionOnSet(g, R) \in Int /\ SumFunctionOnSet(g, Image(S)) \in Int
  <2>1. \A y \in Image(S) : g[y] \in Int
    OBVIOUS
  <2>2. IsFiniteSet(Image(S))
    BY <1>2
  <2> HIDE DEF Image
  <2>3. QED
    BY <2>1, <2>2, SumInt
<1>8. QED
  BY <1>5, <1>6, <1>7

(* Induction up to n: what holds at 0 and moves on from each number to the *)
(* next holds at all of them.                                              *)
LEMMA Steps ==
  ASSUME NEW n \in Nat, NEW W \in SUBSET (0..n), 0 \in W, \A k \in 1..n : k - 1 \in W => k \in W
  PROVE  W = 0..n
<1> DEFINE Missing == (0..n) \ W
<1>1. SUFFICES ASSUME Missing # {} PROVE FALSE
  OBVIOUS
<1>2. PICK m \in Missing : \A k \in Missing : m <= k
  <2>1. Missing \in SUBSET Nat
    OBVIOUS
  <2> HIDE DEF Missing
  <2> QED BY <1>1, <2>1, NatMinimal
<1>3. m \in 1..n /\ m - 1 \in 0..n /\ ~(m <= m - 1)
  BY <1>2
<1>4. m - 1 \in W
  BY <1>2, <1>3
<1> QED BY <1>2, <1>3, <1>4

(* A function may be given by its first value and the step from each value *)
(* to the next.                                                            *)
Given(n, X, x, step) ==
  \E f \in [0..n -> X] : f[0] = x /\ \A k \in 1..n : f[k] = step[k][f[k - 1]]

LEMMA Recursion ==
  ASSUME NEW n \in Nat, NEW X, NEW x \in X, NEW step \in [1..n -> [X -> X]]
  PROVE  Given(n, X, x, step)
<1> DEFINE Upto(m, f) == f[0] = x /\ \A k \in 1..m : f[k] = step[k][f[k - 1]]
           W == {m \in 0..n : \E f \in [0..m -> X] : Upto(m, f)}
<1>1. 0 \in W
  <2> DEFINE f == [k \in 0..0 |-> x]
  <2>1. f \in [0..0 -> X] /\ f[0] = x /\ 0 \in 0..n
    OBVIOUS
  <2> HIDE DEF f
  <2>2. Upto(0, f)
    BY <2>1
  <2> HIDE DEF Upto
  <2> QED BY <2>1, <2>2
<1>2. ASSUME NEW m \in 1..n, m - 1 \in W PROVE m \in W
  <2>1. PICK f \in [0..(m - 1) -> X] : Upto(m - 1, f)
    BY <1>2
  <2> DEFINE last == step[m][f[m - 1]]
             g == [k \in 0..m |-> IF k = m THEN last ELSE f[k]]
  <2>i. m \in Nat /\ m - 1 \in Nat /\ 0 \in 0..m /\ 0 # m /\ m \in 0..n
    BY <1>2
  <2>2. last \in X
    <3>1. f[m - 1] \in X
      BY <2>i
    <3> QED BY <3>1
  <2>3. \A k \in 0..m : k # m => k \in 0..(m - 1) /\ f[k] \in X
    BY <2>i
  <2>5. ASSUME NEW k \in 1..m PROVE g[k] = step[k][g[k - 1]]
    <3>1. k \in 0..m /\ k - 1 \in 0..m /\ k - 1 # m
      BY <2>i
    <3>2. g[k - 1] = f[k - 1]
      BY <3>1
    <3>3. CASE k = m
      BY <3>1, <3>2, <3>3
    <3>4. CASE k # m
      <4>1. k \in 1..(m - 1) /\ g[k] = f[k]
        BY <2>i, <3>1, <3>4
      <4> HIDE DEF g
      <4> QED BY <2>1, <3>2, <4>1
    <3> QED BY <3>3, <3>4
  <2>6. g[0] = x
    BY <2>1, <2>i
  <2>7. g \in [0..m -> X]
    <3> HIDE DEF last
    <3> QED BY <2>2, <2>3
  <2> HIDE DEF g
  <2>8. Upto(m, g)
    BY <2>5, <2>6
  <2> HIDE DEF Upto
  <2> QED BY <2>i, <2>7, <2>8
<1>3. n \in W
  <2> HIDE DEF W
  <2>1. W \in SUBSET (0..n)
    BY DEF W
  <2>2. W = 0..n
    BY <1>1, <1>2, <2>1, Steps
  <2> QED BY <2>2
<1> QED BY <1>3 DEF Given
=============================================================================
