----------------------------- MODULE SumTheorems -----------------------------
(***************************************************************************)
(* Sums of integers over finite sets, as SumFunctionOnSet of Functions      *)
(* computes them: whatever order the elements are taken in, a sum grows by  *)
(* what is added to it.  The proofs about the books rest on these facts.    *)
(***************************************************************************)
EXTENDS FiniteSetTheorems, TLAPS

(* Induction over the natural numbers, from the well-foundedness of their   *)
(* order, for a property given as the set of the numbers that have it.      *)
LEMMA FromZeroOn ==
    ASSUME NEW T \in SUBSET Nat, 0 \in T, \A n \in T : n + 1 \in T
    PROVE  T = Nat
<1> SUFFICES ASSUME T # Nat PROVE FALSE
  OBVIOUS
<1>1. PICK U : U = Nat \ T /\ U # {} /\ U \subseteq Nat
  OBVIOUS
<1>2. PICK R : R = OpToRel(<, Nat)
  OBVIOUS
<1>3. IsWellFoundedOn(R, Nat)
  BY <1>2, NatLessThanWellFounded
<1>4. PICK n \in U : \A m \in U : ~ (<<m, n>> \in R)
  BY <1>1, <1>3, WFMin
<1>5. \A m \in Nat : m < n => <<m, n>> \in R
  BY <1>1, <1>2, <1>4 DEF OpToRel
<1>6. n - 1 \in Nat /\ n - 1 < n /\ (n - 1) + 1 = n
  BY <1>1, <1>4
<1>7. n - 1 \in T
  BY <1>1, <1>4, <1>5, <1>6
<1> QED
  BY <1>1, <1>4, <1>6, <1>7

-----------------------------------------------------------------------------
(* The recursion behind a sum takes any element of the set out of it.       *)
AnyOf(s) == CHOOSE x \in s : TRUE

LEMMA AnyOfIsIn == ASSUME NEW s, s # {} PROVE AnyOf(s) \in s
  BY Zenon DEF AnyOf

Value(g, s, w) == IF s = {} THEN 0 ELSE w[AnyOf(s)] + g[s \ {AnyOf(s)}]
Unrolls(g, S, w) == g = [s \in SUBSET S |-> IF s = {} THEN 0 ELSE w[AnyOf(s)] + g[s \ {AnyOf(s)}]]
Weighs(w, S) == IsFiniteSet(S) /\ \A x \in S : w[x] \in Int
UpTo(S, n) == {s \in SUBSET S : Cardinality(s) <= n}

LEMMA OneLess ==
    ASSUME NEW S, IsFiniteSet(S), NEW n \in Nat, NEW s \in UpTo(S, n + 1), NEW x \in s
    PROVE  s \ {x} \in UpTo(S, n) /\ Cardinality(s) = Cardinality(s \ {x}) + 1
<1>1. IsFiniteSet(s) /\ s \in SUBSET S
  BY FS_Subset DEF UpTo
<1>2. Cardinality(s) \in Nat /\ Cardinality(s) <= n + 1
  BY <1>1, FS_CardinalityType DEF UpTo
<1>3. Cardinality(s \ {x}) = Cardinality(s) - 1
  BY <1>1, FS_RemoveElement
<1> QED
  BY <1>1, <1>2, <1>3 DEF UpTo

LEMMA Small ==
    ASSUME NEW S, IsFiniteSet(S)
    PROVE  /\ UpTo(S, 0) = {{}} /\ Cardinality(S) \in Nat /\ UpTo(S, Cardinality(S)) = SUBSET S
           /\ \A n \in Nat : UpTo(S, n) \subseteq UpTo(S, n + 1)
<1>1. \A s \in SUBSET S : IsFiniteSet(s) /\ Cardinality(s) \in Nat /\ Cardinality(s) <= Cardinality(S)
  BY FS_Subset, FS_CardinalityType
<1>2. \A s \in SUBSET S : Cardinality(s) = 0 <=> s = {}
  BY <1>1, FS_EmptySet
<1>3. UpTo(S, 0) = {{}}
  BY <1>1, <1>2 DEF UpTo
<1>4. UpTo(S, Cardinality(S)) = SUBSET S
  BY <1>1 DEF UpTo
<1>5. \A n \in Nat : UpTo(S, n) \subseteq UpTo(S, n + 1)
  BY <1>1 DEF UpTo
<1> QED
  BY <1>1, <1>3, <1>4, <1>5

Computes(g, n, S, w) == g \in [UpTo(S, n) -> Int] /\ \A s \in UpTo(S, n) : g[s] = Value(g, s, w)

LEMMA OneMore ==
    ASSUME NEW S, NEW w, Weighs(w, S), NEW n \in Nat, NEW g, Computes(g, n, S, w)
    PROVE  \E h : Computes(h, n + 1, S, w)
<1>1. PICK h : h = [s \in UpTo(S, n + 1) |-> Value(g, s, w)]
  OBVIOUS
<1>2. \A s \in UpTo(S, n + 1) : s # {} =>
          AnyOf(s) \in s /\ AnyOf(s) \in S /\ s \ {AnyOf(s)} \in UpTo(S, n)
  BY OneLess, AnyOfIsIn DEF Weighs, UpTo
<1>3. UpTo(S, n) \subseteq UpTo(S, n + 1)
  BY Small DEF Weighs
<1>4. h \in [UpTo(S, n + 1) -> Int]
  <2>1. \A s \in UpTo(S, n + 1) : Value(g, s, w) \in Int
    BY <1>2 DEF Value, Computes, Weighs
  <2> QED
    BY <1>1, <2>1
<1>5. \A s \in UpTo(S, n) : h[s] = g[s]
  BY <1>1, <1>3 DEF Computes
<1>6. \A s \in UpTo(S, n + 1) : h[s] = Value(h, s, w)
  BY <1>1, <1>2, <1>5 DEF Value
<1> QED
  BY <1>4, <1>6 DEF Computes

LEMMA SomeComputes ==
    ASSUME NEW S, NEW w, Weighs(w, S)
    PROVE  \E g : g \in [SUBSET S -> Int] /\ Unrolls(g, S, w)
<1>1. PICK T : T = {n \in Nat : \E g : Computes(g, n, S, w)}
  OBVIOUS
<1>2. 0 \in T
  <2>1. PICK g : g = [s \in UpTo(S, 0) |-> 0]
    OBVIOUS
  <2>2. Computes(g, 0, S, w)
    BY <2>1, Small DEF Computes, Value, Weighs
  <2> QED
    BY <1>1, <2>2
<1>3. \A n \in T : n + 1 \in T
  BY <1>1, OneMore
<1>4. T = Nat
  BY <1>1, <1>2, <1>3, FromZeroOn
<1>5. PICK g : Computes(g, Cardinality(S), S, w)
  BY <1>1, <1>4, Small DEF Weighs
<1>6. g \in [SUBSET S -> Int] /\ \A s \in SUBSET S : g[s] = Value(g, s, w)
  BY <1>5, Small DEF Computes, Weighs
<1> QED
  BY <1>6 DEF Unrolls, Value

LEMMA Unrolled ==
    ASSUME NEW S, NEW w, NEW g, Unrolls(g, S, w)
    PROVE  /\ g[{}] = 0
           /\ \A s \in SUBSET S : s # {} =>
                 /\ AnyOf(s) \in s /\ s \ {AnyOf(s)} \in SUBSET S
                 /\ g[s] = w[AnyOf(s)] + g[s \ {AnyOf(s)}]
<1>1. \A s \in SUBSET S : g[s] = IF s = {} THEN 0 ELSE w[AnyOf(s)] + g[s \ {AnyOf(s)}]
  BY DEF Unrolls
<1> QED
  BY <1>1, AnyOfIsIn

(* What a sum is depends on the elements alone.                             *)
LEMMA SameValues ==
    ASSUME NEW S, NEW w, NEW g, Weighs(w, S), Unrolls(g, S, w), NEW T, NEW v, NEW h, Unrolls(h, T, v),
           NEW U, U \subseteq S, U \subseteq T, \A x \in U : w[x] = v[x]
    PROVE  g[U] = h[U] /\ g[U] \in Int
<1>1. IsFiniteSet(U)
  BY FS_Subset DEF Weighs
<1>2. PICK N : N = {n \in Nat : \A u \in UpTo(U, n) : g[u] = h[u] /\ g[u] \in Int}
  OBVIOUS
<1>0. g[{}] = 0 /\ h[{}] = 0
  <2>1. g[{}] = 0
    BY Unrolled
  <2>2. h[{}] = 0
    BY Unrolled
  <2> QED
    BY <2>1, <2>2
<1>3. 0 \in N
  <2>1. UpTo(U, 0) = {{}}
    BY <1>1, Small
  <2> QED
    BY <1>0, <1>2, <2>1
<1>4. ASSUME NEW n \in N PROVE n + 1 \in N
  <2> SUFFICES ASSUME NEW u \in UpTo(U, n + 1) PROVE g[u] = h[u] /\ g[u] \in Int
    BY <1>2
  <2> SUFFICES ASSUME u # {} PROVE g[u] = h[u] /\ g[u] \in Int
    BY <1>0
  <2>1. PICK x \in u : x = AnyOf(u)
    BY AnyOfIsIn
  <2>2. u \in SUBSET S /\ u \in SUBSET T /\ x \in U
    BY DEF UpTo
  <2>3. g[u] = w[x] + g[u \ {x}]
    BY <2>1, <2>2, Unrolled
  <2>4. h[u] = v[x] + h[u \ {x}]
    BY <2>1, <2>2, Unrolled
  <2>5. u \ {x} \in UpTo(U, n)
    BY <1>1, <1>2, OneLess
  <2>6. g[u \ {x}] = h[u \ {x}] /\ g[u \ {x}] \in Int
    BY <1>2, <2>5
  <2>7. w[x] = v[x] /\ w[x] \in Int
    BY <2>2 DEF Weighs
  <2> QED
    BY <2>3, <2>4, <2>6, <2>7
<1>5. N = Nat
  BY <1>2, <1>3, <1>4, FromZeroOn
<1>6. U \in UpTo(U, Cardinality(U)) /\ Cardinality(U) \in Nat
  BY <1>1, Small
<1> QED
  BY <1>2, <1>5, <1>6

(* Any element may be the one that is taken out.                            *)
LEMMA AnyOrder ==
    ASSUME NEW S, NEW w, NEW g, Weighs(w, S), Unrolls(g, S, w)
    PROVE  \A x \in S : g[S] = w[x] + g[S \ {x}]
<1>0. \A s \in SUBSET S : g[s] \in Int
  BY SameValues
<1>1. PICK N : N = {n \in Nat : \A u \in UpTo(S, n) : \A y \in u : g[u] = w[y] + g[u \ {y}]}
  OBVIOUS
<1>2. 0 \in N
  BY <1>1, Small DEF Weighs
<1>3. ASSUME NEW n \in N PROVE n + 1 \in N
  <2> SUFFICES ASSUME NEW u \in UpTo(S, n + 1), NEW y \in u PROVE g[u] = w[y] + g[u \ {y}]
    BY <1>1
  <2>1. PICK c \in u : c = AnyOf(u)
    BY AnyOfIsIn
  <2>2. u \in SUBSET S /\ c \in S /\ y \in S /\ w[c] \in Int /\ w[y] \in Int
    BY DEF UpTo, Weighs
  <2>3. g[u] = w[c] + g[u \ {c}]
    BY <2>1, <2>2, Unrolled
  <2>4. CASE c = y
    BY <2>3, <2>4
  <2>5. CASE c # y
    <3>1. u \ {c} \in UpTo(S, n) /\ u \ {y} \in UpTo(S, n)
      BY <1>1, OneLess DEF Weighs
    <3>2. g[u \ {c}] = w[y] + g[(u \ {c}) \ {y}] /\ g[u \ {y}] = w[c] + g[(u \ {y}) \ {c}]
      BY <1>1, <2>5, <3>1
    <3>3. (u \ {c}) \ {y} = (u \ {y}) \ {c} /\ (u \ {c}) \ {y} \in SUBSET S
      BY <2>2
    <3>4. PICK rest \in Int, a \in Int, b \in Int : rest = g[(u \ {c}) \ {y}] /\ a = w[c] /\ b = w[y]
      BY <1>0, <2>2, <3>3
    <3>5. g[u] = a + (b + rest) /\ g[u \ {y}] = a + rest
      BY <2>3, <3>2, <3>3, <3>4
    <3>6. a + (b + rest) = b + (a + rest)
      BY <3>4
    <3> QED
      BY <3>4, <3>5, <3>6
  <2> QED
    BY <2>4, <2>5
<1>4. N = Nat
  BY <1>1, <1>2, <1>3, FromZeroOn
<1>5. S \in UpTo(S, Cardinality(S)) /\ Cardinality(S) \in Nat
  BY Small DEF Weighs
<1> QED
  BY <1>1, <1>4, <1>5

-----------------------------------------------------------------------------
LEMMA SumUnrolls ==
    ASSUME NEW S, NEW w, Weighs(w, S)
    PROVE  \E g \in [SUBSET S -> Int] : Unrolls(g, S, w) /\ SumFunctionOnSet(w, S) = g[S]
<1>1. PICK g : g = CHOOSE h : Unrolls(h, S, w)
  OBVIOUS
<1>2. SumFunctionOnSet(w, S) = g[S]
  BY <1>1 DEF SumFunctionOnSet, FoldFunctionOnSet, MapThenFoldSet, Unrolls, AnyOf
<1>3. \E h : Unrolls(h, S, w)
  BY SomeComputes
<1>4. Unrolls(g, S, w)
  BY <1>1, <1>3, Zenon
<1>5. g = [s \in SUBSET S |-> g[s]]
  BY <1>4 DEF Unrolls
<1>6. \A s \in SUBSET S : g[s] \in Int
  BY <1>4, SameValues
<1>7. g \in [SUBSET S -> Int]
  BY <1>5, <1>6
<1> QED
  BY <1>2, <1>4, <1>7

LEMMA SumOfNone == ASSUME NEW w PROVE SumFunctionOnSet(w, {}) = 0
<1>1. Weighs(w, {})
  BY FS_EmptySet DEF Weighs
<1>2. PICK g : Unrolls(g, {}, w) /\ SumFunctionOnSet(w, {}) = g[{}]
  BY <1>1, SumUnrolls
<1> QED
  BY <1>2, Unrolled

LEMMA SumIsInt == ASSUME NEW S, NEW w, Weighs(w, S) PROVE SumFunctionOnSet(w, S) \in Int
<1>1. PICK g : g \in [SUBSET S -> Int] /\ SumFunctionOnSet(w, S) = g[S]
  BY SumUnrolls
<1>2. S \in SUBSET S
  OBVIOUS
<1> QED
  BY <1>1, <1>2

LEMMA SumIsSame ==
    ASSUME NEW S, NEW w, NEW v, Weighs(w, S), \A x \in S : w[x] = v[x]
    PROVE  SumFunctionOnSet(w, S) = SumFunctionOnSet(v, S)
<1>1. Weighs(v, S)
  BY DEF Weighs
<1>2. PICK g : Unrolls(g, S, w) /\ SumFunctionOnSet(w, S) = g[S]
  BY SumUnrolls
<1>3. PICK h : Unrolls(h, S, v) /\ SumFunctionOnSet(v, S) = h[S]
  BY <1>1, SumUnrolls
<1> QED
  BY <1>2, <1>3, SameValues

LEMMA SumOfMore ==
    ASSUME NEW S, NEW w, Weighs(w, S), NEW x, x \notin S, w[x] \in Int
    PROVE  Weighs(w, S \cup {x}) /\ SumFunctionOnSet(w, S \cup {x}) = SumFunctionOnSet(w, S) + w[x]
<1>1. PICK T : T = S \cup {x}
  OBVIOUS
<1>2. Weighs(w, T)
  BY <1>1, FS_AddElement DEF Weighs
<1>3. PICK g : g \in [SUBSET T -> Int] /\ Unrolls(g, T, w) /\ SumFunctionOnSet(w, T) = g[T]
  BY <1>2, SumUnrolls
<1>4. PICK h : h \in [SUBSET S -> Int] /\ Unrolls(h, S, w) /\ SumFunctionOnSet(w, S) = h[S]
  BY SumUnrolls
<1>5. x \in T /\ T \ {x} = S /\ S \subseteq T /\ S \subseteq S
  BY <1>1
<1>6. g[T] = w[x] + g[S]
  <2>1. \A y \in T : g[T] = w[y] + g[T \ {y}]
    BY <1>2, <1>3, AnyOrder
  <2> QED
    BY <1>5, <2>1
<1>7. h[S] = g[S] /\ h[S] \in Int
  BY <1>3, <1>4, <1>5, SameValues
<1> QED
  BY <1>1, <1>2, <1>3, <1>4, <1>6, <1>7

LEMMA SumOfBoth ==
    ASSUME NEW S, NEW T, NEW w, Weighs(w, S), Weighs(w, T), S \cap T = {}
    PROVE  /\ Weighs(w, S \cup T)
           /\ SumFunctionOnSet(w, S \cup T) = SumFunctionOnSet(w, S) + SumFunctionOnSet(w, T)
<1>1. PICK N : N = {n \in Nat : \A t \in UpTo(T, n) :
                      /\ Weighs(w, t) /\ Weighs(w, S \cup t)
                      /\ SumFunctionOnSet(w, S \cup t) = SumFunctionOnSet(w, S) + SumFunctionOnSet(w, t)}
  OBVIOUS
<1>2. 0 \in N
  <2>1. UpTo(T, 0) = {{}} /\ S \cup {} = S /\ Weighs(w, {})
    BY Small, FS_EmptySet DEF Weighs
  <2>2. SumFunctionOnSet(w, {}) = 0 /\ SumFunctionOnSet(w, S) \in Int
    BY SumOfNone, SumIsInt
  <2>3. SumFunctionOnSet(w, S) = SumFunctionOnSet(w, S) + SumFunctionOnSet(w, {})
    BY <2>2
  <2> QED
    BY <1>1, <2>1, <2>3
<1>3. ASSUME NEW n \in N PROVE n + 1 \in N
  <2>1. SUFFICES ASSUME NEW t \in UpTo(T, n + 1)
                 PROVE  /\ Weighs(w, t) /\ Weighs(w, S \cup t)
                        /\ SumFunctionOnSet(w, S \cup t) = SumFunctionOnSet(w, S) + SumFunctionOnSet(w, t)
    BY <1>1
  <2>2. CASE t = {}
    BY <1>1, <1>2, <2>2, Small DEF Weighs
  <2>3. CASE t # {}
    <3>1. PICK x \in t : TRUE
      BY <2>3
    <3>2. PICK u : u = t \ {x}
      OBVIOUS
    <3>3. u \in UpTo(T, n) /\ x \in T /\ x \notin S
      BY <1>1, <3>2, OneLess DEF UpTo, Weighs
    <3>4. /\ Weighs(w, u) /\ Weighs(w, S \cup u) /\ w[x] \in Int
          /\ SumFunctionOnSet(w, S \cup u) = SumFunctionOnSet(w, S) + SumFunctionOnSet(w, u)
      BY <1>1, <3>3 DEF Weighs
    <3>5. t = u \cup {x} /\ S \cup t = (S \cup u) \cup {x} /\ x \notin u /\ x \notin S \cup u
      BY <3>2, <3>3
    <3>6. Weighs(w, t) /\ SumFunctionOnSet(w, t) = SumFunctionOnSet(w, u) + w[x]
      BY <3>4, <3>5, SumOfMore
    <3>7. Weighs(w, S \cup t) /\ SumFunctionOnSet(w, S \cup t) = SumFunctionOnSet(w, S \cup u) + w[x]
      BY <3>4, <3>5, SumOfMore
    <3>8. SumFunctionOnSet(w, S) \in Int /\ SumFunctionOnSet(w, u) \in Int
      BY <3>4, SumIsInt
    <3> QED
      BY <3>4, <3>6, <3>7, <3>8
  <2> QED
    BY <2>2, <2>3
<1>4. N = Nat
  BY <1>1, <1>2, <1>3, FromZeroOn
<1>5. T \in UpTo(T, Cardinality(T)) /\ Cardinality(T) \in Nat
  BY Small DEF Weighs
<1> QED
  BY <1>1, <1>4, <1>5

(* A sum of weights stays among the numbers they are taken from, if these   *)
(* are closed under addition.                                               *)
LEMMA SumStaysIn ==
    ASSUME NEW Z \in SUBSET Int, 0 \in Z, \A a, b \in Z : a + b \in Z,
           NEW S, NEW w, IsFiniteSet(S), \A x \in S : w[x] \in Z
    PROVE  Weighs(w, S) /\ SumFunctionOnSet(w, S) \in Z
<1>1. Weighs(w, S)
  BY DEF Weighs
<1>2. PICK g : Unrolls(g, S, w) /\ SumFunctionOnSet(w, S) = g[S]
  BY <1>1, SumUnrolls
<1>3. PICK N : N = {n \in Nat : \A u \in UpTo(S, n) : g[u] \in Z}
  OBVIOUS
<1>0. g[{}] = 0
  BY <1>2, Unrolled
<1>4. 0 \in N
  <2>1. \A u \in UpTo(S, 0) : u = {}
    BY Small
  <2>2. \A u \in UpTo(S, 0) : g[u] \in Z
    BY <1>0, <2>1
  <2> QED
    BY <1>3, <2>2
<1>5. ASSUME NEW n \in N PROVE n + 1 \in N
  <2> SUFFICES ASSUME NEW u \in UpTo(S, n + 1) PROVE g[u] \in Z
    BY <1>3
  <2> SUFFICES ASSUME u # {} PROVE g[u] \in Z
    BY <1>0
  <2>1. PICK x \in u : x = AnyOf(u)
    BY AnyOfIsIn
  <2>2. u \in SUBSET S /\ u \ {x} \in UpTo(S, n) /\ w[x] \in Z
    BY <1>3, OneLess DEF UpTo
  <2>3. g[u] = w[x] + g[u \ {x}] /\ g[u \ {x}] \in Z
    BY <1>2, <1>3, <2>1, <2>2, Unrolled, ZenonT(60)
  <2> QED
    BY <2>2, <2>3
<1>6. N = Nat
  BY <1>3, <1>4, <1>5, FromZeroOn
<1>7. S \in UpTo(S, Cardinality(S)) /\ Cardinality(S) \in Nat
  BY Small
<1> QED
  BY <1>1, <1>2, <1>3, <1>6, <1>7

LEMMA SumOfNaturals ==
    ASSUME NEW S, NEW w, IsFiniteSet(S), \A x \in S : w[x] \in Nat
    PROVE  Weighs(w, S) /\ SumFunctionOnSet(w, S) \in Nat
<1>1. PICK Z : Z = Nat
  OBVIOUS
<1>2. Z \in SUBSET Int /\ 0 \in Z /\ (\A a, b \in Z : a + b \in Z) /\ \A x \in S : w[x] \in Z
  BY <1>1
<1> QED
  BY <1>1, <1>2, SumStaysIn

LEMMA SumOfZeros ==
    ASSUME NEW S, NEW w, IsFiniteSet(S), \A x \in S : w[x] = 0
    PROVE  Weighs(w, S) /\ SumFunctionOnSet(w, S) = 0
<1>1. PICK Z : Z = {0}
  OBVIOUS
<1>2. Z \in SUBSET Int /\ 0 \in Z /\ (\A a, b \in Z : a + b \in Z) /\ \A x \in S : w[x] \in Z
  BY <1>1
<1>3. Weighs(w, S) /\ SumFunctionOnSet(w, S) \in Z
  BY <1>2, SumStaysIn
<1> QED
  BY <1>1, <1>3

(* Where one element's weight changes, so does the sum, and by as much.     *)
LEMMA SumChanges ==
    ASSUME NEW S, NEW w, NEW v, Weighs(w, S), NEW x \in S, v[x] \in Int, \A y \in S \ {x} : v[y] = w[y]
    PROVE  /\ Weighs(v, S)
           /\ SumFunctionOnSet(v, S) = SumFunctionOnSet(w, S) - w[x] + v[x]
<1>1. PICK T : T = S \ {x}
  OBVIOUS
<1>2. /\ Weighs(w, T) /\ Weighs(v, T) /\ x \notin T /\ S = T \cup {x}
      /\ w[x] \in Int /\ \A y \in T : w[y] = v[y]
  BY <1>1, FS_Subset DEF Weighs
<1>3. SumFunctionOnSet(w, T) = SumFunctionOnSet(v, T)
  BY <1>2, SumIsSame
<1>4. SumFunctionOnSet(w, S) = SumFunctionOnSet(w, T) + w[x]
  BY <1>2, SumOfMore
<1>5. Weighs(v, S) /\ SumFunctionOnSet(v, S) = SumFunctionOnSet(v, T) + v[x]
  BY <1>2, SumOfMore
<1>6. SumFunctionOnSet(w, T) \in Int
  BY <1>2, SumIsInt
<1> QED
  BY <1>2, <1>3, <1>4, <1>5, <1>6

-----------------------------------------------------------------------------
(* Induction over the subsets of a finite set, one element at a time, for a *)
(* property given as the set of the subsets that have it.                   *)
LEMMA OneByOneOn ==
    ASSUME NEW S, IsFiniteSet(S), NEW P, {} \in P,
           \A s \in SUBSET S : s \in P => \A x \in S \ s : s \cup {x} \in P
    PROVE  S \in P
<1>1. PICK N : N = {n \in Nat : \A s \in UpTo(S, n) : s \in P}
  OBVIOUS
<1>2. N \in SUBSET Nat /\ 0 \in N
  BY <1>1, Small
<1>3. ASSUME NEW n \in N PROVE n + 1 \in N
  <2>1. SUFFICES ASSUME NEW s \in UpTo(S, n + 1) PROVE s \in P
    BY <1>1
  <2>2. SUFFICES ASSUME s # {} PROVE s \in P
    OBVIOUS
  <2>3. PICK x \in s : TRUE
    BY <2>2
  <2>4. PICK u : u = s \ {x}
    OBVIOUS
  <2>5. u \in UpTo(S, n) /\ u \in SUBSET S /\ x \in S \ u /\ s = u \cup {x}
    BY <1>1, <2>4, OneLess DEF UpTo
  <2> QED
    BY <1>1, <2>5
<1>4. N = Nat
  BY <1>2, <1>3, FromZeroOn
<1>5. S \in UpTo(S, Cardinality(S)) /\ Cardinality(S) \in Nat
  BY Small
<1> QED
  BY <1>1, <1>4, <1>5

(* A sum of sums is the sum of both.                                        *)
LEMMA SumOfTwo ==
    ASSUME NEW S, NEW w, NEW v, NEW u, Weighs(w, S), Weighs(v, S), \A x \in S : u[x] = w[x] + v[x]
    PROVE  /\ Weighs(u, S)
           /\ SumFunctionOnSet(u, S) = SumFunctionOnSet(w, S) + SumFunctionOnSet(v, S)
<1>1. PICK P : P = {s \in SUBSET S : SumFunctionOnSet(u, s) = SumFunctionOnSet(w, s) + SumFunctionOnSet(v, s)}
  OBVIOUS
<1>2. \A s \in SUBSET S : Weighs(w, s) /\ Weighs(v, s) /\ Weighs(u, s)
  BY FS_Subset DEF Weighs
<1>3. {} \in P
  BY <1>1, SumOfNone
<1>4. ASSUME NEW s \in SUBSET S, s \in P, NEW x \in S \ s PROVE s \cup {x} \in P
  <2>1. w[x] \in Int /\ v[x] \in Int /\ u[x] \in Int /\ u[x] = w[x] + v[x]
    BY DEF Weighs
  <2>2. SumFunctionOnSet(w, s) \in Int /\ SumFunctionOnSet(v, s) \in Int /\ SumFunctionOnSet(u, s) \in Int
    BY <1>2, SumIsInt
  <2>0. x \notin s /\ Weighs(w, s) /\ Weighs(v, s) /\ Weighs(u, s)
    BY <1>2
  <2>3. /\ SumFunctionOnSet(w, s \cup {x}) = SumFunctionOnSet(w, s) + w[x]
        /\ SumFunctionOnSet(v, s \cup {x}) = SumFunctionOnSet(v, s) + v[x]
        /\ SumFunctionOnSet(u, s \cup {x}) = SumFunctionOnSet(u, s) + u[x]
    <3>1. SumFunctionOnSet(w, s \cup {x}) = SumFunctionOnSet(w, s) + w[x]
      BY <2>0, <2>1, SumOfMore
    <3>2. SumFunctionOnSet(v, s \cup {x}) = SumFunctionOnSet(v, s) + v[x]
      BY <2>0, <2>1, SumOfMore
    <3>3. SumFunctionOnSet(u, s \cup {x}) = SumFunctionOnSet(u, s) + u[x]
      BY <2>0, <2>1, SumOfMore
    <3> QED
      BY <3>1, <3>2, <3>3
  <2>4. SumFunctionOnSet(u, s) = SumFunctionOnSet(w, s) + SumFunctionOnSet(v, s)
    BY <1>1, <1>4
  <2> QED
    BY <1>1, <2>1, <2>2, <2>3, <2>4
<1>5. S \in P
  BY <1>3, <1>4, OneByOneOn DEF Weighs
<1> QED
  BY <1>1, <1>2, <1>5

(* A sum may be multiplied out.                                             *)
LEMMA SumOfTimes ==
    ASSUME NEW S, NEW w, NEW u, NEW k \in Int, Weighs(w, S), \A x \in S : u[x] = k * w[x]
    PROVE  Weighs(u, S) /\ SumFunctionOnSet(u, S) = k * SumFunctionOnSet(w, S)
<1>1. PICK P : P = {s \in SUBSET S : SumFunctionOnSet(u, s) = k * SumFunctionOnSet(w, s)}
  OBVIOUS
<1>2. \A s \in SUBSET S : Weighs(w, s) /\ Weighs(u, s)
  BY FS_Subset DEF Weighs
<1>3. {} \in P
  BY <1>1, SumOfNone
<1>4. ASSUME NEW s \in SUBSET S, s \in P, NEW x \in S \ s PROVE s \cup {x} \in P
  <2>1. w[x] \in Int /\ u[x] \in Int /\ u[x] = k * w[x]
    BY DEF Weighs
  <2>2. SumFunctionOnSet(w, s) \in Int
    BY <1>2, SumIsInt
  <2>3. /\ SumFunctionOnSet(w, s \cup {x}) = SumFunctionOnSet(w, s) + w[x]
        /\ SumFunctionOnSet(u, s \cup {x}) = SumFunctionOnSet(u, s) + u[x]
    BY <1>2, <2>1, SumOfMore
  <2>4. SumFunctionOnSet(u, s) = k * SumFunctionOnSet(w, s)
    BY <1>1, <1>4
  <2>5. \A a, b \in Int : k * (a + b) = k * a + k * b
    OBVIOUS
  <2> QED
    BY <1>1, <2>1, <2>2, <2>3, <2>4, <2>5
<1>5. S \in P
  BY <1>3, <1>4, OneByOneOn DEF Weighs
<1> QED
  BY <1>1, <1>2, <1>5

LEMMA SumOfSame ==
    ASSUME NEW S, NEW u, NEW k \in Int, IsFiniteSet(S), \A x \in S : u[x] = k
    PROVE  Weighs(u, S) /\ SumFunctionOnSet(u, S) = k * Cardinality(S)
<1>1. PICK P : P = {s \in SUBSET S : SumFunctionOnSet(u, s) = k * Cardinality(s)}
  OBVIOUS
<1>2. \A s \in SUBSET S : IsFiniteSet(s) /\ Weighs(u, s) /\ Cardinality(s) \in Nat
  BY FS_Subset, FS_CardinalityType DEF Weighs
<1>3. {} \in P
  BY <1>1, SumOfNone, FS_EmptySet
<1>4. ASSUME NEW s \in SUBSET S, s \in P, NEW x \in S \ s PROVE s \cup {x} \in P
  <2>1. u[x] = k /\ SumFunctionOnSet(u, s \cup {x}) = SumFunctionOnSet(u, s) + u[x]
    BY <1>2, SumOfMore
  <2>2. Cardinality(s \cup {x}) = Cardinality(s) + 1
    BY <1>2, FS_AddElement
  <2>3. SumFunctionOnSet(u, s) = k * Cardinality(s)
    BY <1>1, <1>4
  <2>4. \A a \in Int : k * (a + 1) = k * a + k
    OBVIOUS
  <2>5. SumFunctionOnSet(u, s \cup {x}) = k * Cardinality(s \cup {x})
    BY <1>2, <2>1, <2>2, <2>3, <2>4
  <2> QED
    BY <1>1, <2>5
<1>5. S \in P
  BY <1>3, <1>4, OneByOneOn
<1> QED
  BY <1>1, <1>2, <1>5

(* A set may be summed part by part.                                        *)
LEMMA SumOfParts ==
    ASSUME NEW S, NEW w, NEW C, NEW f, NEW part, NEW u, Weighs(w, S), IsFiniteSet(C), \A x \in S : f[x] \in C,
           \A c \in C : \A x : x \in part[c] <=> x \in S /\ f[x] = c,
           \A c \in C : u[c] = SumFunctionOnSet(w, part[c])
    PROVE  Weighs(u, C) /\ SumFunctionOnSet(u, C) = SumFunctionOnSet(w, S)
<1>0. PICK upto : upto = [d \in SUBSET C |-> {x \in S : f[x] \in d}]
  OBVIOUS
<1>00. ASSUME NEW d \in SUBSET C PROVE \A x : x \in upto[d] <=> x \in S /\ f[x] \in d
  BY <1>0
<1>1. PICK P : P = {d \in SUBSET C : SumFunctionOnSet(u, d) = SumFunctionOnSet(w, upto[d])}
  OBVIOUS
<1>2. \A s \in SUBSET S : Weighs(w, s)
  BY FS_Subset DEF Weighs
<1>3. Weighs(u, C) /\ \A d \in SUBSET C : Weighs(u, d)
  <2>1. ASSUME NEW c \in C PROVE u[c] \in Int
    <3>1. PICK t : t = part[c]
      OBVIOUS
    <3>2. t \in SUBSET S /\ u[c] = SumFunctionOnSet(w, t)
      BY <3>1
    <3> QED
      BY <1>2, <3>2, SumIsInt
  <2> QED
    BY <2>1, FS_Subset DEF Weighs
<1>4. {} \in P
  <2>1. upto[{}] = {}
    BY <1>00
  <2> QED
    BY <1>1, <2>1, SumOfNone
<1>5. ASSUME NEW d \in SUBSET C, d \in P, NEW c \in C \ d PROVE d \cup {c} \in P
  <2>1. PICK s, t, e : s = upto[d] /\ t = part[c] /\ e = d \cup {c}
    OBVIOUS
  <2>0. e \in SUBSET C /\ c \in C /\ c \notin d /\ \A y : y \in e <=> y \in d \/ y = c
    BY <2>1
  <2>2. upto[e] = s \cup t /\ s \cap t = {} /\ s \in SUBSET S /\ t \in SUBSET S
    <3>1. \A x : x \in t <=> x \in S /\ f[x] = c
      BY <2>0, <2>1
    <3>2. \A x : x \in s <=> x \in S /\ f[x] \in d
      BY <1>00, <2>1
    <3>3. \A x : x \in upto[e] <=> x \in S /\ f[x] \in e
      BY <1>00, <2>0
    <3>4. \A x : x \in upto[e] <=> x \in s \/ x \in t
      BY <2>0, <3>1, <3>2, <3>3
    <3>5. \A x \in s : x \notin t
      BY <2>0, <3>1, <3>2
    <3>6. upto[e] = s \cup t
      BY <3>4
    <3>7. s \cap t = {}
      BY <3>5
    <3>8. s \in SUBSET S /\ t \in SUBSET S
      BY <3>1, <3>2
    <3> QED
      BY <3>6, <3>7, <3>8
  <2>3. SumFunctionOnSet(w, s \cup t) = SumFunctionOnSet(w, s) + SumFunctionOnSet(w, t)
    <3>1. Weighs(w, s)
      BY <1>2, <2>2
    <3>2. Weighs(w, t)
      BY <1>2, <2>2
    <3>3. s \cap t = {}
      BY <2>2
    <3> QED
      BY <3>1, <3>2, <3>3, SumOfBoth
  <2>4. SumFunctionOnSet(u, e) = SumFunctionOnSet(u, d) + u[c]
    <3>1. Weighs(u, d) /\ c \notin d /\ u[c] \in Int
      BY <1>3, <2>0 DEF Weighs
    <3> QED
      BY <2>1, <3>1, SumOfMore
  <2>5. SumFunctionOnSet(u, d) = SumFunctionOnSet(w, s) /\ u[c] = SumFunctionOnSet(w, t)
    BY <1>1, <1>5, <2>0, <2>1
  <2>6. e \in P
    BY <1>1, <2>0, <2>2, <2>3, <2>4, <2>5
  <2> QED
    BY <2>1, <2>6
<1>6. C \in P
  BY <1>4, <1>5, OneByOneOn
<1>7. upto[C] = S
  BY <1>00
<1> QED
  BY <1>1, <1>3, <1>6, <1>7

LEMMA ImageIsFinite ==
    ASSUME NEW S, IsFiniteSet(S), NEW f
    PROVE  IsFiniteSet({f[x] : x \in S})
<1>1. PICK T : T = {f[x] : x \in S}
  OBVIOUS
<1>2. [x \in S |-> f[x]] \in Surjection(S, T)
  BY <1>1 DEF Surjection
<1> QED
  BY <1>1, <1>2, FS_Surjection

(* What is paired one to one has one sum.                                   *)
PairsUp(f, S, T) ==
    /\ \A x \in S : f[x] \in T
    /\ \A y \in T : \E x \in S : y = f[x]
    /\ \A x, y \in S : f[x] = f[y] => x = y
KeepsWeight(f, S, w, v) == \A x \in S : v[f[x]] = w[x]
LEMMA SumOfPairs ==
    ASSUME NEW S, NEW w, NEW T, NEW v, NEW f, Weighs(w, S), PairsUp(f, S, T), KeepsWeight(f, S, w, v)
    PROVE  Weighs(v, T) /\ SumFunctionOnSet(v, T) = SumFunctionOnSet(w, S)
<1>0. /\ \A x \in S : f[x] \in T
      /\ \A y \in T : \E x \in S : y = f[x]
      /\ \A x, y \in S : f[x] = f[y] => x = y
      /\ \A x \in S : v[f[x]] = w[x]
  BY DEF PairsUp, KeepsWeight
<1>1. IsFiniteSet(T)
  <2>1. IsFiniteSet(S)
    BY DEF Weighs
  <2>2. T = {f[x] : x \in S}
    BY <1>0
  <2> QED
    BY <2>1, <2>2, ImageIsFinite
<1>2. PICK part : part = [c \in T |-> {x \in S : f[x] = c}]
  OBVIOUS
<1>3. \A c \in T : \A x : x \in part[c] <=> x \in S /\ f[x] = c
  BY <1>2
<1>4. ASSUME NEW c \in T PROVE v[c] = SumFunctionOnSet(w, part[c])
  <2>1. PICK y \in S : c = f[y]
    BY <1>0
  <2>2. part[c] = {} \cup {y}
    BY <1>0, <1>2, <2>1
  <2>3. Weighs(w, {}) /\ w[y] \in Int
    BY FS_EmptySet DEF Weighs
  <2>4. SumFunctionOnSet(w, {} \cup {y}) = SumFunctionOnSet(w, {}) + w[y]
    BY <2>3, SumOfMore
  <2> QED
    BY <1>0, <2>1, <2>2, <2>3, <2>4, SumOfNone
<1> QED
  BY <1>0, <1>1, <1>3, <1>4, SumOfParts

(* Over an interval of numbers a sum is taken number by number.             *)
LEMMA SumOfNext ==
    ASSUME NEW n \in Nat, NEW w, Weighs(w, 1 .. n + 1)
    PROVE  /\ Weighs(w, 1 .. n)
           /\ SumFunctionOnSet(w, 1 .. n + 1) = SumFunctionOnSet(w, 1 .. n) + w[n + 1]
<1>1. PICK S, x : S = 1 .. n /\ x = n + 1
  OBVIOUS
<1>2. S \cup {x} = 1 .. n + 1 /\ x \notin S /\ S \in SUBSET (1 .. n + 1) /\ x \in 1 .. n + 1
  BY <1>1
<1>3. IsFiniteSet(S)
  BY <1>2, FS_Subset DEF Weighs
<1>4. Weighs(w, S) /\ w[x] \in Int
  BY <1>2, <1>3 DEF Weighs
<1> QED
  BY <1>1, <1>2, <1>4, SumOfMore

LEMMA SumOfNoneYet == ASSUME NEW w PROVE SumFunctionOnSet(w, 1 .. 0) = 0
<1>1. 1 .. 0 = {}
  OBVIOUS
<1> QED
  BY <1>1, SumOfNone

(* Sums are bounded by as many times what bounds their terms.               *)
LEMMA SumAtLeast ==
    ASSUME NEW S, NEW u, Weighs(u, S), NEW k \in Int, \A x \in S : u[x] >= k
    PROVE  SumFunctionOnSet(u, S) >= k * Cardinality(S)
<1>1. IsFiniteSet(S) /\ \A x \in S : u[x] \in Int
  BY DEF Weighs
<1>2. PICK c, v : c = [x \in S |-> -k] /\ v = [x \in S |-> u[x] - k]
  OBVIOUS
<1>3. Cardinality(S) \in Nat
  BY <1>1, FS_CardinalityType
<1>4. Weighs(c, S) /\ SumFunctionOnSet(c, S) = (-k) * Cardinality(S)
  <2>1. -k \in Int /\ \A x \in S : c[x] = -k
    BY <1>2
  <2> QED
    BY <1>1, <2>1, SumOfSame
<1>5. \A x \in S : v[x] = u[x] + c[x] /\ v[x] \in Nat
  BY <1>1, <1>2
<1>6. SumFunctionOnSet(v, S) = SumFunctionOnSet(u, S) + SumFunctionOnSet(c, S)
  BY <1>4, <1>5, SumOfTwo
<1>7. SumFunctionOnSet(v, S) \in Nat /\ SumFunctionOnSet(u, S) \in Int
  BY <1>1, <1>5, SumOfNaturals, SumIsInt
<1>8. PICK K \in Int : K = k * Cardinality(S) /\ (-k) * Cardinality(S) = -K
  BY <1>3
<1> QED
  BY <1>4, <1>6, <1>7, <1>8

LEMMA SumIsBetween ==
    ASSUME NEW S, NEW u, Weighs(u, S), NEW a \in Int, NEW b \in Int, \A x \in S : a <= u[x] /\ u[x] <= b
    PROVE  /\ a * Cardinality(S) <= SumFunctionOnSet(u, S)
           /\ SumFunctionOnSet(u, S) <= b * Cardinality(S)
<1>1. IsFiniteSet(S) /\ \A x \in S : u[x] \in Int
  BY DEF Weighs
<1>2. Cardinality(S) \in Nat /\ SumFunctionOnSet(u, S) \in Int
  BY <1>1, FS_CardinalityType, SumIsInt
<1>3. PICK v : v = [x \in S |-> (-1) * u[x]]
  OBVIOUS
<1>4. Weighs(v, S) /\ SumFunctionOnSet(v, S) = (-1) * SumFunctionOnSet(u, S)
  <2>1. \A x \in S : v[x] = (-1) * u[x]
    BY <1>3
  <2>2. -1 \in Int
    OBVIOUS
  <2> QED
    BY <2>1, <2>2, SumOfTimes
<1>5. SumFunctionOnSet(u, S) >= a * Cardinality(S)
  <2>1. \A x \in S : u[x] >= a
    BY <1>1
  <2> QED
    BY <2>1, SumAtLeast
<1>6. SumFunctionOnSet(v, S) >= (-b) * Cardinality(S)
  <2>1. -b \in Int /\ \A x \in S : v[x] >= -b
    BY <1>1, <1>3
  <2> QED
    BY <1>4, <2>1, SumAtLeast
<1>7. PICK A \in Int, B \in Int : A = a * Cardinality(S) /\ B = b * Cardinality(S) /\ (-b) * Cardinality(S) = -B
  BY <1>2
<1> QED
  BY <1>2, <1>4, <1>5, <1>6, <1>7

LEMMA SomeOfThree ==
    ASSUME NEW a, NEW b, NEW c, NEW s \in SUBSET {a, b, c}, NEW w, w[a] \in Int, w[b] \in Int, w[c] \in Int
    PROVE  SumFunctionOnSet(w, s) \in Int
<1>1. IsFiniteSet({a, b, c})
  <2>1. IsFiniteSet({a} \cup {b}) /\ IsFiniteSet({c})
    BY FS_Singleton, FS_Union
  <2>2. {a, b, c} = ({a} \cup {b}) \cup {c}
    OBVIOUS
  <2>3. IsFiniteSet(({a} \cup {b}) \cup {c})
    BY <2>1, FS_Union
  <2> QED
    BY <2>2, <2>3
<1>2. Weighs(w, s)
  BY <1>1, FS_Subset DEF Weighs
<1> QED
  BY <1>2, SumIsInt

-----------------------------------------------------------------------------
(* A set of natural numbers has a least member.                             *)
LEMMA SomeIsLeast ==
    ASSUME NEW S \in SUBSET Nat, S # {}
    PROVE  \E x \in S : \A y \in S : x <= y
<1>1. PICK R : R = OpToRel(<, Nat)
  OBVIOUS
<1>2. IsWellFoundedOn(R, Nat)
  BY <1>1, NatLessThanWellFounded
<1>3. PICK x \in S : \A y \in S : ~(<<y, x>> \in R)
  BY <1>2, WFMin
<1>4. \A y \in Nat : y < x => <<y, x>> \in R
  BY <1>1, <1>3 DEF OpToRel
<1>5. x \in Nat /\ \A y \in S : y \in Nat /\ ~(y < x)
  BY <1>3, <1>4
<1>6. \A y \in S : x <= y
  BY <1>5
<1> QED
  BY <1>6
=============================================================================
