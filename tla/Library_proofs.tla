--------------------------- MODULE Library_proofs ---------------------------
(***************************************************************************)
(* Lemmas about data that the proofs of the components share.              *)
(*                                                                         *)
(* Induction.  The induction theorems of the library have an operator for  *)
(* a parameter; here the induction is over the set of the numbers, or of   *)
(* the finite sets, of which the claim holds, by the well-foundedness of < *)
(* and of the strict subset relation.  It gives facts about recursions     *)
(* that go on for as long as they descend, about the sums                  *)
(* SumFunctionOnSet(w, S) of the community module Functions (such a sum    *)
(* does not depend on the order of its elements), and about the extremes   *)
(* Max and Min of FiniteSetsExt; then, sequences given as functions.       *)
(*                                                                         *)
(* Fractions.  Is(x, n, d) says that the fraction x, in lowest terms, is   *)
(* n / d; each operation of Fractions has its law in that form, from which *)
(* the formulas of a constant-product pool are reasoned about over common  *)
(* denominators.                                                           *)
(***************************************************************************)
EXTENDS Fractions, Sequences, Functions, FiniteSetsExt, FiniteSetTheorems, WellFoundedInduction, TLAPS

\* What holds of a number whenever it holds of the smaller ones holds of them all.
LEMMA NatStrongInduction ==
  ASSUME NEW G, \A n \in Nat : (\A m \in Nat : m < n => m \in G) => n \in G
  PROVE  \A n \in Nat : n \in G
  <1> DEFINE Bad == Nat \ G
  <1>1. SUFFICES ASSUME Bad # {} PROVE FALSE
    OBVIOUS
  <1>2. PICK n \in Bad : \A m \in Bad : <<m, n>> \notin OpToRel(<, Nat)
    <2>1. Bad \subseteq Nat
      OBVIOUS
    <2> HIDE DEF Bad
    <2>2. QED
      BY <1>1, <2>1, NatLessThanWellFounded, WFMin
  <1>3. \A m \in Nat : m < n => m \in G
    BY <1>2 DEF OpToRel
  <1>4. QED
    BY <1>2, <1>3

\* The equation of a recursion that goes on for as long as the rank descends, and
\* then has what is last.
Descends(next, rank, last, S, f) ==
  f = [z \in S |-> IF rank[next[z]] < rank[z] THEN f[next[z]] ELSE last[z]]

Goes(next, rank, S) == next \in [S -> S] /\ rank \in [S -> Nat]
Upto(S, rank, n) == {z \in S : rank[z] <= n}

\* The solutions agree where both are defined.
LEMMA DescentUnique ==
  ASSUME NEW S, NEW next, NEW rank, NEW last, Goes(next, rank, S),
         NEW n \in Nat, NEW m \in Nat, m <= n, NEW f, NEW g,
         Descends(next, rank, last, Upto(S, rank, n), f),
         Descends(next, rank, last, Upto(S, rank, m), g)
  PROVE  \A z \in Upto(S, rank, m) : f[z] = g[z]
  <1> DEFINE G == {k \in Nat : \A z \in Upto(S, rank, m) : rank[z] = k => f[z] = g[z]}
  <1>1. ASSUME NEW k \in Nat, \A j \in Nat : j < k => j \in G PROVE k \in G
    <2>1. SUFFICES ASSUME NEW z \in Upto(S, rank, m), rank[z] = k PROVE f[z] = g[z]
      OBVIOUS
    <2>2. /\ z \in S /\ rank[z] <= m /\ z \in Upto(S, rank, n)
          /\ next[z] \in S /\ rank[next[z]] \in Nat
      BY <2>1 DEF Upto, Goes
    <2>3. /\ f[z] = IF rank[next[z]] < rank[z] THEN f[next[z]] ELSE last[z]
          /\ g[z] = IF rank[next[z]] < rank[z] THEN g[next[z]] ELSE last[z]
      BY <2>1, <2>2 DEF Descends
    <2>4. rank[next[z]] < rank[z] => f[next[z]] = g[next[z]]
      <3>1. rank[next[z]] < rank[z] => next[z] \in Upto(S, rank, m)
        BY <2>1, <2>2 DEF Upto
      <3>2. QED
        BY <1>1, <2>1, <2>2, <3>1
    <2>5. QED
      BY <2>3, <2>4
  <1>2. \A k \in Nat : k \in G
    <2> HIDE DEF G
    <2>1. QED
      BY <1>1, NatStrongInduction
  <1>3. \A z \in Upto(S, rank, m) : rank[z] \in Nat
    BY DEF Upto, Goes
  <1>4. QED
    BY <1>2, <1>3

\* There is a solution.
LEMMA DescentExists ==
  ASSUME NEW S, NEW next, NEW rank, NEW last, Goes(next, rank, S)
  PROVE  \E f : Descends(next, rank, last, S, f)
  <1> DEFINE Part(n) == Upto(S, rank, n)
             Of(n) == CHOOSE f : Descends(next, rank, last, Part(n), f)
             G == {n \in Nat : \E f : Descends(next, rank, last, Part(n), f)}
             Deeper(z) == rank[next[z]] < rank[z]
  <1>0. ASSUME NEW z \in S
        PROVE  /\ rank[z] \in Nat /\ z \in Part(rank[z]) /\ next[z] \in S /\ rank[next[z]] \in Nat
               /\ \A n \in Nat : z \in Part(n) <=> rank[z] <= n
               /\ \A n \in Nat : z \in Part(n) /\ Deeper(z)
                                   => next[z] \in Part(n) /\ rank[next[z]] < n
    <2>1. rank[z] \in Nat /\ next[z] \in S /\ rank[next[z]] \in Nat
      BY DEF Goes
    <2>2. QED
      BY <2>1 DEF Upto
  <1>00. \A n \in Nat : Part(n) \subseteq S
    BY DEF Upto
  <1> HIDE DEF Part
  \* What the solution up to a rank has for a member, that up to its own rank has.
  <1>1. ASSUME NEW n \in Nat, Descends(next, rank, last, Part(n), Of(n)), NEW z \in Part(n),
               Descends(next, rank, last, Part(rank[z]), Of(rank[z]))
        PROVE  Of(n)[z] = Of(rank[z])[z]
    <2> DEFINE k == rank[z]
    <2>1. k \in Nat /\ k <= n /\ z \in Part(k)
      BY <1>0, <1>00
    <2> HIDE DEF k, Of
    <2>2. Descends(next, rank, last, Part(n), Of(n)) /\ Descends(next, rank, last, Part(k), Of(k))
      BY <1>1 DEF k
    <2>3. \A u \in Part(k) : Of(n)[u] = Of(k)[u]
      BY <2>1, <2>2, DescentUnique DEF Part
    <2>4. QED
      BY <2>1, <2>3 DEF k
  <1>2. ASSUME NEW n \in Nat, \A m \in Nat : m < n => m \in G PROVE n \in G
    <2> DEFINE g == [z \in Part(n) |-> IF Deeper(z) THEN Of(rank[next[z]])[next[z]] ELSE last[z]]
    <2>0. \A m \in Nat : m < n => Descends(next, rank, last, Part(m), Of(m))
      BY <1>2
    <2>1. ASSUME NEW z \in Part(n), Deeper(z) PROVE g[next[z]] = Of(rank[next[z]])[next[z]]
      <3> DEFINE y == next[z]
                 k == rank[y]
      <3>1. y \in S /\ k \in Nat /\ k < n /\ y \in Part(n) /\ y \in Part(k)
        BY <1>0, <1>00, <2>1
      <3>2. Descends(next, rank, last, Part(k), Of(k))
        BY <2>0, <3>1
      <3> HIDE DEF Of, y
      <3>3. Of(k)[y] = IF Deeper(y) THEN Of(k)[next[y]] ELSE last[y]
        BY <3>1, <3>2 DEF Descends
      <3>4. g[y] = IF Deeper(y) THEN Of(rank[next[y]])[next[y]] ELSE last[y]
        BY <3>1
      <3>5. Deeper(y) => Of(k)[next[y]] = Of(rank[next[y]])[next[y]]
        <4> SUFFICES ASSUME Deeper(y) PROVE Of(k)[next[y]] = Of(rank[next[y]])[next[y]]
          OBVIOUS
        <4>1. next[y] \in Part(k) /\ rank[next[y]] \in Nat /\ rank[next[y]] < n
          BY <1>0, <3>1
        <4>2. Descends(next, rank, last, Part(rank[next[y]]), Of(rank[next[y]]))
          BY <2>0, <4>1
        <4>3. QED
          BY <1>1, <3>1, <3>2, <4>1, <4>2
      <3>6. QED
        BY <3>3, <3>4, <3>5 DEF y
    <2>2. g = [z \in Part(n) |-> IF Deeper(z) THEN g[next[z]] ELSE last[z]]
      <3> HIDE DEF Of
      <3>1. \A z \in Part(n) : g[z] = IF Deeper(z) THEN g[next[z]] ELSE last[z]
        BY <2>1
      <3>2. g = [z \in Part(n) |-> g[z]]
        OBVIOUS
      <3> HIDE DEF g
      <3>3. QED
        BY <3>1, <3>2
    <2> HIDE DEF g
    <2>3. Descends(next, rank, last, Part(n), g)
      BY <2>2 DEF Descends
    <2>4. QED
      BY <2>3
  <1>3. \A n \in Nat : n \in G
    <2> HIDE DEF G
    <2>1. QED
      BY <1>2, NatStrongInduction
  <1>4. \A n \in Nat : Descends(next, rank, last, Part(n), Of(n))
    BY <1>3
  <1> DEFINE f == [z \in S |-> Of(rank[z])[z]]
  <1>5. ASSUME NEW z \in S PROVE f[z] = IF Deeper(z) THEN f[next[z]] ELSE last[z]
    <2>1. rank[z] \in Nat /\ z \in Part(rank[z]) /\ next[z] \in S
      BY <1>0
    <2>2. Descends(next, rank, last, Part(rank[z]), Of(rank[z]))
      BY <1>4, <2>1
    <2>3. Deeper(z) => Of(rank[z])[next[z]] = Of(rank[next[z]])[next[z]]
      <3> SUFFICES ASSUME Deeper(z) PROVE Of(rank[z])[next[z]] = Of(rank[next[z]])[next[z]]
        OBVIOUS
      <3>1. next[z] \in Part(rank[z]) /\ rank[next[z]] \in Nat
        BY <1>0
      <3>2. Descends(next, rank, last, Part(rank[next[z]]), Of(rank[next[z]]))
        BY <1>4, <3>1
      <3> HIDE DEF Of
      <3>3. QED
        BY <1>1, <2>1, <2>2, <3>1, <3>2
    <2> HIDE DEF Of
    <2>4. Of(rank[z])[z] = IF Deeper(z) THEN Of(rank[z])[next[z]] ELSE last[z]
      BY <2>1, <2>2 DEF Descends
    <2>5. QED
      BY <2>1, <2>3, <2>4
  <1>6. f = [z \in S |-> IF Deeper(z) THEN f[next[z]] ELSE last[z]]
    <2>1. f = [z \in S |-> f[z]]
      OBVIOUS
    <2> HIDE DEF f
    <2>2. QED
      BY <1>5, <2>1
  <1> HIDE DEF f
  <1>7. QED
    BY <1>6 DEF Descends

\* What it has is last of a member from where the rank descends no further.
LEMMA DescentEnds ==
  ASSUME NEW S, NEW next, NEW rank, NEW last, Goes(next, rank, S), NEW f,
         Descends(next, rank, last, S, f), NEW x \in S
  PROVE  \E y \in S : f[x] = last[y] /\ rank[next[y]] >= rank[y]
  <1> DEFINE Ends(z) == \E y \in S : f[z] = last[y] /\ rank[next[y]] >= rank[y]
             G == {k \in Nat : \A z \in S : rank[z] = k => Ends(z)}
  <1>1. ASSUME NEW k \in Nat, \A j \in Nat : j < k => j \in G PROVE k \in G
    <2>1. SUFFICES ASSUME NEW z \in S, rank[z] = k PROVE Ends(z)
      OBVIOUS
    <2>2. f[z] = IF rank[next[z]] < rank[z] THEN f[next[z]] ELSE last[z]
      BY <2>1 DEF Descends
    <2>3. next[z] \in S /\ rank[next[z]] \in Nat
      BY <2>1 DEF Goes
    <2>4. CASE rank[next[z]] < rank[z]
      <3>1. Ends(next[z])
        BY <1>1, <2>1, <2>3, <2>4
      <3>2. QED
        BY <2>2, <2>4, <3>1
    <2>5. CASE ~(rank[next[z]] < rank[z])
      BY <2>1, <2>2, <2>3, <2>5
    <2>6. QED
      BY <2>4, <2>5
  <1>2. \A k \in Nat : k \in G
    <2> HIDE DEF G
    <2>1. QED
      BY <1>1, NatStrongInduction
  <1>3. rank[x] \in Nat
    BY DEF Goes
  <1>4. QED
    BY <1>2, <1>3

-----------------------------------------------------------------------------
\* What holds of a set whenever it holds of its smaller subsets holds of every
\* finite set.
LEMMA StrongSetInduction ==
  ASSUME NEW S, IsFiniteSet(S), NEW G,
         \A T \in SUBSET S : (\A U \in SUBSET T : U # T => U \in G) => T \in G
  PROVE  S \in G
  <1> DEFINE Bad == (SUBSET S) \ G
  <1>1. SUFFICES ASSUME S \notin G PROVE FALSE
    OBVIOUS
  <1>2. IsWellFoundedOn(StrictSubsetOrdering(S), SUBSET S)
    BY FS_StrictSubsetOrderingWellFounded, FS_FiniteSubsetsOfFinite
  <1>3. PICK T \in Bad : \A U \in Bad : <<U, T>> \notin StrictSubsetOrdering(S)
    <2>1. Bad \subseteq SUBSET S /\ Bad # {}
      BY <1>1
    <2> HIDE DEF Bad
    <2>2. QED
      BY <1>2, <2>1, WFMin
  <1>4. \A U \in SUBSET T : U # T => U \in G
    BY <1>3 DEF StrictSubsetOrdering
  <1>5. QED
    BY <1>3, <1>4

\* What holds of the empty set and is kept when an element is added holds of
\* every finite set.
LEMMA SetInduction ==
  ASSUME NEW S, IsFiniteSet(S), NEW G, {} \in G,
         \A T \in SUBSET S : \A x \in S \ T : T \in G => T \cup {x} \in G
  PROVE  S \in G
  <1>1. ASSUME NEW T \in SUBSET S, \A U \in SUBSET T : U # T => U \in G
        PROVE  T \in G
    <2>1. CASE T = {}
      BY <2>1
    <2>2. CASE T # {}
      <3>1. PICK x \in T : TRUE
        BY <2>2
      <3>2. T \ {x} \in G /\ T \ {x} \in SUBSET S /\ x \in S \ (T \ {x})
        BY <1>1
      <3>3. (T \ {x}) \cup {x} = T
        OBVIOUS
      <3>4. QED
        BY <3>2, <3>3
    <2>3. QED
      BY <2>1, <2>2
  <1>2. QED
    BY <1>1, StrongSetInduction

-----------------------------------------------------------------------------
\* The element a sum takes next, and the equation of the function it computes.
NextSummand(s) == CHOOSE x \in s : TRUE
SumsUp(w, S, g) ==
  g = [s \in SUBSET S |-> IF s = {} THEN 0 ELSE w[NextSummand(s)] + g[s \ {NextSummand(s)}]]

\* It is one of them.
LEMMA NextIn == \A s : s # {} => NextSummand(s) \in s
  BY DEF NextSummand

\* The equation has one solution on each set.
LEMMA SumsUpUnique ==
  ASSUME NEW S, IsFiniteSet(S), NEW w, NEW g, NEW h, NEW T, S \subseteq T, NEW U, S \subseteq U,
         SumsUp(w, T, g), SumsUp(w, U, h)
  PROVE  g[S] = h[S]
  <1> DEFINE G == {s \in SUBSET S : g[s] = h[s]}
  <1>1. ASSUME NEW s \in SUBSET S, \A u \in SUBSET s : u # s => u \in G
        PROVE  s \in G
    <2>1. s \in SUBSET T /\ s \in SUBSET U
      OBVIOUS
    <2>2. CASE s = {}
      BY <2>1, <2>2 DEF SumsUp
    <2>3. CASE s # {}
      <3>1. s \ {NextSummand(s)} \in SUBSET s /\ s \ {NextSummand(s)} # s
        BY <2>3, NextIn
      <3>2. g[s \ {NextSummand(s)}] = h[s \ {NextSummand(s)}]
        BY <1>1, <3>1
      <3>3. g[s] = w[NextSummand(s)] + g[s \ {NextSummand(s)}] /\ h[s] = w[NextSummand(s)] + h[s \ {NextSummand(s)}]
        BY <2>1, <2>3 DEF SumsUp
      <3>4. QED
        BY <3>2, <3>3
    <2>4. QED
      BY <2>2, <2>3
  <1>2. S \in G
    <2> HIDE DEF G
    <2>1. QED
      BY <1>1, StrongSetInduction
  <1>3. QED
    BY <1>2

\* The equation has a solution.
LEMMA SumsUpExists ==
  ASSUME NEW S, IsFiniteSet(S), NEW w
  PROVE  \E g : SumsUp(w, S, g)
  <1> DEFINE G == {s \in SUBSET S : \E g : SumsUp(w, s, g)}
             Of(s) == CHOOSE g : SumsUp(w, s, g)
  <1>1. ASSUME NEW T \in SUBSET S, \A u \in SUBSET T : u # T => u \in G
        PROVE  T \in G
    <2> DEFINE g == [s \in SUBSET T |-> IF s = {} THEN 0
                                        ELSE w[NextSummand(s)] + Of(s \ {NextSummand(s)})[s \ {NextSummand(s)}]]
    <2>1. \A u \in SUBSET T : u # T => SumsUp(w, u, Of(u))
      BY <1>1
    <2>2. ASSUME NEW s \in SUBSET T, s # {}
          PROVE  g[s \ {NextSummand(s)}] = Of(s \ {NextSummand(s)})[s \ {NextSummand(s)}]
      <3> DEFINE u == s \ {NextSummand(s)}
                 v == u \ {NextSummand(u)}
      <3>1. u \in SUBSET T /\ u # T
        BY <2>2, NextIn
      <3>2. SumsUp(w, u, Of(u))
        BY <2>1, <3>1
      <3>3. u \in SUBSET u
        OBVIOUS
      <3>4. CASE u = {}
        <4>1. g[u] = 0
          BY <3>1, <3>4
        <4>2. Of(u)[u] = 0
          BY <3>2, <3>3, <3>4 DEF SumsUp
        <4>3. QED
          BY <4>1, <4>2
      <3>5. CASE u # {}
        <4>1. v \in SUBSET u /\ v \in SUBSET T /\ v # T
          BY <3>1, <3>5, NextIn
        <4>2. SumsUp(w, v, Of(v))
          BY <2>1, <4>1
        <4>3. IsFiniteSet(v)
          BY <4>1, FS_Subset
        <4>4. Of(u)[v] = Of(v)[v]
          <5> HIDE DEF u, v, Of
          <5>1. QED
            BY <3>2, <4>1, <4>2, <4>3, SumsUpUnique
        <4>5. g[u] = w[NextSummand(u)] + Of(v)[v]
          BY <3>1, <3>5
        <4>6. Of(u)[u] = w[NextSummand(u)] + Of(u)[v]
          <5> HIDE DEF Of
          <5>1. QED
            BY <3>2, <3>3, <3>5 DEF SumsUp
        <4>7. QED
          BY <4>4, <4>5, <4>6
      <3>6. QED
        BY <3>4, <3>5
    <2>3. SumsUp(w, T, g)
      <3>1. g = [s \in SUBSET T |-> IF s = {} THEN 0 ELSE w[NextSummand(s)] + g[s \ {NextSummand(s)}]]
        <4> HIDE DEF Of
        <4>1. \A s \in SUBSET T :
                g[s] = IF s = {} THEN 0 ELSE w[NextSummand(s)] + g[s \ {NextSummand(s)}]
          BY <2>2
        <4>2. g = [s \in SUBSET T |-> g[s]]
          OBVIOUS
        <4> HIDE DEF g
        <4>3. QED
          BY <4>1, <4>2
      <3> HIDE DEF g
      <3>2. QED
        BY <3>1 DEF SumsUp
    <2>4. QED
      BY <2>3
  <1>2. S \in G
    <2> HIDE DEF G
    <2>1. QED
      BY <1>1, StrongSetInduction
  <1>3. QED
    BY <1>2

-----------------------------------------------------------------------------
\* A sum is what a function that adds up has for the set.
LEMMA SumFound ==
  ASSUME NEW S, IsFiniteSet(S), NEW w
  PROVE  \E g : SumsUp(w, S, g) /\ SumFunctionOnSet(w, S) = g[S]
  <1> DEFINE f == CHOOSE g : SumsUp(w, S, g)
  <1>1. SumsUp(w, S, f)
    BY SumsUpExists
  <1>2. SumFunctionOnSet(w, S) = f[S]
    BY DEF SumFunctionOnSet, FoldFunctionOnSet, MapThenFoldSet, SumsUp, NextSummand
  <1>3. QED
    BY <1>1, <1>2

\* A sum is taken one element at a time.
LEMMA SumStep ==
  ASSUME NEW S, IsFiniteSet(S), NEW w
  PROVE  SumFunctionOnSet(w, S) =
           IF S = {} THEN 0 ELSE w[NextSummand(S)] + SumFunctionOnSet(w, S \ {NextSummand(S)})
  <1>1. PICK g : SumsUp(w, S, g) /\ SumFunctionOnSet(w, S) = g[S]
    BY SumFound
  <1>2. CASE S = {}
    BY <1>1, <1>2 DEF SumsUp
  <1>3. CASE S # {}
    <2> DEFINE T == S \ {NextSummand(S)}
    <2>1. IsFiniteSet(T)
      BY FS_Subset
    <2> HIDE DEF T
    <2>2. PICK h : SumsUp(w, T, h) /\ SumFunctionOnSet(w, T) = h[T]
      BY <2>1, SumFound
    <2>3. T \subseteq S
      BY DEF T
    <2>4. g[T] = h[T]
      BY <1>1, <2>1, <2>2, <2>3, SumsUpUnique
    <2>5. g[S] = w[NextSummand(S)] + g[T]
      BY <1>1, <1>3 DEF SumsUp, T
    <2>6. QED
      BY <1>1, <1>3, <2>2, <2>4, <2>5 DEF T
  <1>4. QED
    BY <1>2, <1>3

-----------------------------------------------------------------------------
\* What is said of the summands.
IntOn(w, S) == \A x \in S : w[x] \in Int
NatOn(w, S) == \A x \in S : w[x] \in Nat
SameOn(w, v, S) == \A x \in S : w[x] = v[x]
AtMostOn(w, v, S) == \A x \in S : w[x] <= v[x]
PlusOn(u, w, v, S) == \A x \in S : u[x] = w[x] + v[x]

\* What holds of the values on a set holds of them on its subsets.
LEMMA Smaller ==
  ASSUME NEW S, IsFiniteSet(S), NEW T, T \subseteq S
  PROVE  /\ IsFiniteSet(T)
         /\ \A w : /\ IntOn(w, S) => IntOn(w, T)
                   /\ NatOn(w, S) => NatOn(w, T)
  <1>1. IsFiniteSet(T)
    BY FS_Subset
  <1>2. QED
    BY <1>1 DEF IntOn, NatOn

\* A sum of integers is an integer, and any element may be taken first.
LEMMA SumAny ==
  ASSUME NEW S, IsFiniteSet(S), NEW w, IntOn(w, S)
  PROVE  /\ SumFunctionOnSet(w, S) \in Int
         /\ \A x \in S : SumFunctionOnSet(w, S) = w[x] + SumFunctionOnSet(w, S \ {x})
  <1> DEFINE sum(T) == SumFunctionOnSet(w, T)
             G == {T \in SUBSET S : sum(T) \in Int /\ \A x \in T : sum(T) = w[x] + sum(T \ {x})}
  <1>1. ASSUME NEW T \in SUBSET S, \A U \in SUBSET T : U # T => U \in G
        PROVE  T \in G
    <2> DEFINE e == NextSummand(T)
    <2>1. sum(T) = IF T = {} THEN 0 ELSE w[e] + sum(T \ {e})
      BY FS_Subset, SumStep
    <2>2. CASE T = {}
      BY <2>1, <2>2
    <2>3. CASE T # {}
      <3>1. e \in T /\ T \ {e} \in G /\ w[e] \in Int
        BY <1>1, <2>3, NextIn DEF IntOn
      <3>2. sum(T \ {e}) \in Int
        BY <3>1
      <3>3. ASSUME NEW x \in T, x # e PROVE sum(T) = w[x] + sum(T \ {x})
        <4>1. T \ {x} \in G /\ w[x] \in Int
          BY <1>1, <3>3 DEF IntOn
        <4>2. sum(T \ {e}) = w[x] + sum((T \ {e}) \ {x})
          BY <3>1, <3>3
        <4>3. sum(T \ {x}) = w[e] + sum((T \ {x}) \ {e})
          BY <3>1, <3>3, <4>1
        <4>4. (T \ {e}) \ {x} = (T \ {x}) \ {e} /\ (T \ {e}) \ {x} \in G
          BY <1>1, <3>1
        <4>5. sum((T \ {e}) \ {x}) \in Int /\ sum((T \ {e}) \ {x}) = sum((T \ {x}) \ {e})
          BY <4>4
        <4>6. sum(T) = w[e] + sum(T \ {e})
          BY <2>1, <2>3
        <4> HIDE DEF sum, e
        <4>7. \A a, b, c \in Int : a + (b + c) = b + (a + c)
          OBVIOUS
        <4>8. w[e] + (w[x] + sum((T \ {e}) \ {x})) = w[x] + (w[e] + sum((T \ {e}) \ {x}))
          BY <3>1, <4>1, <4>5, <4>7
        <4>9. QED
          BY <4>2, <4>3, <4>5, <4>6, <4>8
      <3>4. sum(T) = w[e] + sum(T \ {e})
        BY <2>1, <2>3
      <3>5. sum(T) \in Int
        <4> HIDE DEF sum, e
        <4>1. QED
          BY <3>1, <3>2, <3>4
      <3>6. \A x \in T : sum(T) = w[x] + sum(T \ {x})
        <4> HIDE DEF sum, e
        <4>1. QED
          BY <3>3, <3>4
      <3>7. QED
        BY <3>5, <3>6
    <2>4. QED
      BY <2>2, <2>3
  <1>2. S \in G
    <2> HIDE DEF G
    <2>1. QED
      BY <1>1, StrongSetInduction
  <1>3. QED
    BY <1>2

\* A sum is an integer, or a natural number, when its summands are.
LEMMA SumInt == ASSUME NEW S, IsFiniteSet(S), NEW w, IntOn(w, S) PROVE SumFunctionOnSet(w, S) \in Int
  BY SumAny

\* The empty sum.
LEMMA SumEmpty == ASSUME NEW w PROVE SumFunctionOnSet(w, {}) = 0
  BY SumStep, FS_EmptySet

\* A sum over a set and one more element.
LEMMA SumAdd ==
  ASSUME NEW S, IsFiniteSet(S), NEW w, NEW x, x \notin S, IntOn(w, S \cup {x})
  PROVE  SumFunctionOnSet(w, S \cup {x}) = w[x] + SumFunctionOnSet(w, S)
  <1>1. IsFiniteSet(S \cup {x}) /\ (S \cup {x}) \ {x} = S /\ x \in S \cup {x}
    BY FS_AddElement
  <1>2. SumFunctionOnSet(w, S \cup {x}) = w[x] + SumFunctionOnSet(w, (S \cup {x}) \ {x})
    BY <1>1, SumAny
  <1>3. QED
    BY <1>1, <1>2

\* Functions that agree on a set have one sum over it.
LEMMA SumSame ==
  ASSUME NEW S, IsFiniteSet(S), NEW w, NEW v, SameOn(w, v, S)
  PROVE  SumFunctionOnSet(w, S) = SumFunctionOnSet(v, S)
  <1> DEFINE G == {T \in SUBSET S : SumFunctionOnSet(w, T) = SumFunctionOnSet(v, T)}
  <1>1. ASSUME NEW T \in SUBSET S, \A U \in SUBSET T : U # T => U \in G
        PROVE  T \in G
    <2>1. /\ SumFunctionOnSet(w, T)
               = IF T = {} THEN 0 ELSE w[NextSummand(T)] + SumFunctionOnSet(w, T \ {NextSummand(T)})
          /\ SumFunctionOnSet(v, T)
               = IF T = {} THEN 0 ELSE v[NextSummand(T)] + SumFunctionOnSet(v, T \ {NextSummand(T)})
      BY FS_Subset, SumStep
    <2>2. T # {} => /\ T \ {NextSummand(T)} \in G
                    /\ w[NextSummand(T)] = v[NextSummand(T)]
      BY <1>1, NextIn DEF SameOn
    <2>3. QED
      BY <2>1, <2>2
  <1>2. S \in G
    <2> HIDE DEF G
    <2>1. QED
      BY <1>1, StrongSetInduction
  <1>3. QED
    BY <1>2

\* A change of one summand changes the sum by as much.
LEMMA SumChange ==
  ASSUME NEW S, IsFiniteSet(S), NEW w, NEW v, NEW x \in S,
         IntOn(w, S), IntOn(v, S), SameOn(w, v, S \ {x})
  PROVE  SumFunctionOnSet(v, S) = SumFunctionOnSet(w, S) + (v[x] - w[x])
  <1> DEFINE T == S \ {x}
  <1>1. IsFiniteSet(T) /\ IntOn(w, T)
    BY Smaller
  <1>2. SumFunctionOnSet(w, T) = SumFunctionOnSet(v, T) /\ SumFunctionOnSet(w, T) \in Int
    <2> HIDE DEF T
    <2>1. SameOn(w, v, T)
      BY DEF T
    <2>2. QED
      BY <1>1, <2>1, SumSame, SumInt
  <1>3. /\ SumFunctionOnSet(w, S) = w[x] + SumFunctionOnSet(w, T)
        /\ SumFunctionOnSet(v, S) = v[x] + SumFunctionOnSet(v, T)
    BY SumAny
  <1>4. w[x] \in Int /\ v[x] \in Int
    BY DEF IntOn
  <1>5. QED
    BY <1>2, <1>3, <1>4

\* A change of two summands.
LEMMA SumChangeTwo ==
  ASSUME NEW S, IsFiniteSet(S), NEW w, NEW v, NEW x \in S, NEW y \in S, x # y,
         IntOn(w, S), IntOn(v, S), SameOn(w, v, S \ {x, y})
  PROVE  SumFunctionOnSet(v, S) = SumFunctionOnSet(w, S) + (v[x] - w[x]) + (v[y] - w[y])
  <1> DEFINE u == [z \in S |-> IF z = x THEN v[z] ELSE w[z]]
  <1>1. IntOn(u, S) /\ SameOn(w, u, S \ {x}) /\ SameOn(u, v, S \ {y}) /\ u[x] = v[x] /\ u[y] = w[y]
    BY DEF IntOn, SameOn
  <1> HIDE DEF u
  <1>2. SumFunctionOnSet(u, S) = SumFunctionOnSet(w, S) + (u[x] - w[x])
    BY <1>1, SumChange
  <1>3. SumFunctionOnSet(v, S) = SumFunctionOnSet(u, S) + (v[y] - u[y])
    BY <1>1, SumChange
  <1>4. QED
    BY <1>1, <1>2, <1>3

\* Nothing adds up to nothing.
LEMMA SumZero ==
  ASSUME NEW S, IsFiniteSet(S), NEW w, \A x \in S : w[x] = 0
  PROVE  SumFunctionOnSet(w, S) = 0
  <1> DEFINE G == {T \in SUBSET S : SumFunctionOnSet(w, T) = 0}
  <1>1. {} \in G
    BY SumEmpty
  <1>2. ASSUME NEW T \in SUBSET S, NEW x \in S \ T, T \in G PROVE T \cup {x} \in G
    <2>1. SumFunctionOnSet(w, T \cup {x}) = w[x] + SumFunctionOnSet(w, T)
      <3>1. IsFiniteSet(T) /\ IntOn(w, T \cup {x})
        BY FS_Subset DEF IntOn
      <3>2. QED
        BY <3>1, SumAdd
    <2>2. w[x] = 0 /\ SumFunctionOnSet(w, T) = 0
      BY <1>2
    <2>3. SumFunctionOnSet(w, T \cup {x}) = 0
      BY <2>1, <2>2
    <2>4. QED
      BY <2>3
  <1>3. S \in G
    <2> HIDE DEF G
    <2>1. QED
      BY <1>1, <1>2, SetInduction
  <1>4. QED
    BY <1>3

\* A sum of natural numbers is one.
LEMMA SumNat == ASSUME NEW S, IsFiniteSet(S), NEW w, NatOn(w, S) PROVE SumFunctionOnSet(w, S) \in Nat
  <1> DEFINE G == {T \in SUBSET S : SumFunctionOnSet(w, T) \in Nat}
  <1>1. {} \in G
    BY SumEmpty
  <1>2. ASSUME NEW T \in SUBSET S, NEW x \in S \ T, T \in G PROVE T \cup {x} \in G
    <2>1. SumFunctionOnSet(w, T) \in Nat /\ w[x] \in Nat
      BY <1>2 DEF NatOn
    <2>2. SumFunctionOnSet(w, T \cup {x}) = w[x] + SumFunctionOnSet(w, T)
      <3>1. IsFiniteSet(T) /\ IntOn(w, T \cup {x})
        BY FS_Subset DEF NatOn, IntOn
      <3>2. QED
        BY <3>1, SumAdd
    <2>3. SumFunctionOnSet(w, T \cup {x}) \in Nat
      BY <2>1, <2>2
    <2>4. QED
      BY <2>3
  <1>3. S \in G
    <2> HIDE DEF G
    <2>1. QED
      BY <1>1, <1>2, SetInduction
  <1>4. QED
    BY <1>3

\* No summand, and no two together, is larger than a sum of natural numbers.
LEMMA SumOfOne ==
  ASSUME NEW S, IsFiniteSet(S), NEW w, NEW x \in S, NatOn(w, S)
  PROVE  w[x] <= SumFunctionOnSet(w, S)
  <1>1. SumFunctionOnSet(w, S) = w[x] + SumFunctionOnSet(w, S \ {x})
    <2>1. IntOn(w, S)
      BY DEF IntOn, NatOn
    <2>2. QED
      BY <2>1, SumAny
  <1>2. SumFunctionOnSet(w, S \ {x}) \in Nat
    <2>1. S \ {x} \subseteq S
      OBVIOUS
    <2>2. QED
      BY <2>1, Smaller, SumNat
  <1>3. w[x] \in Nat
    BY DEF NatOn
  <1>4. QED
    BY <1>1, <1>2, <1>3

\* Two of the summands are at most the sum.
LEMMA SumOfTwo ==
  ASSUME NEW S, IsFiniteSet(S), NEW w, NEW x \in S, NEW y \in S, x # y, NatOn(w, S)
  PROVE  w[x] + w[y] <= SumFunctionOnSet(w, S)
  <1> DEFINE T == S \ {x}
  <1>1. SumFunctionOnSet(w, S) = w[x] + SumFunctionOnSet(w, T)
    <2>1. IntOn(w, S)
      BY DEF IntOn, NatOn
    <2>2. QED
      BY <2>1, SumAny
  <1>2. w[y] <= SumFunctionOnSet(w, T) /\ SumFunctionOnSet(w, T) \in Nat
    <2>1. IsFiniteSet(T) /\ y \in T /\ NatOn(w, T)
      BY Smaller
    <2> HIDE DEF T
    <2>2. QED
      BY <2>1, SumOfOne, SumNat
  <1>3. w[x] \in Nat /\ w[y] \in Nat
    BY DEF NatOn
  <1>4. QED
    BY <1>1, <1>2, <1>3

\* Sums are added, summand by summand.
LEMMA SumPlus ==
  ASSUME NEW S, IsFiniteSet(S), NEW w, NEW v, NEW u,
         IntOn(w, S), IntOn(v, S), PlusOn(u, w, v, S)
  PROVE  SumFunctionOnSet(u, S) = SumFunctionOnSet(w, S) + SumFunctionOnSet(v, S)
  <1> DEFINE G == {T \in SUBSET S :
                     SumFunctionOnSet(u, T) = SumFunctionOnSet(w, T) + SumFunctionOnSet(v, T)}
  <1>1. {} \in G
    BY SumEmpty
  <1>2. ASSUME NEW T \in SUBSET S, NEW x \in S \ T, T \in G PROVE T \cup {x} \in G
    <2>1. IsFiniteSet(T) /\ SumFunctionOnSet(u, T) = SumFunctionOnSet(w, T) + SumFunctionOnSet(v, T)
      BY <1>2, FS_Subset
    <2>2. IntOn(w, T \cup {x}) /\ IntOn(v, T \cup {x}) /\ IntOn(u, T \cup {x})
      BY DEF IntOn, PlusOn
    <2>3. /\ SumFunctionOnSet(u, T \cup {x}) = u[x] + SumFunctionOnSet(u, T)
          /\ SumFunctionOnSet(w, T \cup {x}) = w[x] + SumFunctionOnSet(w, T)
          /\ SumFunctionOnSet(v, T \cup {x}) = v[x] + SumFunctionOnSet(v, T)
      BY <2>1, <2>2, SumAdd
    <2>4. SumFunctionOnSet(w, T) \in Int /\ SumFunctionOnSet(v, T) \in Int
      <3>1. IntOn(w, T) /\ IntOn(v, T)
        BY DEF IntOn
      <3>2. QED
        BY <2>1, <3>1, SumInt
    <2>5. w[x] \in Int /\ v[x] \in Int /\ u[x] = w[x] + v[x]
      BY DEF IntOn, PlusOn
    <2>6. SumFunctionOnSet(u, T \cup {x})
            = SumFunctionOnSet(w, T \cup {x}) + SumFunctionOnSet(v, T \cup {x})
      BY <2>1, <2>3, <2>4, <2>5
    <2>7. QED
      BY <2>6
  <1>3. S \in G
    <2> HIDE DEF G
    <2>1. QED
      BY <1>1, <1>2, SetInduction
  <1>4. QED
    BY <1>3

\* Smaller summands, a smaller sum.
LEMMA SumLeq ==
  ASSUME NEW S, IsFiniteSet(S), NEW w, NEW v, IntOn(w, S), IntOn(v, S), AtMostOn(w, v, S)
  PROVE  SumFunctionOnSet(w, S) <= SumFunctionOnSet(v, S)
  <1> DEFINE d == [x \in S |-> v[x] - w[x]]
  <1>1. PlusOn(v, w, d, S) /\ NatOn(d, S) /\ IntOn(d, S)
    BY DEF IntOn, NatOn, AtMostOn, PlusOn
  <1> HIDE DEF d
  <1>2. SumFunctionOnSet(v, S) = SumFunctionOnSet(w, S) + SumFunctionOnSet(d, S)
    BY <1>1, SumPlus
  <1>3. SumFunctionOnSet(w, S) \in Int /\ SumFunctionOnSet(d, S) \in Nat
    BY <1>1, SumInt, SumNat
  <1>4. QED
    BY <1>2, <1>3

\* A sum over two sets that have nothing in common.
LEMMA SumSplit ==
  ASSUME NEW S, IsFiniteSet(S), NEW R, IsFiniteSet(R), S \cap R = {}, NEW w, IntOn(w, S \cup R)
  PROVE  SumFunctionOnSet(w, S \cup R) = SumFunctionOnSet(w, S) + SumFunctionOnSet(w, R)
  <1> DEFINE G == {T \in SUBSET S :
                     SumFunctionOnSet(w, T \cup R) = SumFunctionOnSet(w, T) + SumFunctionOnSet(w, R)}
  <1>0. SumFunctionOnSet(w, R) \in Int
    <2>1. IntOn(w, R)
      BY DEF IntOn
    <2>2. QED
      BY <2>1, SumInt
  <1>1. {} \in G
    <2>1. SumFunctionOnSet(w, {} \cup R) = SumFunctionOnSet(w, R)
      <3>1. {} \cup R = R
        OBVIOUS
      <3>2. QED
        BY <3>1
    <2>2. QED
      BY <1>0, <2>1, SumEmpty
  <1>2. ASSUME NEW T \in SUBSET S, NEW x \in S \ T, T \in G PROVE T \cup {x} \in G
    <2>1. /\ IsFiniteSet(T) /\ IsFiniteSet(T \cup R)
          /\ SumFunctionOnSet(w, T \cup R) = SumFunctionOnSet(w, T) + SumFunctionOnSet(w, R)
      BY <1>2, FS_Subset, FS_Union
    <2>2. x \notin T /\ x \notin T \cup R /\ (T \cup R) \cup {x} = (T \cup {x}) \cup R
      OBVIOUS
    <2>3. IntOn(w, (T \cup R) \cup {x}) /\ IntOn(w, T \cup {x}) /\ IntOn(w, T) /\ w[x] \in Int
      BY DEF IntOn
    <2>4. /\ SumFunctionOnSet(w, (T \cup R) \cup {x}) = w[x] + SumFunctionOnSet(w, T \cup R)
          /\ SumFunctionOnSet(w, T \cup {x}) = w[x] + SumFunctionOnSet(w, T)
      BY <2>1, <2>2, <2>3, SumAdd
    <2>5. SumFunctionOnSet(w, T) \in Int
      BY <2>1, <2>3, SumInt
    <2>6. SumFunctionOnSet(w, (T \cup R) \cup {x})
            = SumFunctionOnSet(w, T \cup {x}) + SumFunctionOnSet(w, R)
      BY <1>0, <2>1, <2>3, <2>4, <2>5
    <2>7. QED
      BY <2>2, <2>6
  <1>3. S \in G
    <2> HIDE DEF G
    <2>1. QED
      BY <1>1, <1>2, SetInduction
  <1>4. QED
    BY <1>3

\* A sum over one number more.
LEMMA SumNext ==
  ASSUME NEW n \in Nat, NEW w, NEW v, IntOn(w, 1..n), IntOn(v, 1..(n + 1)), SameOn(v, w, 1..n)
  PROVE  SumFunctionOnSet(v, 1..(n + 1)) = SumFunctionOnSet(w, 1..n) + v[n + 1]
  <1> DEFINE S == 1..n
             R == 1..(n + 1)
  <1>1. IsFiniteSet(S)
    BY FS_Interval
  <1>2. n + 1 \notin S /\ R = S \cup {n + 1}
    OBVIOUS
  <1>3. IntOn(v, R) /\ IntOn(w, S) /\ SameOn(v, w, S) /\ n + 1 \in R
    OBVIOUS
  <1> SUFFICES SumFunctionOnSet(v, R) = SumFunctionOnSet(w, S) + v[n + 1]
    OBVIOUS
  <1> HIDE DEF S, R
  <1>4. v[n + 1] \in Int
    BY <1>3 DEF IntOn
  <1>5. SumFunctionOnSet(v, R) = v[n + 1] + SumFunctionOnSet(v, S)
    BY <1>1, <1>2, <1>3, SumAdd
  <1>6. SumFunctionOnSet(v, S) = SumFunctionOnSet(w, S)
    BY <1>1, <1>3, SumSame
  <1>7. SumFunctionOnSet(w, S) \in Int
    BY <1>1, <1>3, SumInt
  <1>8. QED
    BY <1>4, <1>5, <1>6, <1>7

\* A sum whose summands are those of another one, each moved by one, after a first.
LEMMA SumShift ==
  ASSUME NEW n \in Nat, NEW w, NEW v, IntOn(w, 1..n), IntOn(v, 1..(n + 1)),
         \A i \in 1..n : v[i + 1] = w[i]
  PROVE  SumFunctionOnSet(v, 1..(n + 1)) = v[1] + SumFunctionOnSet(w, 1..n)
  <1> DEFINE sv(k) == SumFunctionOnSet(v, 1..k)
             sw(k) == SumFunctionOnSet(w, 1..k)
             G == {k \in Nat : k <= n => sv(k + 1) = v[1] + sw(k)}
  <1>1. \A k \in Nat : k <= n => IntOn(w, 1..k) /\ IntOn(v, 1..(k + 1)) /\ v[1] \in Int
    BY DEF IntOn
  <1>2. ASSUME NEW k \in Nat, k < n
        PROVE  sw(k + 1) = sw(k) + w[k + 1] /\ sv((k + 1) + 1) = sv(k + 1) + v[(k + 1) + 1]
    <2>1. IntOn(w, 1..k) /\ IntOn(w, 1..(k + 1)) /\ IntOn(v, 1..(k + 1)) /\ IntOn(v, 1..((k + 1) + 1))
      BY <1>2 DEF IntOn
    <2>2. SameOn(w, w, 1..k) /\ SameOn(v, v, 1..(k + 1)) /\ k + 1 \in Nat
      BY DEF SameOn
    <2>3. sw(k + 1) = sw(k) + w[k + 1]
      BY <2>1, <2>2, SumNext
    <2>4. sv((k + 1) + 1) = sv(k + 1) + v[(k + 1) + 1]
      BY <2>1, <2>2, SumNext
    <2>5. QED
      BY <2>3, <2>4
  <1>3. sv(1) = v[1] /\ sw(0) = 0
    <2>1. IntOn(v, 1..0) /\ IntOn(v, 1..(0 + 1)) /\ SameOn(v, v, 1..0) /\ 1..0 = {} /\ 0 \in Nat
      BY <1>1 DEF IntOn, SameOn
    <2>2. sw(0) = 0 /\ sv(0) = 0
      BY <2>1, SumEmpty
    <2>3. sv(0 + 1) = sv(0) + v[0 + 1]
      BY <2>1, SumNext
    <2>4. QED
      BY <1>1, <2>2, <2>3
  <1>4. \A k \in Nat : k <= n => sw(k) \in Int
    <2>1. \A k \in Nat : IsFiniteSet(1..k)
      BY FS_Interval
    <2>2. QED
      BY <1>1, <2>1, SumInt
  <1>5. ASSUME NEW k \in Nat, \A m \in Nat : m < k => m \in G PROVE k \in G
    <2> SUFFICES ASSUME k <= n PROVE sv(k + 1) = v[1] + sw(k)
      OBVIOUS
    <2>1. CASE k = 0
      BY <1>1, <1>3, <2>1
    <2>2. CASE k # 0
      <3>1. k - 1 \in Nat /\ k - 1 < n /\ k - 1 < k /\ (k - 1) + 1 = k
        BY <2>2
      <3>2. sv((k - 1) + 1) = v[1] + sw(k - 1)
        BY <1>5, <3>1
      <3>3. sw((k - 1) + 1) = sw(k - 1) + w[(k - 1) + 1]
            /\ sv(((k - 1) + 1) + 1) = sv((k - 1) + 1) + v[((k - 1) + 1) + 1]
        BY <1>2, <3>1
      <3>4. k \in 1..n /\ v[k + 1] = w[k] /\ w[k] \in Int /\ v[1] \in Int /\ sw(k - 1) \in Int
        <4>1. k \in 1..n /\ k - 1 <= n
          BY <2>2
        <4>2. QED
          BY <1>1, <1>4, <3>1, <4>1 DEF IntOn
      <3> HIDE DEF sv, sw
      <3>5. sw(k) = sw(k - 1) + w[k] /\ sv(k + 1) = sv(k) + v[k + 1] /\ sv(k) = v[1] + sw(k - 1)
        BY <3>1, <3>2, <3>3
      <3>6. QED
        BY <3>4, <3>5
    <2>3. QED
      BY <2>1, <2>2
  <1>6. n \in G
    <2> HIDE DEF G
    <2>1. QED
      BY <1>5, NatStrongInduction
  <1>7. QED
    BY <1>6

-----------------------------------------------------------------------------
(***************************************************************************)
(* Extremes of finite sets of integers.                                    *)
(***************************************************************************)

\* A finite set of integers that has a member has a greatest and a least one.
LEMMA Extremes ==
  ASSUME NEW S, IsFiniteSet(S), S \subseteq Int, S # {}
  PROVE  (\E x \in S : \A y \in S : x >= y) /\ (\E x \in S : \A y \in S : x <= y)
  <1> DEFINE HasMax(T) == \E x \in T : \A y \in T : x >= y
             HasMin(T) == \E x \in T : \A y \in T : x <= y
             G == {T \in SUBSET S : T = {} \/ (HasMax(T) /\ HasMin(T))}
  <1>1. {} \in G
    OBVIOUS
  <1>2. ASSUME NEW T \in SUBSET S, NEW z \in S \ T, T \in G
        PROVE  T \cup {z} \in G
    <2>1. T \cup {z} \in SUBSET S /\ z \in Int
      OBVIOUS
    <2>2. CASE T = {}
      <3>1. HasMax(T \cup {z}) /\ HasMin(T \cup {z})
        BY <2>1, <2>2
      <3>2. QED
        BY <2>1, <3>1
    <2>3. CASE T # {}
      <3>1. HasMax(T) /\ HasMin(T)
        BY <1>2, <2>3
      <3>2. HasMax(T \cup {z})
        <4>1. PICK x \in T : \A y \in T : x >= y
          BY <3>1
        <4>2. x \in Int /\ T \subseteq Int
          OBVIOUS
        <4>3. CASE x >= z
          BY <4>1, <4>3
        <4>4. CASE z >= x
          BY <2>1, <4>1, <4>2, <4>4
        <4>5. QED
          BY <2>1, <4>2, <4>3, <4>4
      <3>3. HasMin(T \cup {z})
        <4>1. PICK x \in T : \A y \in T : x <= y
          BY <3>1
        <4>2. x \in Int /\ T \subseteq Int
          OBVIOUS
        <4>3. CASE x <= z
          BY <4>1, <4>3
        <4>4. CASE z <= x
          BY <2>1, <4>1, <4>2, <4>4
        <4>5. QED
          BY <2>1, <4>2, <4>3, <4>4
      <3>4. QED
        BY <2>1, <3>2, <3>3
    <2>4. QED
      BY <2>2, <2>3
  <1> HIDE DEF G
  <1>3. S \in G
    BY <1>1, <1>2, SetInduction
  <1> USE DEF G
  <1>4. QED
    BY <1>3

\* What Max and Min of the community modules choose.
LEMMA MaxMin ==
  ASSUME NEW S, IsFiniteSet(S), S \subseteq Int, S # {}
  PROVE  /\ Max(S) \in S /\ Max(S) \in Int /\ \A y \in S : y <= Max(S)
         /\ Min(S) \in S /\ Min(S) \in Int /\ \A y \in S : Min(S) <= y
  <1>1. (\E x \in S : \A y \in S : x >= y) /\ (\E x \in S : \A y \in S : x <= y)
    BY Extremes
  <1>2. Max(S) \in S /\ \A y \in S : Max(S) >= y
    BY <1>1 DEF Max
  <1>3. Min(S) \in S /\ \A y \in S : Min(S) <= y
    BY <1>1 DEF Min
  <1>4. QED
    BY <1>2, <1>3

\* The smaller of two amounts.
LEMMA MinOfTwo ==
  ASSUME NEW a \in Int, NEW b \in Int
  PROVE  Min({a, b}) = IF a <= b THEN a ELSE b
  <1>1. {a, b} \subseteq Int /\ {a, b} # {}
    OBVIOUS
  <1>2. IsFiniteSet({a, b})
    <2>1. IsFiniteSet({a})
      BY FS_Singleton
    <2>2. IsFiniteSet({a} \cup {b}) /\ {a} \cup {b} = {a, b}
      BY <2>1, FS_AddElement
    <2>3. QED
      BY <2>2
  <1>3. Min({a, b}) \in {a, b} /\ \A y \in {a, b} : Min({a, b}) <= y
    BY <1>1, <1>2, MaxMin
  <1>4. QED
    BY <1>3

\* The extremes of one number, and of a set and one number more.
LEMMA ExtremesGrow ==
  ASSUME NEW S, IsFiniteSet(S), S \subseteq Int, NEW x \in Int
  PROVE  /\ IsFiniteSet(S \cup {x})
         /\ S = {} => Max(S \cup {x}) = x /\ Min(S \cup {x}) = x
         /\ S # {} => /\ Max(S \cup {x}) = Max({Max(S), x}) /\ Min(S \cup {x}) = Min({Min(S), x})
                      /\ (\A y \in S : y < x) => Min(S \cup {x}) = Min(S)
         /\ (\A y \in S : y < x) => Max(S \cup {x}) = x
  <1>1. IsFiniteSet(S \cup {x}) /\ S \cup {x} # {} /\ S \cup {x} \subseteq Int
    BY FS_AddElement
  <1> DEFINE R == S \cup {x}
             most == Max(R)
             least == Min(R)
  <1>2. most \in R /\ most \in Int /\ (\A y \in R : y <= most) /\ least \in R /\ least \in Int /\ \A y \in R : least <= y
    <2>1. IsFiniteSet(R) /\ R # {} /\ R \subseteq Int
      BY <1>1
    <2> HIDE DEF R
    <2>2. QED
      BY <2>1, MaxMin
  <1> HIDE DEF most, least
  <1>3. S = {} => most = x /\ least = x
    BY <1>2
  <1>4. ASSUME S # {}
        PROVE  /\ most = Max({Max(S), x}) /\ least = Min({Min(S), x})
               /\ (\A y \in S : y < x) => least = Min(S)
    <2> DEFINE top == Max(S)
               low == Min(S)
               P == {top, x}
               Q == {low, x}
    <2>1. top \in S /\ top \in Int /\ (\A y \in S : y <= top) /\ low \in S /\ low \in Int /\ \A y \in S : low <= y
      BY <1>4, MaxMin
    <2> HIDE DEF top, low
    <2>2. IsFiniteSet(P) /\ IsFiniteSet(Q)
      <3>1. IsFiniteSet({top} \cup {x}) /\ IsFiniteSet({low} \cup {x})
        BY FS_Singleton, FS_AddElement
      <3>2. P = {top} \cup {x} /\ Q = {low} \cup {x}
        OBVIOUS
      <3>3. QED
        BY <3>1, <3>2
    <2>3. P \subseteq Int /\ P # {} /\ Q \subseteq Int /\ Q # {}
      BY <2>1
    <2> DEFINE up == Max(P)
               down == Min(Q)
    <2>4. up \in P /\ up \in Int /\ (\A y \in P : y <= up) /\ down \in Q /\ down \in Int /\ \A y \in Q : down <= y
      <3> HIDE DEF P, Q
      <3>1. QED
        BY <2>2, <2>3, MaxMin
    <2> HIDE DEF up, down
    <2>5. most = up
      <3>1. top <= most /\ x <= most /\ top <= up /\ x <= up
        BY <1>2, <2>1, <2>4
      <3>2. most <= up
        <4>1. most \in S \/ most = x
          BY <1>2
        <4>2. most <= top \/ most = x
          BY <2>1, <4>1
        <4>3. QED
          BY <1>2, <2>1, <2>4, <3>1, <4>2
      <3>3. up <= most
        <4>1. up = top \/ up = x
          BY <2>4
        <4>2. QED
          BY <3>1, <4>1
      <3>4. QED
        BY <1>2, <2>4, <3>2, <3>3
    <2>6. least = down
      <3>1. least <= low /\ least <= x /\ down <= low /\ down <= x
        BY <1>2, <2>1, <2>4
      <3>2. down <= least
        <4>1. least \in S \/ least = x
          BY <1>2
        <4>2. low <= least \/ least = x
          BY <2>1, <4>1
        <4>3. QED
          BY <1>2, <2>1, <2>4, <3>1, <4>2
      <3>3. least <= down
        <4>1. down = low \/ down = x
          BY <2>4
        <4>2. QED
          BY <3>1, <4>1
      <3>4. QED
        BY <1>2, <2>4, <3>2, <3>3
    <2>7. ASSUME \A y \in S : y < x PROVE least = low
      <3>1. least <= low /\ low < x
        BY <1>2, <2>1, <2>7
      <3>2. least \in S
        BY <1>2, <2>1, <3>1
      <3>3. low <= least
        BY <2>1, <3>2
      <3>4. QED
        BY <1>2, <2>1, <3>1, <3>3
    <2>8. QED
      BY <2>5, <2>6, <2>7 DEF up, down, top, low
  <1>5. ASSUME \A y \in S : y < x PROVE most = x
    <2>1. x <= most
      BY <1>2
    <2>2. most \in S => most < x
      BY <1>5
    <2>3. QED
      BY <1>2, <2>1, <2>2
  <1>6. QED
    BY <1>1, <1>3, <1>4, <1>5 DEF most, least

-----------------------------------------------------------------------------
(***************************************************************************)
(* Sequences that are given as functions.                                  *)
(***************************************************************************)
\* A function on 1..n is a sequence.
LEMMA SeqOfFn ==
  ASSUME NEW S, NEW n \in Nat, NEW f \in [1..n -> S]
  PROVE  f \in Seq(S) /\ Len(f) = n
  OBVIOUS

\* The function that has x after f, which is a function on 1..n.
Longer(S, n, f, x) == {g \in [1 .. n + 1 -> S] : g[n + 1] = x /\ \A i \in 1..n : g[i] = f[i]}

\* It is what appending makes.
LEMMA AppendFn ==
  ASSUME NEW S, NEW n \in Nat, NEW f \in [1..n -> S], NEW x \in S
  PROVE  Append(f, x) \in Longer(S, n, f, x)
  <1>1. f \in Seq(S) /\ Len(f) = n
    BY SeqOfFn
  <1>2. Append(f, x) \in Seq(S) /\ Len(Append(f, x)) = n + 1
    BY <1>1
  <1>3. Append(f, x)[n + 1] = x
    BY <1>1
  <1>4. \A i \in 1..n : Append(f, x)[i] = f[i]
    BY <1>1
  <1>5. Append(f, x) \in [1 .. n + 1 -> S]
    <2>1. \A g \in Seq(S) : g \in [1 .. Len(g) -> S]
      OBVIOUS
    <2>2. QED
      BY <1>2, <2>1
  <1>6. QED
    BY <1>3, <1>4, <1>5 DEF Longer

-----------------------------------------------------------------------------
(***************************************************************************)
(* Fractions in lowest terms.                                              *)
(***************************************************************************)

\* A quotient that comes out even, or leaves a remainder.
LEMMA DivisionIs ==
  ASSUME NEW n \in Int, NEW d \in Nat \ {0}
  PROVE  /\ n \div d \in Int /\ n % d \in Nat /\ n % d < d /\ n = (n \div d) * d + (n % d)
         /\ n >= 0 => n \div d \in Nat
  <1>1. n \div d \in Int /\ n % d \in 0 .. d - 1 /\ n = d * (n \div d) + (n % d)
    OBVIOUS
  <1> DEFINE q == n \div d
             r == n % d
  <1>2. q \in Int /\ r \in Nat /\ r < d /\ n = d * q + r
    BY <1>1
  <1> HIDE DEF q, r
  <1>3. n >= 0 => q >= 0
    <2> SUFFICES ASSUME n >= 0, q <= -1 PROVE FALSE
      BY <1>2
    <2>1. d * q <= -d
      BY <1>2
    <2>2. QED
      BY <1>2, <2>1
  <1>4. d * q = q * d
    BY <1>2
  <1>5. QED
    BY <1>2, <1>3, <1>4 DEF q, r

\* A product is divided by its factor.
LEMMA DivisionExact ==
  ASSUME NEW k \in Int, NEW d \in Nat \ {0}
  PROVE  (k * d) \div d = k
  <1> DEFINE q == (k * d) \div d
             r == (k * d) % d
  <1>0. k * d \in Int
    OBVIOUS
  <1>1. q \in Int /\ r \in Nat /\ r < d /\ k * d = q * d + r
    BY <1>0, DivisionIs
  <1> HIDE DEF q, r
  <1>2. (k - q) * d = r
    BY <1>1
  <1>3. CASE k - q >= 1
    <2>1. (k - q) * d >= d
      BY <1>1, <1>3
    <2>2. QED
      BY <1>1, <1>2, <2>1
  <1>4. CASE k - q <= -1
    <2>1. (k - q) * d <= -d
      BY <1>1, <1>4
    <2>2. QED
      BY <1>1, <1>2, <2>1
  <1>5. k - q = 0 => k = q
    BY <1>1
  <1>6. QED
    BY <1>1, <1>3, <1>4, <1>5 DEF q

\* Euclid's algorithm, one step at a time.
LEMMA GcdStep ==
  ASSUME NEW a \in Nat, NEW b \in Nat
  PROVE  Gcd[<<a, b>>] = IF b = 0 THEN a ELSE Gcd[<<b, a % b>>]
  <1> DEFINE S == Nat \X Nat
             next == [p \in S |-> IF p[2] = 0 THEN p ELSE <<p[2], p[1] % p[2]>>]
             rank == [p \in S |-> p[2]]
             last == [p \in S |-> p[1]]
             gcd == CHOOSE f : f = [p \in S |-> IF p[2] = 0 THEN p[1] ELSE f[<<p[2], p[1] % p[2]>>]]
  <1>1. ASSUME NEW p \in S
        PROVE  next[p] \in S /\ (rank[next[p]] < rank[p] <=> p[2] # 0)
    <2>1. p[1] \in Nat /\ p[2] \in Nat
      OBVIOUS
    <2>2. CASE p[2] = 0
      BY <2>1, <2>2
    <2>3. CASE p[2] # 0
      <3>1. p[1] % p[2] \in Nat /\ p[1] % p[2] < p[2]
        BY <2>1, <2>3, DivisionIs
      <3>2. next[p] = <<p[2], p[1] % p[2]>>
        BY <2>3
      <3>3. QED
        BY <2>1, <2>3, <3>1, <3>2
    <2>4. QED
      BY <2>2, <2>3
  <1>2. Goes(next, rank, S)
    BY <1>1 DEF Goes
  <1>3. PICK f : Descends(next, rank, last, S, f)
    <2> HIDE DEF next, rank, last, S
    <2>1. QED
      BY <1>2, DescentExists
  <1>4. f = [p \in S |-> IF p[2] = 0 THEN p[1] ELSE f[<<p[2], p[1] % p[2]>>]]
    <2>1. \A p \in S : (IF rank[next[p]] < rank[p] THEN f[next[p]] ELSE last[p])
                        = (IF p[2] = 0 THEN p[1] ELSE f[<<p[2], p[1] % p[2]>>])
      <3>1. SUFFICES ASSUME NEW p \in S
                     PROVE  (IF rank[next[p]] < rank[p] THEN f[next[p]] ELSE last[p])
                              = (IF p[2] = 0 THEN p[1] ELSE f[<<p[2], p[1] % p[2]>>])
        OBVIOUS
      <3>2. p[2] # 0 => next[p] = <<p[2], p[1] % p[2]>>
        OBVIOUS
      <3>3. last[p] = p[1]
        OBVIOUS
      <3> HIDE DEF next, rank, last
      <3>4. QED
        BY <1>1, <3>2, <3>3
    <2> HIDE DEF next, rank, last
    <2>2. QED
      BY <1>3, <2>1 DEF Descends
  <1>5. gcd = [p \in S |-> IF p[2] = 0 THEN p[1] ELSE gcd[<<p[2], p[1] % p[2]>>]]
    BY <1>4
  <1>6. Gcd = gcd
    BY DEF Gcd
  <1> HIDE DEF gcd
  <1>7. <<a, b>> \in S
    OBVIOUS
  <1>8. QED
    BY <1>5, <1>6, <1>7

\* A divisor of two numbers that is a combination of them is the greatest one.
Greatest(g, a, b) ==
  /\ g \in Nat
  /\ \E p, q \in Nat : a = p * g /\ b = q * g
  /\ \E u, v \in Int : u * a + v * b = g

\* What Euclid's algorithm computes.
LEMMA GcdIs ==
  ASSUME NEW a \in Nat, NEW b \in Nat PROVE Greatest(Gcd[<<a, b>>], a, b)
  <1> DEFINE G == {n \in Nat : \A m \in Nat : Greatest(Gcd[<<m, n>>], m, n)}
  <1>1. ASSUME NEW n \in Nat, \A k \in Nat : k < n => k \in G PROVE n \in G
    <2>1. SUFFICES ASSUME NEW m \in Nat PROVE Greatest(Gcd[<<m, n>>], m, n)
      OBVIOUS
    <2> DEFINE g == Gcd[<<m, n>>]
    <2>2. CASE n = 0
      <3>1. g = m
        BY <2>2, GcdStep
      <3>2. m = 1 * m /\ n = 0 * m /\ 1 * m + 0 * n = m
        BY <2>2
      <3>3. QED
        BY <3>1, <3>2 DEF Greatest
    <2>3. CASE n # 0
      <3> DEFINE k == m \div n
                 r == m % n
      <3>1. k \in Int /\ r \in Nat /\ r < n /\ m = k * n + r /\ k \in Nat
        BY <2>3, DivisionIs
      <3>2. g = Gcd[<<n, r>>]
        BY <2>3, GcdStep
      <3>3. Greatest(g, n, r)
        BY <1>1, <3>1, <3>2
      <3> HIDE DEF k, r, g
      <3>4. PICK p, q \in Nat : n = p * g /\ r = q * g
        BY <3>3 DEF Greatest
      <3>5. PICK u, v \in Int : u * n + v * r = g
        BY <3>3 DEF Greatest
      <3>6. g \in Nat
        BY <3>3 DEF Greatest
      <3>7. m = (k * p + q) * g
        BY <3>1, <3>4, <3>6
      <3>8. v * m + (u - v * k) * n = g
        <4>1. v * m = v * k * n + v * r
          BY <3>1
        <4>2. (u - v * k) * n = u * n - v * k * n
          BY <3>1
        <4>3. QED
          BY <3>1, <3>5, <4>1, <4>2
      <3>9. k * p + q \in Nat /\ u - v * k \in Int
        BY <3>1
      <3>10. QED
        BY <3>4, <3>6, <3>7, <3>8, <3>9 DEF Greatest, g
    <2>4. QED
      BY <2>2, <2>3
  <1>2. \A n \in Nat : n \in G
    <2> HIDE DEF G
    <2>1. QED
      BY <1>1, NatStrongInduction
  <1>3. QED
    BY <1>2
\* The numbers: lowest terms, which a combination that is 1 certifies.
Lowest(x) == \E u, v \in Int : u * x[1] + v * x[2] = 1
Number == {x \in Int \X (Nat \ {0}) : Lowest(x)}
\* What arithmetic makes: numbers, the infinities and NaN.
Ratio == Number \cup {<<-1, 0>>, <<0, 0>>, <<1, 0>>}

\* x is n by d.
Is(x, n, d) == x \in Number /\ n \in Int /\ d \in Int \ {0} /\ x[1] * d = n * x[2]

\* What a number is.
LEMMA NumberIs ==
  ASSUME NEW x \in Number
  PROVE  x[1] \in Int /\ x[2] \in Nat \ {0} /\ x = <<x[1], x[2]>> /\ x \in Fraction /\ IsNumber(x) /\ Is(x, x[1], x[2])
  <1>1. x \in Int \X (Nat \ {0})
    BY DEF Number
  <1>2. QED
    BY <1>1 DEF Fraction, IsNumber, Is

\* What a number, an infinity or NaN is.
LEMMA RatioIs ==
  ASSUME NEW x \in Ratio
  PROVE  x[1] \in Int /\ x[2] \in Nat /\ x = <<x[1], x[2]>> /\ x \in Fraction /\ (IsNumber(x) <=> x \in Number)
  <1>1. CASE x \in Number
    BY <1>1, NumberIs
  <1>2. CASE x \in {<<-1, 0>>, <<0, 0>>, <<1, 0>>}
    <2>1. x[1] \in Int /\ x[2] = 0 /\ x = <<x[1], x[2]>>
      BY <1>2
    <2>2. x \notin Number
      BY <2>1 DEF Number
    <2>3. QED
      BY <2>1, <2>2 DEF Fraction, IsNumber
  <1>3. QED
    BY <1>1, <1>2 DEF Ratio

\* The infinities and NaN come on top of the numbers.
LEMMA NumbersAreRatios == Number \subseteq Ratio
  BY DEF Ratio

\* Whole numbers.
LEMMA WholeIs ==
  ASSUME NEW n \in Int PROVE <<n, 1>> \in Number /\ Is(<<n, 1>>, n, 1)
  <1>1. 0 * n + 1 * 1 = 1
    OBVIOUS
  <1>2. <<n, 1>> \in Number
    BY <1>1 DEF Number, Lowest
  <1>3. QED
    BY <1>2 DEF Is

\* Dividing by the greatest common divisor leaves lowest terms of the same value.
LEMMA ReduceIs ==
  ASSUME NEW n \in Int, NEW d \in Int \ {0}
  PROVE  Is(Reduce[<<n, d>>], n, d)
  <1> DEFINE e == Abs(d)
             m == Abs(n)
             s == SignOf(d)
             g == Gcd[<<e, m>>]
  <1>1. e \in Nat \ {0} /\ m \in Nat /\ s \in {-1, 1} /\ s * s = 1 /\ d = s * e /\ (m = n \/ m = -n)
    BY DEF Abs, SignOf
  <1>2. Reduce[<<n, d>>] = <<(s * n) \div g, e \div g>>
    <2>1. Greatest(g, e, m)
      BY <1>1, GcdIs
    <2>2. g \in Nat
      BY <2>1 DEF Greatest
    <2>3. <<n, d>> \in Fraction /\ <<n, d>>[1] = n /\ <<n, d>>[2] = d
      BY DEF Fraction
    <2>4. Reduce[<<n, d>>] = DivideBy[<< <<n, d>>, g>>]
      BY <2>3 DEF Reduce
    <2> HIDE DEF g
    <2>5. << <<n, d>>, g>> \in Fraction \X Nat
      BY <2>2, <2>3
    <2>6. QED
      BY <2>3, <2>4, <2>5 DEF DivideBy
  <1>3. Greatest(g, e, m)
    BY <1>1, GcdIs
  <1> HIDE DEF g, e, m, s
  <1>4. PICK p, q \in Nat : e = p * g /\ m = q * g
    BY <1>3 DEF Greatest
  <1>5. PICK u, v \in Int : u * e + v * m = g
    BY <1>3 DEF Greatest
  <1>6. g \in Nat \ {0} /\ p \in Nat \ {0}
    <2>1. g \in Nat
      BY <1>3 DEF Greatest
    <2>2. QED
      BY <1>1, <1>4, <2>1
  <1>7. PICK k \in Int : s * n = k * g /\ (k = q \/ k = -q)
    <2>1. s * n = m \/ s * n = -m
      BY <1>1
    <2>2. -m = (-q) * g /\ -q \in Int
      BY <1>4, <1>6
    <2>3. QED
      BY <1>4, <2>1, <2>2
  <1>8. Reduce[<<n, d>>] = <<k, p>>
    BY <1>2, <1>4, <1>6, <1>7, DivisionExact
  <1>9. \E a, b \in Int : a * k + b * p = 1
    <2>1. (u * p + v * q) * g = 1 * g
      BY <1>4, <1>5, <1>6
    <2>2. u * p + v * q = 1
      BY <1>4, <1>5, <1>6, <2>1
    <2>3. CASE k = q
      <3>1. v * k + u * p = 1
        BY <1>4, <1>5, <2>2, <2>3
      <3>2. QED
        BY <1>5, <3>1
    <2>4. CASE k = -q
      <3>1. (-v) * k + u * p = 1 /\ -v \in Int
        BY <1>4, <1>5, <2>2, <2>4
      <3>2. QED
        BY <1>5, <3>1
    <2>5. QED
      BY <1>7, <2>3, <2>4
  <1>10. k * d = n * p
    <2>1. k * g * s = n
      <3>1. (k * g) * s = (s * n) * s
        BY <1>7
      <3>2. (s * n) * s = n
        BY <1>1
      <3>3. QED
        BY <3>1, <3>2
    <2>2. k * d = k * s * p * g
      BY <1>1, <1>4, <1>6, <1>7
    <2>3. n * p = k * g * s * p
      BY <2>1
    <2>4. QED
      BY <1>1, <1>6, <1>7, <2>2, <2>3
  <1>11. <<k, p>> \in Number
    BY <1>6, <1>7, <1>9 DEF Number, Lowest
  <1>12. QED
    BY <1>8, <1>10, <1>11 DEF Is

\* What has no denominator is not a number.
LEMMA ReduceRatio ==
  ASSUME NEW x \in Fraction
  PROVE  Reduce[x] \in Ratio /\ (x[2] = 0 => ~IsNumber(Reduce[x]))
  <1>1. CASE x[2] = 0
    <2>1. Reduce[x] = <<SignOf(x[1]), 0>>
      BY <1>1 DEF Reduce
    <2>2. SignOf(x[1]) \in {-1, 0, 1}
      BY DEF SignOf, Fraction
    <2>3. QED
      BY <2>1, <2>2 DEF Ratio, IsNumber
  <1>2. CASE x[2] # 0
    <2>1. x = <<x[1], x[2]>> /\ x[1] \in Int /\ x[2] \in Int \ {0}
      BY <1>2 DEF Fraction
    <2>2. Is(Reduce[x], x[1], x[2])
      BY <2>1, ReduceIs
    <2>3. QED
      BY <1>2, <2>2 DEF Is, Ratio
  <1>3. QED
    BY <1>1, <1>2

\* A finite number is a number.
LEMMA FiniteIs == ASSUME NEW x, IsFinite(x) PROVE x \in Number
  <1>1. x = <<x[1], x[2]>> /\ x[1] \in Int /\ x[2] \in Int \ {0} /\ Reduce[x] = x
    BY DEF IsFinite, IsNumber, Fraction
  <1>2. Is(Reduce[<<x[1], x[2]>>], x[1], x[2])
    BY <1>1, ReduceIs
  <1>3. QED
    BY <1>1, <1>2 DEF Is

\* A factor that is not 0 can be left out.
LEMMA Cancels ==
  ASSUME NEW x \in Int, NEW y \in Int, NEW k \in Int \ {0}, x * k = y * k
  PROVE  x = y
  <1>1. (x - y) * k = 0
    OBVIOUS
  <1>2. x - y # 0 => (x - y) * k # 0
    OBVIOUS
  <1>3. QED
    BY <1>1, <1>2

\* There is one number of each value.
LEMMA IsUnique ==
  ASSUME NEW x, NEW y, NEW n, NEW d, NEW m, NEW e, Is(x, n, d), Is(y, m, e), n * e = m * d
  PROVE  x = y
  <1>1. /\ x \in Number /\ n \in Int /\ d \in Int \ {0} /\ x[1] * d = n * x[2]
        /\ y \in Number /\ m \in Int /\ e \in Int \ {0} /\ y[1] * e = m * y[2]
    BY DEF Is
  <1>2. /\ x[1] \in Int /\ x[2] \in Nat \ {0} /\ x = <<x[1], x[2]>>
        /\ y[1] \in Int /\ y[2] \in Nat \ {0} /\ y = <<y[1], y[2]>>
    BY <1>1, NumberIs
  <1> DEFINE a == x[1]
             b == x[2]
             c == y[1]
             f == y[2]
  <1>3. a \in Int /\ b \in Nat \ {0} /\ c \in Int /\ f \in Nat \ {0} /\ a * d = n * b /\ c * e = m * f
    BY <1>1, <1>2
  <1>4. (\E u, v \in Int : u * a + v * b = 1) /\ (\E u, v \in Int : u * c + v * f = 1)
    BY <1>1 DEF Number, Lowest
  <1>5. x = <<a, b>> /\ y = <<c, f>>
    BY <1>2
  <1> HIDE DEF a, b, c, f
  <1>6. a * f = c * b
    <2>1. (a * f) * (d * e) = (a * d) * (f * e)
      BY <1>1, <1>3
    <2>2. (a * d) * (f * e) = (n * b) * (f * e)
      BY <1>3
    <2>3. (n * b) * (f * e) = (n * e) * (b * f)
      BY <1>1, <1>3
    <2>4. (c * b) * (d * e) = (c * e) * (b * d)
      BY <1>1, <1>3
    <2>5. (c * e) * (b * d) = (m * f) * (b * d)
      BY <1>3
    <2>6. (m * f) * (b * d) = (m * d) * (b * f)
      BY <1>1, <1>3
    <2>7. (a * f) * (d * e) = (c * b) * (d * e)
      BY <2>1, <2>2, <2>3, <2>4, <2>5, <2>6
    <2>8. d * e \in Int \ {0} /\ a * f \in Int /\ c * b \in Int
      BY <1>1, <1>3
    <2>9. QED
      BY <2>7, <2>8, Cancels
  <1>7. PICK u, v \in Int : u * a + v * b = 1
    BY <1>4
  <1>8. PICK w, z \in Int : w * c + z * f = 1
    BY <1>4
  <1>9. f = b * (u * c + v * f)
    <2>1. f = f * (u * a + v * b)
      BY <1>3, <1>7
    <2>2. f * (u * a + v * b) = u * (a * f) + v * b * f
      BY <1>3, <1>7
    <2>3. u * (c * b) + v * b * f = b * (u * c + v * f)
      BY <1>3, <1>7
    <2>4. QED
      BY <1>6, <2>1, <2>2, <2>3
  <1>10. b = f * (w * a + z * b)
    <2>1. b = b * (w * c + z * f)
      BY <1>3, <1>8
    <2>2. b * (w * c + z * f) = w * (c * b) + z * f * b
      BY <1>3, <1>8
    <2>3. w * (a * f) + z * f * b = f * (w * a + z * b)
      BY <1>3, <1>8
    <2>4. QED
      BY <1>6, <2>1, <2>2, <2>3
  <1>11. b <= f /\ f <= b
    <2> DEFINE k == u * c + v * f
               j == w * a + z * b
    <2>1. k \in Int /\ j \in Int
      BY <1>3, <1>7, <1>8
    <2>2. f = b * k /\ b = f * j
      BY <1>9, <1>10
    <2> HIDE DEF k, j
    <2>3. k >= 1 /\ j >= 1
      <3>1. k <= 0 => b * k <= 0
        BY <1>3, <2>1
      <3>2. j <= 0 => f * j <= 0
        BY <1>3, <2>1
      <3>3. QED
        BY <1>3, <2>1, <2>2, <3>1, <3>2
    <2>4. b * k >= b /\ f * j >= f
      BY <1>3, <2>1, <2>3
    <2>5. QED
      BY <2>2, <2>4
  <1>12. b = f
    BY <1>3, <1>11
  <1>13. a * b = c * b
    BY <1>6, <1>12
  <1>14. a = c
    BY <1>3, <1>13, Cancels
  <1>15. QED
    BY <1>5, <1>12, <1>14

\* A value has many forms.
LEMMA IsOther ==
  ASSUME NEW x, NEW n, NEW d, NEW m \in Int, NEW e \in Int \ {0}, Is(x, n, d), n * e = m * d
  PROVE  Is(x, m, e)
  <1>1. x \in Number /\ n \in Int /\ d \in Int \ {0} /\ x[1] * d = n * x[2]
    BY DEF Is
  <1> DEFINE a == x[1]
             b == x[2]
  <1>2. a \in Int /\ b \in Nat \ {0} /\ a * d = n * b
    BY <1>1, NumberIs
  <1> HIDE DEF a, b
  <1>3. (a * e) * d = (m * b) * d
    <2>1. (a * e) * d = (a * d) * e
      BY <1>1, <1>2
    <2>2. (n * b) * e = (n * e) * b
      BY <1>1, <1>2
    <2>3. (m * d) * b = (m * b) * d
      BY <1>1, <1>2
    <2>4. QED
      BY <1>2, <2>1, <2>2, <2>3
  <1>4. a * e \in Int /\ m * b \in Int
    BY <1>2
  <1>5. a * e = m * b
    BY <1>1, <1>3, <1>4, Cancels
  <1>6. QED
    BY <1>1, <1>5 DEF Is, a, b

\* Denominators multiply.
LEMMA NotZero ==
  ASSUME NEW d \in Int \ {0}, NEW e \in Int \ {0} PROVE d * e \in Int \ {0}
  OBVIOUS

\* Products.
LEMMA ProductIs ==
  ASSUME NEW x, NEW y, NEW n, NEW d, NEW m, NEW e, Is(x, n, d), Is(y, m, e)
  PROVE  Is(x ** y, n * m, d * e)
  <1>1. /\ x \in Number /\ n \in Int /\ d \in Int \ {0} /\ x[1] * d = n * x[2]
        /\ y \in Number /\ m \in Int /\ e \in Int \ {0} /\ y[1] * e = m * y[2]
    BY DEF Is
  <1>2. /\ x[1] \in Int /\ x[2] \in Nat \ {0} /\ x \in Fraction
        /\ y[1] \in Int /\ y[2] \in Nat \ {0} /\ y \in Fraction
    BY <1>1, NumberIs
  <1> DEFINE a == x[1]
             b == x[2]
             c == y[1]
             f == y[2]
             p == Reduce[<<a, f>>]
             q == Reduce[<<c, b>>]
             r == Reduce[<<p[1] * q[1], p[2] * q[2]>>]
  <1>3. a \in Int /\ b \in Nat \ {0} /\ c \in Int /\ f \in Nat \ {0} /\ a * d = n * b /\ c * e = m * f
    BY <1>1, <1>2
  <1>4. Is(p, a, f) /\ Is(q, c, b)
    <2> HIDE DEF a, b, c, f
    <2>1. QED
      BY <1>3, ReduceIs
  <1>5. x ** y = r
    <2>1. <<x, y>> \in Fraction \X Fraction
      BY <1>2
    <2>2. Multiply[<<x, y>>] = Times[<<p, q>>]
      BY <2>1 DEF Multiply
    <2>3. p \in Fraction /\ q \in Fraction
      BY <1>4, NumberIs DEF Is
    <2> HIDE DEF p, q
    <2>4. <<p, q>> \in Fraction \X Fraction
      BY <2>3
    <2>5. Times[<<p, q>>] = r
      BY <2>4 DEF Times
    <2>6. QED
      BY <2>2, <2>5 DEF **
  <1> HIDE DEF a, b, c, f
  <1>6. /\ p \in Number /\ p[1] \in Int /\ p[2] \in Nat \ {0} /\ p[1] * f = a * p[2]
        /\ q \in Number /\ q[1] \in Int /\ q[2] \in Nat \ {0} /\ q[1] * b = c * q[2]
    <2> HIDE DEF p, q
    <2>1. QED
      BY <1>4, NumberIs DEF Is
  <1> HIDE DEF p, q
  <1> DEFINE p1 == p[1]
             p2 == p[2]
             q1 == q[1]
             q2 == q[2]
  <1>7. /\ p1 \in Int /\ p2 \in Nat \ {0} /\ p1 * f = a * p2
        /\ q1 \in Int /\ q2 \in Nat \ {0} /\ q1 * b = c * q2
    BY <1>6
  <1> HIDE DEF p1, p2, q1, q2
  <1>8. Is(r, p1 * q1, p2 * q2)
    <2>1. p2 * q2 \in Int \ {0} /\ p1 * q1 \in Int
      BY <1>7
    <2>2. r = Reduce[<<p1 * q1, p2 * q2>>]
      BY DEF p1, p2, q1, q2
    <2>3. QED
      BY <2>1, <2>2, ReduceIs
  <1>9. n * m \in Int /\ d * e \in Int \ {0}
    BY <1>1
  <1>10. (p1 * q1) * (d * e) = (n * m) * (p2 * q2)
    <2>1. ((p1 * q1) * (d * e)) * (f * b) = (p1 * f) * (q1 * b) * (d * e)
      BY <1>1, <1>3, <1>7
    <2>2. (a * p2) * (c * q2) * (d * e) = (a * d) * (c * e) * (p2 * q2)
      BY <1>1, <1>3, <1>7
    <2>3. (n * b) * (m * f) * (p2 * q2) = ((n * m) * (p2 * q2)) * (f * b)
      BY <1>1, <1>3, <1>7
    <2>4. ((p1 * q1) * (d * e)) * (f * b) = ((n * m) * (p2 * q2)) * (f * b)
      BY <1>3, <1>7, <2>1, <2>2, <2>3
    <2>5. (p1 * q1) * (d * e) \in Int /\ (n * m) * (p2 * q2) \in Int /\ f * b \in Int \ {0}
      BY <1>1, <1>3, <1>7
    <2>6. QED
      BY <2>4, <2>5, Cancels
  <1> HIDE DEF r
  <1>11. Is(r, n * m, d * e)
    BY <1>8, <1>9, <1>10, IsOther
  <1>12. QED
    BY <1>5, <1>11

\* Sums.
LEMMA SumIs ==
  ASSUME NEW x, NEW y, NEW n, NEW d, NEW m, NEW e, Is(x, n, d), Is(y, m, e)
  PROVE  Is(x ++ y, n * e + m * d, d * e)
  <1>1. /\ x \in Number /\ n \in Int /\ d \in Int \ {0} /\ x[1] * d = n * x[2]
        /\ y \in Number /\ m \in Int /\ e \in Int \ {0} /\ y[1] * e = m * y[2]
    BY DEF Is
  <1>2. /\ x[1] \in Int /\ x[2] \in Nat \ {0} /\ x \in Fraction
        /\ y[1] \in Int /\ y[2] \in Nat \ {0} /\ y \in Fraction
    BY <1>1, NumberIs
  <1> DEFINE a == x[1]
             b == x[2]
             c == y[1]
             f == y[2]
             g == Gcd[<<b, f>>]
             p == b \div g
             q == f \div g
             r == Reduce[<<a * q + c * p, b * q>>]
  <1>3. a \in Int /\ b \in Nat \ {0} /\ c \in Int /\ f \in Nat \ {0} /\ a * d = n * b /\ c * e = m * f
    BY <1>1, <1>2
  <1>4. Greatest(g, b, f)
    <2> HIDE DEF b, f
    <2>1. QED
      BY <1>3, GcdIs
  <1>5. g \in Nat
    BY <1>4 DEF Greatest
  <1>6. x ++ y = r
    <2> DEFINE w == << <<x, y>>, g>>
    <2>1. <<x, y>> \in Fraction \X Fraction
      BY <1>2
    <2>2. Plus[<<x, y>>] = PlusOver[w]
      BY <1>3, <2>1 DEF Plus
    <2>3. PlusOver[w] = r
      <3>1. w \in (Fraction \X Fraction) \X Nat /\ w[1][1] = x /\ w[1][2] = y /\ w[2] = g
        <4> HIDE DEF g
        <4>1. QED
          BY <1>5, <2>1
      <3> HIDE DEF w, g
      <3>2. QED
        BY <3>1 DEF PlusOver
    <2>4. QED
      BY <2>2, <2>3 DEF ++
  <1> HIDE DEF a, b, c, f, g
  <1>7. PICK k, j \in Nat : b = k * g /\ f = j * g
    BY <1>4 DEF Greatest
  <1>8. g \in Nat \ {0} /\ k \in Nat \ {0} /\ j \in Nat \ {0}
    BY <1>3, <1>5, <1>7
  <1>9. p = k /\ q = j
    BY <1>7, <1>8, DivisionExact
  <1>10. Is(r, a * j + c * k, b * j)
    <2>1. a * j + c * k \in Int /\ b * j \in Int \ {0}
      BY <1>3, <1>8
    <2>2. r = Reduce[<<a * j + c * k, b * j>>]
      BY <1>9
    <2>3. QED
      BY <2>1, <2>2, ReduceIs
  <1>11. n * e + m * d \in Int /\ d * e \in Int \ {0}
    BY <1>1
  <1>12. (a * j + c * k) * (d * e) = (n * e + m * d) * (b * j)
    <2>1. (a * j + c * k) * (d * e) = (a * d) * j * e + (c * e) * k * d
      BY <1>1, <1>3, <1>8
    <2>2. (a * d) * j * e + (c * e) * k * d = (n * b) * j * e + (m * f) * k * d
      BY <1>3
    <2>3. f * k = b * j
      BY <1>7, <1>8
    <2>4. (m * f) * k * d = m * (f * k) * d
      BY <1>1, <1>3, <1>8
    <2>5. (n * b) * j * e + m * (b * j) * d = (n * e + m * d) * (b * j)
      BY <1>1, <1>3, <1>8
    <2>6. QED
      BY <2>1, <2>2, <2>3, <2>4, <2>5
  <1> HIDE DEF r, p, q
  <1>13. Is(r, n * e + m * d, d * e)
    BY <1>10, <1>11, <1>12, IsOther
  <1>14. QED
    BY <1>6, <1>13

\* Differences.
LEMMA DifferenceIs ==
  ASSUME NEW x, NEW y, NEW n, NEW d, NEW m, NEW e, Is(x, n, d), Is(y, m, e)
  PROVE  Is(x -- y, n * e - m * d, d * e)
  <1> DEFINE z == <<-y[1], y[2]>>
  <1>1. /\ y \in Number /\ m \in Int /\ e \in Int \ {0} /\ y[1] * e = m * y[2]
        /\ n \in Int /\ d \in Int \ {0} /\ y[1] \in Int /\ y[2] \in Nat \ {0}
    BY NumberIs DEF Is
  <1>2. z \in Number
    <2>1. PICK u, v \in Int : u * y[1] + v * y[2] = 1
      BY <1>1 DEF Number, Lowest
    <2>2. (-u) * (-y[1]) + v * y[2] = 1 /\ -u \in Int
      BY <1>1, <2>1
    <2>3. z[1] = -y[1] /\ z[2] = y[2] /\ z \in Int \X (Nat \ {0})
      BY <1>1
    <2>4. Lowest(z)
      BY <2>1, <2>2, <2>3 DEF Lowest
    <2>5. QED
      BY <2>3, <2>4 DEF Number
  <1>3. z[1] = -y[1] /\ z[2] = y[2]
    OBVIOUS
  <1>4. (-y[1]) * e = (-m) * y[2] /\ -m \in Int
    BY <1>1
  <1> HIDE DEF z
  <1>5. Is(z, -m, e)
    BY <1>1, <1>2, <1>3, <1>4 DEF Is
  <1>6. Is(x ++ z, n * e + (-m) * d, d * e)
    BY <1>5, SumIs
  <1>7. n * e + (-m) * d = n * e - m * d
    BY <1>1
  <1>8. x -- y = x ++ z
    BY DEF --, z, ++
  <1>9. QED
    BY <1>6, <1>7, <1>8

\* Quotients by what is not 0.
LEMMA QuotientIs ==
  ASSUME NEW x, NEW y, NEW n, NEW d, NEW m, NEW e, Is(x, n, d), Is(y, m, e), m # 0
  PROVE  Is(x // y, n * e, d * m)
  <1> DEFINE z == Reduce[<<y[2], y[1]>>]
  <1>1. /\ y \in Number /\ m \in Int /\ e \in Int \ {0} /\ y[1] * e = m * y[2]
        /\ n \in Int /\ d \in Int \ {0} /\ y[1] \in Int /\ y[2] \in Nat \ {0}
    BY NumberIs DEF Is
  <1>2. y[1] # 0
    <2>1. m * y[2] # 0
      BY <1>1
    <2>2. QED
      BY <1>1, <2>1
  <1>3. Is(z, y[2], y[1])
    BY <1>1, <1>2, ReduceIs
  <1>4. y[2] * m = e * y[1]
    BY <1>1
  <1> HIDE DEF z
  <1>5. Is(z, e, m)
    BY <1>1, <1>3, <1>4, IsOther
  <1>6. Is(x ** z, n * e, d * m)
    BY <1>5, ProductIs
  <1>7. x // y = x ** z
    BY DEF //, z, **
  <1>8. QED
    BY <1>6, <1>7

\* Comparisons, over positive denominators.
LEMMA BelowIs ==
  ASSUME NEW x, NEW y, NEW n, NEW d, NEW m, NEW e, Is(x, n, d), Is(y, m, e), d > 0, e > 0
  PROVE  (x \prec y <=> n * e < m * d) /\ (x \preceq y <=> n * e <= m * d)
  <1>1. /\ x \in Number /\ n \in Int /\ d \in Int \ {0} /\ x[1] * d = n * x[2]
        /\ y \in Number /\ m \in Int /\ e \in Int \ {0} /\ y[1] * e = m * y[2]
    BY DEF Is
  <1>2. /\ x[1] \in Int /\ x[2] \in Nat \ {0} /\ x \in Fraction /\ IsNumber(x)
        /\ y[1] \in Int /\ y[2] \in Nat \ {0} /\ y \in Fraction /\ IsNumber(y)
    BY <1>1, NumberIs
  <1>3. x # NaN /\ y # NaN
    BY <1>2 DEF IsNumber, NaN
  <1> DEFINE a == x[1]
             b == x[2]
             c == y[1]
             f == y[2]
  <1>4. x \prec y <=> a * f < c * b
    <2>1. <<x, y>> \in Fraction \X Fraction
      BY <1>2
    <2>2. Below[<<x, y>>] = (a * f < c * b)
      BY <2>1 DEF Below
    <2>3. QED
      BY <1>3, <2>2 DEF \prec
  <1>5. a \in Int /\ b \in Nat \ {0} /\ c \in Int /\ f \in Nat \ {0} /\ a * d = n * b /\ c * e = m * f
    BY <1>1, <1>2
  <1> HIDE DEF a, b, c, f
  <1>6. (a * f) * (d * e) = (n * e) * (b * f) /\ (c * b) * (d * e) = (m * d) * (b * f)
    <2>1. (a * f) * (d * e) = (a * d) * (f * e)
      BY <1>1, <1>5
    <2>2. (n * b) * (f * e) = (n * e) * (b * f)
      BY <1>1, <1>5
    <2>3. (c * b) * (d * e) = (c * e) * (b * d)
      BY <1>1, <1>5
    <2>4. (m * f) * (b * d) = (m * d) * (b * f)
      BY <1>1, <1>5
    <2>5. QED
      BY <1>5, <2>1, <2>2, <2>3, <2>4
  <1> DEFINE l == a * f
             r == c * b
             s == n * e
             t == m * d
             h == d * e
             k == b * f
  <1>7. l \in Int /\ r \in Int /\ s \in Int /\ t \in Int /\ h \in Nat \ {0} /\ k \in Nat \ {0} /\ l * h = s * k /\ r * h = t * k
    BY <1>1, <1>5, <1>6
  <1> HIDE DEF l, r, s, t, h, k
  <1>8. l < r <=> s < t
    <2>1. ASSUME l < r, t <= s PROVE FALSE
      <3>1. l * h < r * h /\ t * k <= s * k
        BY <1>7, <2>1
      <3>2. QED
        BY <1>7, <3>1
    <2>2. ASSUME s < t, r <= l PROVE FALSE
      <3>1. r * h <= l * h /\ s * k < t * k
        BY <1>7, <2>2
      <3>2. QED
        BY <1>7, <3>1
    <2>3. QED
      BY <1>7, <2>1, <2>2
  <1>9. x \prec y <=> s < t
    BY <1>4, <1>8 DEF l, r
  <1>10. s = t <=> x = y
    <2>1. s = t => x = y
      BY IsUnique DEF s, t
    <2>2. x = y => ~(x \prec y) /\ ~(t < s)
      <3> SUFFICES ASSUME x = y PROVE ~(x \prec y) /\ ~(t < s)
        OBVIOUS
      <3>1. a = c /\ b = f
        BY DEF a, b, c, f
      <3>2. l = r
        BY <1>5, <3>1 DEF l, r
      <3>3. s * k = t * k
        BY <1>7, <3>2
      <3>4. s = t
        BY <1>7, <3>3, Cancels
      <3>5. QED
        BY <1>7, <1>9, <3>4
    <2>3. QED
      BY <1>7, <1>9, <2>1, <2>2
  <1>11. x \preceq y <=> s <= t
    BY <1>3, <1>7, <1>9, <1>10 DEF \preceq
  <1>12. QED
    BY <1>9, <1>11 DEF s, t

\* Arithmetic is closed, and makes numbers of numbers only.
LEMMA ProductRatio ==
  ASSUME NEW x \in Fraction, NEW y \in Fraction
  PROVE  x ** y \in Ratio /\ (IsNumber(x ** y) => IsNumber(x) /\ IsNumber(y))
  <1> DEFINE p == Reduce[<<x[1], y[2]>>]
             q == Reduce[<<y[1], x[2]>>]
             w == <<p[1] * q[1], p[2] * q[2]>>
  <1>1. x[1] \in Int /\ x[2] \in Int /\ y[1] \in Int /\ y[2] \in Int
    BY DEF Fraction
  <1>2. /\ <<x[1], y[2]>> \in Fraction /\ <<x[1], y[2]>>[2] = y[2]
        /\ <<y[1], x[2]>> \in Fraction /\ <<y[1], x[2]>>[2] = x[2]
    BY <1>1 DEF Fraction
  <1>3. p \in Ratio /\ q \in Ratio /\ (y[2] = 0 => ~IsNumber(p)) /\ (x[2] = 0 => ~IsNumber(q))
    BY <1>2, ReduceRatio
  <1>4. x ** y = Reduce[w]
    <2>1. <<x, y>> \in Fraction \X Fraction
      OBVIOUS
    <2>2. Multiply[<<x, y>>] = Times[<<p, q>>]
      BY <2>1 DEF Multiply
    <2> HIDE DEF p, q
    <2>3. <<p, q>> \in Fraction \X Fraction
      BY <1>3, RatioIs
    <2>4. Times[<<p, q>>] = Reduce[w]
      BY <2>3 DEF Times
    <2>5. QED
      BY <2>2, <2>4 DEF **
  <1> HIDE DEF p, q
  <1>5. p[1] \in Int /\ p[2] \in Nat /\ q[1] \in Int /\ q[2] \in Nat
    BY <1>3, RatioIs
  <1>6. w \in Fraction /\ w[2] = p[2] * q[2]
    BY <1>5 DEF Fraction
  <1> HIDE DEF w
  <1>7. Reduce[w] \in Ratio /\ (w[2] = 0 => ~IsNumber(Reduce[w]))
    BY <1>6, ReduceRatio
  <1>8. y[2] = 0 \/ x[2] = 0 => w[2] = 0
    BY <1>3, <1>5, <1>6 DEF IsNumber
  <1>9. QED
    BY <1>4, <1>7, <1>8 DEF IsNumber

\* A sum is a number only if both summands are.
LEMMA SumRatio ==
  ASSUME NEW x \in Fraction, NEW y \in Fraction, x[2] \in Nat, y[2] \in Nat
  PROVE  x ++ y \in Ratio /\ (IsNumber(x ++ y) => IsNumber(x) /\ IsNumber(y))
  <1> DEFINE g == IF x[2] = 0 \/ y[2] = 0 THEN 1 ELSE Gcd[<<x[2], y[2]>>]
             p == x[2] \div g
             q == y[2] \div g
             w == <<x[1] * q + y[1] * p, x[2] * q>>
  <1>1. x[1] \in Int /\ x[2] \in Int /\ y[1] \in Int /\ y[2] \in Int
    BY DEF Fraction
  <1>2. g \in Nat \ {0}
    <2>1. CASE x[2] = 0 \/ y[2] = 0
      BY <2>1
    <2>2. CASE ~(x[2] = 0 \/ y[2] = 0)
      <3> DEFINE h == Gcd[<<x[2], y[2]>>]
      <3>1. Greatest(h, x[2], y[2])
        BY GcdIs
      <3> HIDE DEF h
      <3>2. PICK k \in Nat : x[2] = k * h
        BY <3>1 DEF Greatest
      <3>3. h \in Nat /\ h # 0
        BY <2>2, <3>1, <3>2 DEF Greatest
      <3>4. QED
        BY <2>2, <3>3 DEF h
    <2>3. QED
      BY <2>1, <2>2
  <1>3. x ++ y = Reduce[w]
    <2> DEFINE v == << <<x, y>>, g>>
    <2>1. <<x, y>> \in Fraction \X Fraction
      OBVIOUS
    <2>2. Plus[<<x, y>>] = PlusOver[v]
      BY <2>1 DEF Plus
    <2>3. PlusOver[v] = Reduce[w]
      <3> HIDE DEF g
      <3>1. v \in (Fraction \X Fraction) \X Nat /\ v[1][1] = x /\ v[1][2] = y /\ v[2] = g
        BY <1>2, <2>1
      <3> HIDE DEF v
      <3>2. QED
        BY <3>1 DEF PlusOver
    <2>4. QED
      BY <2>2, <2>3 DEF ++
  <1>4. (x[2] = 0 \/ y[2] = 0) => x[2] * q = 0
    <2>1. CASE x[2] = 0 \/ y[2] = 0
      <3>1. g = 1
        BY <2>1
      <3>2. q = y[2]
        BY <3>1
      <3>3. QED
        BY <2>1, <3>2
    <2>2. QED
      BY <2>1
  <1> HIDE DEF g
  <1>5. p \in Int /\ q \in Int
    BY <1>1, <1>2, DivisionIs
  <1> HIDE DEF p, q
  <1>6. w \in Fraction /\ w[2] = x[2] * q
    BY <1>1, <1>5 DEF Fraction
  <1> HIDE DEF w
  <1>7. Reduce[w] \in Ratio /\ (w[2] = 0 => ~IsNumber(Reduce[w]))
    BY <1>6, ReduceRatio
  <1>8. QED
    BY <1>3, <1>4, <1>6, <1>7 DEF IsNumber

\* The operations stay within the numbers, the infinities and NaN, and only numbers
\* give a number.
LEMMA Closed ==
  ASSUME NEW x \in Ratio, NEW y \in Ratio
  PROVE  /\ x ++ y \in Ratio /\ (x ++ y \in Number => x \in Number /\ y \in Number)
         /\ x -- y \in Ratio /\ (x -- y \in Number => x \in Number /\ y \in Number)
         /\ x ** y \in Ratio /\ (x ** y \in Number => x \in Number /\ y \in Number)
         /\ x // y \in Ratio /\ (x // y \in Number => x \in Number)
  <1>1. /\ x \in Fraction /\ x[2] \in Nat /\ (IsNumber(x) <=> x \in Number)
        /\ y \in Fraction /\ y[2] \in Nat /\ (IsNumber(y) <=> y \in Number)
        /\ y[1] \in Int
    BY RatioIs
  <1>2. x ++ y \in Ratio /\ (IsNumber(x ++ y) => IsNumber(x) /\ IsNumber(y))
    BY <1>1, SumRatio
  <1>3. x ** y \in Ratio /\ (IsNumber(x ** y) => IsNumber(x) /\ IsNumber(y))
    BY <1>1, ProductRatio
  <1>4. x -- y \in Ratio /\ (IsNumber(x -- y) => IsNumber(x) /\ IsNumber(y))
    <2> DEFINE z == <<-y[1], y[2]>>
    <2>1. z \in Fraction /\ z[2] = y[2]
      BY <1>1 DEF Fraction
    <2>2. x -- y = x ++ z
      BY DEF --, ++
    <2>3. IsNumber(z) <=> IsNumber(y)
      BY <2>1 DEF IsNumber
    <2> HIDE DEF z
    <2>4. x ++ z \in Ratio /\ (IsNumber(x ++ z) => IsNumber(x) /\ IsNumber(z))
      BY <1>1, <2>1, SumRatio
    <2>5. QED
      BY <2>2, <2>3, <2>4
  <1>5. x // y \in Ratio /\ (IsNumber(x // y) => IsNumber(x))
    <2> DEFINE z == Reduce[<<y[2], y[1]>>]
    <2>1. <<y[2], y[1]>> \in Fraction
      BY <1>1 DEF Fraction
    <2>2. z \in Ratio
      BY <2>1, ReduceRatio
    <2>3. x // y = x ** z
      BY DEF //, **
    <2> HIDE DEF z
    <2>4. z \in Fraction
      BY <2>2, RatioIs
    <2>5. QED
      BY <1>1, <2>3, <2>4, ProductRatio
  <1>6. QED
    BY <1>1, <1>2, <1>3, <1>4, <1>5, RatioIs

\* The signs of the numbers.
LEMMA ZeroIs == Zero \in Number /\ Is(Zero, 0, 1) /\ One \in Number /\ Is(One, 1, 1)
  BY WholeIs DEF Zero, One

\* The sign of a number is that of its numerator.
LEMMA SignIs ==
  ASSUME NEW x, NEW n, NEW d, Is(x, n, d), d > 0
  PROVE  (Zero \prec x <=> n > 0) /\ (Zero \preceq x <=> n >= 0)
  <1>1. (Zero \prec x <=> 0 * d < n * 1) /\ (Zero \preceq x <=> 0 * d <= n * 1)
    BY ZeroIs, BelowIs
  <1>2. n \in Int /\ d \in Int
    BY DEF Is
  <1>3. QED
    BY <1>1, <1>2

\* The form of a number.
LEMMA HasForm ==
  ASSUME NEW x \in Number
  PROVE  \E n \in Int, d \in Nat \ {0} :
           Is(x, n, d) /\ (Zero \prec x <=> n > 0) /\ (Zero \preceq x <=> n >= 0)
  <1>1. x[1] \in Int /\ x[2] \in Nat \ {0} /\ Is(x, x[1], x[2])
    BY NumberIs
  <1>2. (Zero \prec x <=> x[1] > 0) /\ (Zero \preceq x <=> x[1] >= 0)
    BY <1>1, SignIs
  <1>3. QED
    BY <1>1, <1>2
-----------------------------------------------------------------------------
(***************************************************************************)
(* The formulas of the pool, for any reserves, shares and amounts.         *)
(***************************************************************************)
IsPositive(x) == x \in Number /\ Zero \prec x

\* The form of a positive number.
LEMMA PositiveForm ==
  ASSUME NEW x, IsPositive(x) PROVE \E n \in Nat \ {0}, d \in Nat \ {0} : Is(x, n, d)
  <1>1. PICK n \in Int, d \in Nat \ {0} : Is(x, n, d) /\ (Zero \prec x <=> n > 0)
    BY HasForm DEF IsPositive
  <1>2. n \in Nat \ {0}
    BY <1>1 DEF IsPositive
  <1>3. QED
    BY <1>1, <1>2

\* A fraction of two positive integers is positive.
LEMMA IsPositiveForm ==
  ASSUME NEW x, NEW n \in Nat \ {0}, NEW d \in Nat \ {0}, Is(x, n, d) PROVE IsPositive(x)
  BY SignIs DEF Is, IsPositive

\* What is left of an amount after the fee, and what the pool pays out for that.
AfterFee(a, fee) == a ** (One -- fee)
PaidOut(x, y, w) == (y ** w) // (x ++ w)

\* The fee leaves something, and is not more than the amount.
LEMMA FeeLeaves ==
  ASSUME NEW a, IsPositive(a), NEW fee \in Number, Zero \preceq fee, fee \prec One
  PROVE  \E n \in Nat \ {0}, p \in Nat, m \in Nat \ {0} :
           Is(AfterFee(a, fee), n, m) /\ Is(fee ** a, p, m) /\ Is(a, n + p, m)
  <1>1. PICK A \in Nat \ {0}, F \in Nat \ {0} : Is(a, A, F)
    BY PositiveForm
  <1>2. PICK P \in Int, Q \in Nat \ {0} : Is(fee, P, Q) /\ (Zero \preceq fee <=> P >= 0)
    BY HasForm
  <1>3. P < Q /\ P \in Nat
    <2>1. Q > 0 /\ 1 > 0
      BY <1>2
    <2>2. fee \prec One <=> P * 1 < 1 * Q
      BY <1>2, <2>1, ZeroIs, BelowIs
    <2>3. QED
      BY <1>2, <2>2
  <1>4. Is(One -- fee, 1 * Q - P * 1, 1 * Q)
    BY <1>2, ZeroIs, DifferenceIs
  <1>5. Is(AfterFee(a, fee), A * (1 * Q - P * 1), F * (1 * Q))
    BY <1>1, <1>4, ProductIs DEF AfterFee
  <1>6. Is(fee ** a, P * A, Q * F)
    BY <1>1, <1>2, ProductIs
  <1> DEFINE n == A * (1 * Q - P * 1)
             p == P * A
             m == F * (1 * Q)
  <1>7. n \in Nat \ {0} /\ p \in Nat /\ m \in Nat \ {0} /\ m = Q * F
    <2>1. 1 * Q - P * 1 \in Nat \ {0}
      BY <1>2, <1>3
    <2>2. n \in Nat \ {0}
      BY <1>1, <2>1
    <2>3. QED
      BY <1>1, <1>2, <1>3, <2>2
  <1>8. A * m = (n + p) * F
    BY <1>1, <1>2
  <1>9. Is(AfterFee(a, fee), n, m) /\ Is(fee ** a, p, m)
    BY <1>5, <1>6, <1>7
  <1> HIDE DEF n, m, p
  <1>10. Is(a, n + p, m)
    <2>1. n + p \in Int /\ m \in Int \ {0}
      BY <1>7
    <2>2. QED
      BY <1>1, <1>8, <2>1, IsOther
  <1>11. QED
    BY <1>7, <1>9, <1>10

\* What is paid out is less than the reserve, and leaves it the share that the one
\* amount had of both.
LEMMA PaidOutIs ==
  ASSUME NEW x, NEW y, NEW w, NEW X \in Nat \ {0}, NEW D \in Nat \ {0}, NEW Y \in Nat \ {0}, NEW E \in Nat \ {0},
         NEW N \in Nat \ {0}, NEW M \in Nat \ {0}, Is(x, X, D), Is(y, Y, E), Is(w, N, M)
  PROVE  /\ X * M + N * D \in Nat \ {0}
         /\ Is(PaidOut(x, y, w), Y * N * D, E * (X * M + N * D))
         /\ Is(y -- PaidOut(x, y, w), Y * X * M, E * (X * M + N * D))
  <1> DEFINE S == X * M + N * D
             out == PaidOut(x, y, w)
  <1>1. S \in Nat \ {0} /\ S - N * D = X * M
    BY NotZero
  <1>2. Is(x ++ w, S, D * M)
    BY SumIs
  <1>3. Is(y ** w, Y * N, E * M)
    BY ProductIs
  <1> HIDE DEF S
  <1>4. Is(out, (Y * N) * (D * M), (E * M) * S)
    BY <1>1, <1>2, <1>3, QuotientIs DEF PaidOut
  <1>5. Y * N * D \in Nat \ {0} /\ E * S \in Nat \ {0} /\ Y * X * M \in Nat \ {0}
    BY <1>1
  <1>6. ((Y * N) * (D * M)) * (E * S) = (Y * N * D) * ((E * M) * S)
    BY <1>1
  <1>7. Is(out, Y * N * D, E * S)
    BY <1>4, <1>5, <1>6, IsOther
  <1>8. Is(y -- out, Y * (E * S) - (Y * N * D) * E, E * (E * S))
    BY <1>7, DifferenceIs
  <1>9. (Y * (E * S) - (Y * N * D) * E) * (E * S) = (Y * X * M) * (E * (E * S))
    <2>1. Y * (E * S) - (Y * N * D) * E = (Y * E) * (S - N * D)
      BY <1>1
    <2>2. (Y * E) * (X * M) * (E * S) = (Y * X * M) * (E * (E * S))
      BY <1>1
    <2>3. QED
      BY <1>1, <2>1, <2>2
  <1>10. Is(y -- out, Y * X * M, E * S)
    BY <1>5, <1>8, <1>9, IsOther
  <1>11. QED
    BY <1>1, <1>7, <1>10 DEF S

\* A swap makes the product of the reserves no smaller.
LEMMA SwapKeeps ==
  ASSUME NEW x, IsPositive(x), NEW y, IsPositive(y), NEW a, IsPositive(a),
         NEW fee \in Number, Zero \preceq fee, fee \prec One,
         NEW x1, x1 = (x ++ a) ++ (fee ** a), NEW y1, y1 = y -- PaidOut(x, y, AfterFee(a, fee))
  PROVE  /\ IsPositive(x1) /\ IsPositive(y1)
         /\ One \preceq (x1 // x) ** (y1 // y) /\ One \preceq (y1 // y) ** (x1 // x)
  <1> DEFINE w == AfterFee(a, fee)
  <1>1. PICK N \in Nat \ {0}, P \in Nat, M \in Nat \ {0} :
               Is(w, N, M) /\ Is(fee ** a, P, M) /\ Is(a, N + P, M)
    BY FeeLeaves
  <1>2. PICK X \in Nat \ {0}, D \in Nat \ {0} : Is(x, X, D)
    BY PositiveForm
  <1>3. PICK Y \in Nat \ {0}, E \in Nat \ {0} : Is(y, Y, E)
    BY PositiveForm
  <1> DEFINE S == X * M + N * D
             W == X * M + (N + 2 * P) * D
  <1>4. S \in Nat \ {0} /\ Is(y1, Y * X * M, E * S)
    BY <1>1, <1>2, <1>3, PaidOutIs
  <1>5. Is(y1 // y, X * M, S)
    <2>1. Is(y1 // y, (Y * X * M) * E, (E * S) * Y)
      BY <1>3, <1>4, QuotientIs
    <2> HIDE DEF S
    <2>2. ((Y * X * M) * E) * S = (X * M) * ((E * S) * Y) /\ X * M \in Int /\ S \in Int \ {0}
      BY <1>1, <1>2, <1>3, <1>4
    <2>3. QED
      BY <2>1, <2>2, IsOther
  <1>6. Is(x1, W, D * M)
    <2>1. Is(x ++ a, X * M + (N + P) * D, D * M)
      BY <1>1, <1>2, SumIs
    <2>2. Is(x1, (X * M + (N + P) * D) * M + P * (D * M), (D * M) * M)
      BY <1>1, <2>1, SumIs
    <2>3. ((X * M + (N + P) * D) * M + P * (D * M)) * (D * M) = W * ((D * M) * M)
      BY <1>1, <1>2
    <2>4. W \in Int /\ D * M \in Int \ {0}
      BY <1>1, <1>2
    <2> HIDE DEF W
    <2>5. QED
      BY <2>2, <2>3, <2>4, IsOther
  <1>7. W \in Nat \ {0} /\ S <= W
    <2>1. W = S + 2 * P * D /\ 2 * P * D \in Nat
      BY <1>1, <1>2
    <2> HIDE DEF S, W
    <2>2. QED
      BY <1>4, <2>1
  <1>8. Is(x1 // x, W, M * X)
    <2>1. Is(x1 // x, W * D, (D * M) * X)
      BY <1>2, <1>6, QuotientIs
    <2> HIDE DEF W
    <2>2. (W * D) * (M * X) = W * ((D * M) * X) /\ W \in Int /\ M * X \in Int \ {0}
      BY <1>1, <1>2, <1>7
    <2>3. QED
      BY <2>1, <2>2, IsOther
  <1> HIDE DEF W, S
  <1>9. IsPositive(x1) /\ IsPositive(y1)
    <2>1. D * M \in Nat \ {0} /\ Y * X * M \in Nat \ {0} /\ E * S \in Nat \ {0}
      BY <1>1, <1>2, <1>3, <1>4
    <2>2. QED
      BY <1>4, <1>6, <1>7, <2>1, IsPositiveForm
  <1>10. Is((x1 // x) ** (y1 // y), W * (X * M), (M * X) * S) /\ Is((y1 // y) ** (x1 // x), (X * M) * W, S * (M * X))
    BY <1>5, <1>8, ProductIs
  <1>11. /\ (M * X) * S > 0 /\ 1 * ((M * X) * S) <= (W * (X * M)) * 1
         /\ S * (M * X) > 0 /\ 1 * (S * (M * X)) <= ((X * M) * W) * 1
    <2> DEFINE k == M * X
    <2>1. k \in Nat \ {0} /\ X * M = k
      BY <1>1, <1>2
    <2> HIDE DEF k
    <2>2. k * S > 0 /\ k * S <= W * k
      BY <1>4, <1>7, <2>1
    <2>3. QED
      BY <1>4, <1>7, <2>1, <2>2 DEF k
  <1>12. One \preceq (x1 // x) ** (y1 // y) /\ One \preceq (y1 // y) ** (x1 // x)
    <2> DEFINE u == (x1 // x) ** (y1 // y)
               v == (y1 // y) ** (x1 // x)
               n == W * (X * M)
               m == (X * M) * W
               d == (M * X) * S
               e == S * (M * X)
    <2>1. /\ Is(u, n, d) /\ Is(v, m, e) /\ Is(One, 1, 1) /\ d > 0 /\ e > 0 /\ 1 > 0
          /\ 1 * d <= n * 1 /\ 1 * e <= m * 1
      BY <1>10, <1>11, ZeroIs
    <2> HIDE DEF u, v, n, m, d, e
    <2>2. One \preceq u
      BY <2>1, BelowIs
    <2>3. One \preceq v
      BY <2>1, BelowIs
    <2>4. QED
      BY <2>2, <2>3 DEF u, v
  <1>13. QED
    BY <1>9, <1>12

\* What the pool pays for an amount, at a price that is not better than that of its
\* reserves, is worth no more than the amount.
LEMMA NeverTooMuch ==
  ASSUME NEW x, IsPositive(x), NEW y, IsPositive(y), NEW r, IsPositive(r),
         NEW fee \in Number, Zero \preceq fee, fee \prec One
  PROVE  LET out == PaidOut(y, x, AfterFee(r ** (y // x), fee)) IN out \in Number /\ out \preceq r
  <1> DEFINE a == r ** (y // x)
             w == AfterFee(a, fee)
             out == PaidOut(y, x, w)
  <1>1. PICK X \in Nat \ {0}, D \in Nat \ {0} : Is(x, X, D)
    BY PositiveForm
  <1>2. PICK Y \in Nat \ {0}, E \in Nat \ {0} : Is(y, Y, E)
    BY PositiveForm
  <1>3. PICK R \in Nat \ {0}, F \in Nat \ {0} : Is(r, R, F)
    BY PositiveForm
  <1>4. Is(a, R * (Y * D), F * (E * X))
    <2>1. Is(y // x, Y * D, E * X)
      BY <1>1, <1>2, QuotientIs
    <2>2. QED
      BY <1>3, <2>1, ProductIs
  <1>5. R * (Y * D) \in Nat \ {0} /\ F * (E * X) \in Nat \ {0}
    BY <1>1, <1>2, <1>3
  <1>6. IsPositive(a)
    BY <1>4, <1>5, IsPositiveForm
  <1> HIDE DEF a
  <1>7. PICK N \in Nat \ {0}, P \in Nat, M \in Nat \ {0} : Is(w, N, M) /\ Is(a, N + P, M)
    BY <1>6, FeeLeaves
  <1> HIDE DEF w
  <1>8. Y * M + N * E \in Nat \ {0} /\ Is(out, X * N * E, D * (Y * M + N * E))
    BY <1>1, <1>2, <1>7, PaidOutIs
  \* N by M is not more than a.
  <1>9. N * (F * (E * X)) <= (R * (Y * D)) * M
    <2>1. IsPositive(w) /\ a \in Number
      BY <1>6, <1>7, IsPositiveForm DEF IsPositive
    <2>2. w \preceq a
      <3>1. w \preceq a <=> N * M <= (N + P) * M
        <4>1. M > 0
          BY <1>7
        <4>2. QED
          BY <1>7, <4>1, BelowIs
      <3>2. N * M <= (N + P) * M
        BY <1>7
      <3>3. QED
        BY <3>1, <3>2
    <2>3. w \preceq a <=> N * (F * (E * X)) <= (R * (Y * D)) * M
      <3>1. M > 0 /\ F * (E * X) > 0
        BY <1>5, <1>7
      <3>2. QED
        BY <1>4, <1>7, <3>1, BelowIs
    <2>4. QED
      BY <2>2, <2>3
  <1>10. (X * N * E) * F <= R * (D * (Y * M + N * E))
    <2>1. (X * N * E) * F = N * (F * (E * X))
      BY <1>1, <1>2, <1>3, <1>7
    <2>2. R * (D * (Y * M + N * E)) = (R * (Y * D)) * M + R * D * N * E
      BY <1>1, <1>2, <1>3, <1>7
    <2>3. R * D * N * E \in Nat /\ (R * (Y * D)) * M \in Nat /\ N * (F * (E * X)) \in Nat
      BY <1>1, <1>2, <1>3, <1>7
    <2>4. QED
      BY <1>9, <2>1, <2>2, <2>3
  <1>11. D * (Y * M + N * E) > 0 /\ F > 0
    BY <1>1, <1>3, <1>8
  <1>12. out \preceq r
    <2> DEFINE n == X * N * E
               d == D * (Y * M + N * E)
    <2>1. Is(out, n, d) /\ Is(r, R, F) /\ d > 0 /\ F > 0 /\ n * F <= R * d
      BY <1>3, <1>8, <1>10, <1>11
    <2> HIDE DEF n, d, out
    <2>2. QED
      BY <2>1, BelowIs
  <1>13. QED
    BY <1>8, <1>12 DEF Is, w, a

\* A number that was multiplied by G / H.
LEMMA MultipliedIs ==
  ASSUME NEW x, NEW X \in Nat \ {0}, NEW D \in Nat \ {0}, NEW G \in Nat \ {0}, NEW H \in Nat \ {0},
         Is(x, X, D), NEW x1, Is(x1, X * G, D * H)
  PROVE  IsPositive(x1) /\ Is(x1 // x, G, H)
  <1>1. X * G \in Nat \ {0} /\ D * H \in Nat \ {0}
    OBVIOUS
  <1>2. IsPositive(x1)
    BY <1>1, IsPositiveForm
  <1>3. Is(x1 // x, (X * G) * D, (D * H) * X)
    BY QuotientIs
  <1>4. ((X * G) * D) * H = G * ((D * H) * X) /\ G \in Int /\ H \in Int \ {0}
    OBVIOUS
  <1>5. QED
    BY <1>2, <1>3, <1>4, IsOther

\* When reserves and shares are multiplied by the same number, the price stays and
\* the product of the reserves per square of the shares does too.
SameWorth(x, y, t, x1, y1, t1) ==
  /\ IsPositive(x1) /\ IsPositive(y1) /\ IsPositive(t1)
  /\ y1 // x1 = y // x
  /\ (t1 // t) ** (t1 // t) = (x1 // x) ** (y1 // y) /\ (t1 // t) ** (t1 // t) \in Number

\* Reserves and shares that grow by the same factor keep the price and the worth of a
\* share.
LEMMA ScaledAlike ==
  ASSUME NEW x, NEW X \in Nat \ {0}, NEW D \in Nat \ {0}, Is(x, X, D),
         NEW y, NEW Y \in Nat \ {0}, NEW E \in Nat \ {0}, Is(y, Y, E),
         NEW t, NEW U \in Nat \ {0}, NEW V \in Nat \ {0}, Is(t, U, V),
         NEW G \in Nat \ {0}, NEW H \in Nat \ {0},
         NEW x1, Is(x1, X * G, D * H), NEW y1, Is(y1, Y * G, E * H), NEW t1, Is(t1, U * G, V * H)
  PROVE  SameWorth(x, y, t, x1, y1, t1)
  <1>1. IsPositive(x1) /\ Is(x1 // x, G, H)
    BY MultipliedIs
  <1>2. IsPositive(y1) /\ Is(y1 // y, G, H)
    BY MultipliedIs
  <1>3. IsPositive(t1) /\ Is(t1 // t, G, H)
    BY MultipliedIs
  <1>4. y1 // x1 = y // x
    <2>1. X * G # 0 /\ X # 0
      OBVIOUS
    <2>2. Is(y1 // x1, (Y * G) * (D * H), (E * H) * (X * G)) /\ Is(y // x, Y * D, E * X)
      BY <2>1, QuotientIs
    <2>3. ((Y * G) * (D * H)) * (E * X) = (Y * D) * ((E * H) * (X * G))
      OBVIOUS
    <2>4. QED
      BY <2>2, <2>3, IsUnique
  <1>5. Is((t1 // t) ** (t1 // t), G * G, H * H) /\ Is((x1 // x) ** (y1 // y), G * G, H * H)
    BY <1>1, <1>2, <1>3, ProductIs
  <1>6. (t1 // t) ** (t1 // t) = (x1 // x) ** (y1 // y)
    BY <1>5, IsUnique
  <1>7. QED
    BY <1>1, <1>2, <1>3, <1>4, <1>5, <1>6 DEF SameWorth, Is

Squared(x) == x ** x

\* A deposit in the ratio of the reserves.
LEMMA DepositKeeps ==
  ASSUME NEW x, IsPositive(x), NEW y, IsPositive(y), NEW t, IsPositive(t), NEW c, IsPositive(c),
         NEW e, e = c ** (y // x), NEW s, s = (c // x) ** t,
         NEW x1, x1 = x ++ c, NEW y1, y1 = y ++ e, NEW t1, t1 = t ++ s
  PROVE  /\ SameWorth(x, y, t, x1, y1, t1) /\ IsPositive(e) /\ IsPositive(s)
         /\ (c ** e) ** Squared(t1) = Squared(s) ** (x1 ** y1)
         /\ (c ** e) ** Squared(t1) \in Number
  <1>1. PICK X \in Nat \ {0}, D \in Nat \ {0} : Is(x, X, D)
    BY PositiveForm
  <1>2. PICK Y \in Nat \ {0}, E \in Nat \ {0} : Is(y, Y, E)
    BY PositiveForm
  <1>3. PICK U \in Nat \ {0}, V \in Nat \ {0} : Is(t, U, V)
    BY PositiveForm
  <1>4. PICK P \in Nat \ {0}, Q \in Nat \ {0} : Is(c, P, Q)
    BY PositiveForm
  <1> DEFINE G == X * Q + P * D
             H == X * Q
  <1>5. G \in Nat \ {0} /\ H \in Nat \ {0}
    BY <1>1, <1>4
  <1>6. Is(s, P * D * U, H * V) /\ P * D * U \in Nat \ {0} /\ H * V \in Nat \ {0}
    <2>1. Is(c // x, P * D, Q * X)
      BY <1>1, <1>4, QuotientIs
    <2>2. Is(s, (P * D) * U, (Q * X) * V)
      BY <1>3, <2>1, ProductIs
    <2>3. (P * D) * U = P * D * U /\ (Q * X) * V = H * V
      BY <1>1, <1>3, <1>4
    <2>4. QED
      BY <1>1, <1>3, <1>4, <2>2, <2>3
  <1>7. Is(e, P * Y * D, Q * E * X) /\ P * Y * D \in Nat \ {0} /\ Q * E * X \in Nat \ {0}
    <2>1. Is(y // x, Y * D, E * X)
      BY <1>1, <1>2, QuotientIs
    <2>2. Is(e, P * (Y * D), Q * (E * X))
      BY <1>4, <2>1, ProductIs
    <2>3. P * (Y * D) = P * Y * D /\ Q * (E * X) = Q * E * X
      BY <1>1, <1>2, <1>4
    <2>4. QED
      BY <1>1, <1>2, <1>4, <2>2, <2>3
  <1>8. Is(x1, X * G, D * H)
    <2>1. Is(x1, X * Q + P * D, D * Q)
      BY <1>1, <1>4, SumIs
    <2>2. (X * Q + P * D) * (D * H) = (X * G) * (D * Q)
      BY <1>1, <1>4
    <2> HIDE DEF G, H
    <2>3. X * G \in Int /\ D * H \in Int \ {0}
      BY <1>1, <1>5
    <2>4. QED
      BY <2>1, <2>2, <2>3, IsOther
  <1>9. Is(y1, Y * G, E * H)
    <2>1. Is(y1, Y * (Q * E * X) + (P * Y * D) * E, E * (Q * E * X))
      BY <1>2, <1>7, SumIs
    <2>2. (Y * (Q * E * X) + (P * Y * D) * E) * (E * H) = (Y * G) * (E * (Q * E * X))
      BY <1>1, <1>2, <1>4
    <2> HIDE DEF G, H
    <2>3. Y * G \in Int /\ E * H \in Int \ {0}
      BY <1>2, <1>5
    <2>4. QED
      BY <2>1, <2>2, <2>3, IsOther
  <1>10. Is(t1, U * G, V * H)
    <2>1. Is(t1, U * (H * V) + (P * D * U) * V, V * (H * V))
      BY <1>3, <1>6, SumIs
    <2>2. (U * (H * V) + (P * D * U) * V) * (V * H) = (U * G) * (V * (H * V))
      BY <1>1, <1>3, <1>4
    <2> HIDE DEF G, H
    <2>3. U * G \in Int /\ V * H \in Int \ {0}
      BY <1>3, <1>5
    <2>4. QED
      BY <2>1, <2>2, <2>3, IsOther
  <1>11. (c ** e) ** Squared(t1) = Squared(s) ** (x1 ** y1) /\ (c ** e) ** Squared(t1) \in Number
    <2> DEFINE n1 == (P * (P * Y * D)) * ((U * G) * (U * G))
               d1 == (Q * (Q * E * X)) * ((V * H) * (V * H))
               n2 == ((P * D * U) * (P * D * U)) * ((X * G) * (Y * G))
               d2 == ((H * V) * (H * V)) * ((D * H) * (E * H))
    <2>1. Is((c ** e) ** Squared(t1), n1, d1)
      BY <1>4, <1>7, <1>10, ProductIs DEF Squared
    <2>2. Is(Squared(s) ** (x1 ** y1), n2, d2)
      BY <1>6, <1>8, <1>9, ProductIs DEF Squared
    <2>3. n1 * d2 = n2 * d1
      <3> HIDE DEF G
      <3>1. QED
        BY <1>1, <1>2, <1>3, <1>4, <1>5
    <2> HIDE DEF n1, d1, n2, d2
    <2>4. (c ** e) ** Squared(t1) = Squared(s) ** (x1 ** y1)
      BY <2>1, <2>2, <2>3, IsUnique
    <2>5. QED
      BY <2>1, <2>4 DEF Is
  <1> HIDE DEF G, H
  <1>12. SameWorth(x, y, t, x1, y1, t1)
    BY <1>1, <1>2, <1>3, <1>5, <1>8, <1>9, <1>10, ScaledAlike
  <1>13. IsPositive(e) /\ IsPositive(s)
    BY <1>6, <1>7, IsPositiveForm
  <1>14. QED
    BY <1>11, <1>12, <1>13

\* A removal that leaves shares.
LEMMA RemovalKeeps ==
  ASSUME NEW x, IsPositive(x), NEW y, IsPositive(y), NEW t, IsPositive(t), NEW s, IsPositive(s),
         NEW x1, x1 = x -- ((s // t) ** x), NEW y1, y1 = y -- ((s // t) ** y),
         NEW t1, t1 = t -- s, Zero \prec t1
  PROVE  SameWorth(x, y, t, x1, y1, t1)
  <1>1. PICK X \in Nat \ {0}, D \in Nat \ {0} : Is(x, X, D)
    BY PositiveForm
  <1>2. PICK Y \in Nat \ {0}, E \in Nat \ {0} : Is(y, Y, E)
    BY PositiveForm
  <1>3. PICK U \in Nat \ {0}, V \in Nat \ {0} : Is(t, U, V)
    BY PositiveForm
  <1>4. PICK P \in Nat \ {0}, Q \in Nat \ {0} : Is(s, P, Q)
    BY PositiveForm
  <1> DEFINE G == U * Q - P * V
             H == U * Q
  <1>5. Is(t1, G, V * Q) /\ G \in Nat \ {0} /\ H \in Nat \ {0}
    <2>1. Is(t1, G, V * Q)
      BY <1>3, <1>4, DifferenceIs
    <2>2. V * Q > 0 /\ H \in Nat \ {0}
      BY <1>3, <1>4
    <2>3. G > 0
      <3> DEFINE d == V * Q
      <3> HIDE DEF G, d
      <3>1. Is(t1, G, d) /\ d > 0
        BY <2>1, <2>2 DEF d
      <3>2. QED
        BY <3>1, SignIs
    <2>4. QED
      BY <1>3, <1>4, <2>1, <2>2, <2>3
  <1>6. Is(t1, U * G, V * H)
    <2>1. G * (V * H) = (U * G) * (V * Q)
      BY <1>3, <1>4
    <2> HIDE DEF G, H
    <2>2. U * G \in Int /\ V * H \in Int \ {0}
      BY <1>3, <1>5
    <2>3. QED
      BY <1>5, <2>1, <2>2, IsOther
  <1>7. Is(s // t, P * V, Q * U)
    BY <1>3, <1>4, QuotientIs
  <1>8. ASSUME NEW z, NEW Z \in Nat \ {0}, NEW F \in Nat \ {0}, Is(z, Z, F)
        PROVE  Is(z -- ((s // t) ** z), Z * G, F * H)
    <2>1. Is((s // t) ** z, (P * V) * Z, (Q * U) * F)
      BY <1>7, <1>8, ProductIs
    <2>2. Is(z -- ((s // t) ** z), Z * ((Q * U) * F) - ((P * V) * Z) * F, F * ((Q * U) * F))
      BY <1>8, <2>1, DifferenceIs
    <2>3. (Z * ((Q * U) * F) - ((P * V) * Z) * F) * (F * H) = (Z * G) * (F * ((Q * U) * F))
      BY <1>3, <1>4
    <2> HIDE DEF G, H
    <2>4. Z * G \in Int /\ F * H \in Int \ {0}
      BY <1>5
    <2>5. QED
      BY <2>2, <2>3, <2>4, IsOther
  <1>9. Is(x1, X * G, D * H)
    BY <1>1, <1>8
  <1>10. Is(y1, Y * G, E * H)
    BY <1>2, <1>8
  <1> HIDE DEF G, H
  <1>11. QED
    BY <1>1, <1>2, <1>3, <1>5, <1>6, <1>9, <1>10, ScaledAlike

\* Products of smaller factors, and common factors.
LEMMA FactorsLeq ==
  ASSUME NEW a \in Nat, NEW b \in Nat, NEW c \in Nat, NEW d \in Nat, a <= b, c <= d
  PROVE  a * c <= b * d
  <1>1. a * c <= b * c
    OBVIOUS
  <1>2. b * c <= b * d
    OBVIOUS
  <1>3. QED
    BY <1>1, <1>2

\* A common factor can be left out of a comparison.
LEMMA FactorCancels ==
  ASSUME NEW a \in Nat, NEW b \in Nat, NEW k \in Nat \ {0}, a * k <= b * k
  PROVE  a <= b
  <1>1. SUFFICES ASSUME b + 1 <= a PROVE FALSE
    OBVIOUS
  <1>2. (b + 1) * k <= a * k
    BY <1>1
  <1>3. QED
    BY <1>2

\* A deposit is backed by the shares it was given: its product is no more than what
\* these are entitled to.
Funded(a, b, issued, x, y, t) == (a ** b) ** Squared(t) \preceq Squared(issued) ** (x ** y)
Grows(x, y, t, x1, y1, t1) == (t1 // t) ** (t1 // t) \preceq (x1 // x) ** (y1 // y)

\* A deposit stays backed when the product of the reserves grows at least as much as
\* the square of the shares.
LEMMA StaysFunded ==
  ASSUME NEW a, IsPositive(a), NEW b, IsPositive(b), NEW s \in Number, Zero \preceq s,
         NEW x, IsPositive(x), NEW y, IsPositive(y), NEW t, IsPositive(t),
         NEW x1, IsPositive(x1), NEW y1, IsPositive(y1), NEW t1, IsPositive(t1),
         Funded(a, b, s, x, y, t), Grows(x, y, t, x1, y1, t1)
  PROVE  Funded(a, b, s, x1, y1, t1)
  <1>1. PICK X \in Nat \ {0}, D \in Nat \ {0} : Is(x, X, D)
    BY PositiveForm
  <1>2. PICK Y \in Nat \ {0}, E \in Nat \ {0} : Is(y, Y, E)
    BY PositiveForm
  <1>3. PICK U \in Nat \ {0}, V \in Nat \ {0} : Is(t, U, V)
    BY PositiveForm
  <1>4. PICK X1 \in Nat \ {0}, D1 \in Nat \ {0} : Is(x1, X1, D1)
    BY PositiveForm
  <1>5. PICK Y1 \in Nat \ {0}, E1 \in Nat \ {0} : Is(y1, Y1, E1)
    BY PositiveForm
  <1>6. PICK U1 \in Nat \ {0}, V1 \in Nat \ {0} : Is(t1, U1, V1)
    BY PositiveForm
  <1>7. PICK A \in Nat \ {0}, A2 \in Nat \ {0} : Is(a, A, A2)
    BY PositiveForm
  <1>8. PICK B \in Nat \ {0}, B2 \in Nat \ {0} : Is(b, B, B2)
    BY PositiveForm
  <1>9. PICK S \in Nat, S2 \in Nat \ {0} : Is(s, S, S2)
    <2>1. PICK n \in Int, d \in Nat \ {0} : Is(s, n, d) /\ (Zero \preceq s <=> n >= 0)
      BY HasForm
    <2>2. n \in Nat
      BY <2>1
    <2>3. QED
      BY <2>1, <2>2
  <1> DEFINE ab == A * B
             ab2 == A2 * B2
             ss == S * S
             ss2 == S2 * S2
             k == X * Y
             k2 == D * E
             h == X1 * Y1
             h2 == D1 * E1
             u == U * U
             v == V * V
             w == U1 * U1
             z == V1 * V1
  <1>10. /\ Is(a ** b, ab, ab2) /\ Is(Squared(s), ss, ss2) /\ Is(x ** y, k, k2) /\ Is(x1 ** y1, h, h2)
         /\ Is(Squared(t), u, v) /\ Is(Squared(t1), w, z)
    BY <1>1, <1>2, <1>3, <1>4, <1>5, <1>6, <1>7, <1>8, <1>9, ProductIs DEF Squared
  <1>11. /\ ab \in Nat \ {0} /\ ab2 \in Nat \ {0} /\ ss \in Nat /\ ss2 \in Nat \ {0} /\ k \in Nat \ {0} /\ k2 \in Nat \ {0}
         /\ h \in Nat \ {0} /\ h2 \in Nat \ {0} /\ u \in Nat \ {0} /\ v \in Nat \ {0} /\ w \in Nat \ {0} /\ z \in Nat \ {0}
    BY <1>1, <1>2, <1>3, <1>4, <1>5, <1>6, <1>7, <1>8, <1>9
  <1>12. (w * v) * (h2 * k) <= (h * k2) * (z * u)
    <2> DEFINE g == (t1 // t) ** (t1 // t)
               r == (x1 // x) ** (y1 // y)
               n == (U1 * V) * (U1 * V)
               d == (V1 * U) * (V1 * U)
               m == (X1 * D) * (Y1 * E)
               e == (D1 * X) * (E1 * Y)
    <2>1. Is(t1 // t, U1 * V, V1 * U) /\ Is(x1 // x, X1 * D, D1 * X) /\ Is(y1 // y, Y1 * E, E1 * Y)
      BY <1>1, <1>2, <1>3, <1>4, <1>5, <1>6, QuotientIs
    <2>2. Is(g, n, d) /\ Is(r, m, e)
      BY <2>1, ProductIs
    <2>3. d > 0 /\ e > 0
      BY <1>1, <1>2, <1>3, <1>4, <1>5, <1>6
    <2>4. g \preceq r
      BY DEF Grows
    <2>5. n * e = (w * v) * (h2 * k) /\ m * d = (h * k2) * (z * u)
      BY <1>1, <1>2, <1>3, <1>4, <1>5, <1>6
    <2> HIDE DEF g, r, n, d, m, e
    <2>6. n * e <= m * d
      BY <2>2, <2>3, <2>4, BelowIs
    <2>7. QED
      BY <2>5, <2>6
  <1> HIDE DEF ab, ab2, ss, ss2, k, k2, h, h2, u, v, w, z
  <1>13. (ab * u) * (ss2 * k2) <= (ss * k) * (ab2 * v)
    <2> DEFINE n == ab * u
               d == ab2 * v
               m == ss * k
               e == ss2 * k2
    <2>1. Is((a ** b) ** Squared(t), n, d) /\ Is(Squared(s) ** (x ** y), m, e)
      BY <1>10, ProductIs
    <2>2. d > 0 /\ e > 0
      BY <1>11
    <2>3. QED
      BY <2>1, <2>2, BelowIs DEF Funded
  <1>14. (ab * w) * (ss2 * h2) <= (ss * h) * (ab2 * z)
    <2>1. ((ab * u) * (ss2 * k2)) * ((w * v) * (h2 * k)) <= ((ss * k) * (ab2 * v)) * ((h * k2) * (z * u))
      <3>1. (ab * u) * (ss2 * k2) \in Nat /\ (w * v) * (h2 * k) \in Nat /\ (ss * k) * (ab2 * v) \in Nat /\ (h * k2) * (z * u) \in Nat
        BY <1>11
      <3>2. QED
        BY <1>12, <1>13, <3>1, FactorsLeq
    <2> DEFINE f == u * k2 * v * k
    <2>2. /\ ((ab * u) * (ss2 * k2)) * ((w * v) * (h2 * k)) = ((ab * w) * (ss2 * h2)) * f
          /\ ((ss * k) * (ab2 * v)) * ((h * k2) * (z * u)) = ((ss * h) * (ab2 * z)) * f
      BY <1>11
    <2>3. f \in Nat \ {0} /\ (ab * w) * (ss2 * h2) \in Nat /\ (ss * h) * (ab2 * z) \in Nat
      BY <1>11
    <2> HIDE DEF f
    <2>4. ((ab * w) * (ss2 * h2)) * f <= ((ss * h) * (ab2 * z)) * f
      BY <2>1, <2>2
    <2>5. QED
      BY <2>3, <2>4, FactorCancels
  <1>15. QED
    <2> DEFINE n == ab * w
               d == ab2 * z
               m == ss * h
               e == ss2 * h2
    <2>1. Is((a ** b) ** Squared(t1), n, d) /\ Is(Squared(s) ** (x1 ** y1), m, e)
      BY <1>10, ProductIs
    <2>2. d > 0 /\ e > 0
      BY <1>11
    <2>3. n * e <= m * d
      BY <1>14
    <2> HIDE DEF n, d, m, e
    <2>4. QED
      BY <2>1, <2>2, <2>3, BelowIs DEF Funded
\* What the loss calculator gives a deposit, and what a removal would pay shares.
LossValue(a, b, x, y) ==
  LET spot == y // x
      ratio == spot // (b // a)
      hold == (a ** spot) ++ b
  IN Squared(hold) ** ((Frac(4, 1) ** ratio) // Squared(One ++ ratio))
PaidFor(h, x, y, t) == (((h // t) ** x) ** (y // x)) ++ ((h // t) ** y)

\* What shares are worth, over common denominators.
LEMMA PaidForIs ==
  ASSUME NEW x, NEW X \in Nat \ {0}, NEW D \in Nat \ {0}, Is(x, X, D),
         NEW y, NEW Y \in Nat \ {0}, NEW E \in Nat \ {0}, Is(y, Y, E),
         NEW t, NEW U \in Nat \ {0}, NEW V \in Nat \ {0}, Is(t, U, V),
         NEW h, NEW N \in Nat, NEW M \in Nat \ {0}, Is(h, N, M)
  PROVE  Is(PaidFor(h, x, y, t), 2 * (N * V * Y), M * U * E)
  <1>1. Is(h // t, N * V, M * U) /\ Is(y // x, Y * D, E * X)
    BY QuotientIs
  <1>2. Is((h // t) ** x, (N * V) * X, (M * U) * D) /\ Is((h // t) ** y, (N * V) * Y, (M * U) * E)
    BY <1>1, ProductIs
  <1>3. Is(((h // t) ** x) ** (y // x), ((N * V) * X) * (Y * D), ((M * U) * D) * (E * X))
    BY <1>1, <1>2, ProductIs
  <1> DEFINE n == N * V * Y
             d == M * U * E
  <1>4. n \in Nat /\ d \in Nat \ {0}
    OBVIOUS
  <1>5. Is(((h // t) ** x) ** (y // x), n, d)
    <2>1. (((N * V) * X) * (Y * D)) * d = n * (((M * U) * D) * (E * X))
      OBVIOUS
    <2>2. n \in Int /\ d \in Int \ {0}
      BY <1>4
    <2> HIDE DEF n, d
    <2>3. QED
      BY <1>3, <2>1, <2>2, IsOther
  <1>6. Is(PaidFor(h, x, y, t), n * d + n * d, d * d)
    <2>1. Is((h // t) ** y, n, d)
      BY <1>2
    <2> HIDE DEF n, d
    <2>2. QED
      BY <1>5, <2>1, SumIs DEF PaidFor
  <1> HIDE DEF n, d
  <1>7. (n * d + n * d) * d = (2 * n) * (d * d) /\ 2 * n \in Int
    BY <1>4
  <1>8. Is(PaidFor(h, x, y, t), 2 * n, d)
    BY <1>4, <1>6, <1>7, IsOther
  <1>9. QED
    BY <1>8 DEF n, d

\* What the loss calculator gives, over common denominators.
LEMMA LossValueIs ==
  ASSUME NEW x, NEW X \in Nat \ {0}, NEW D \in Nat \ {0}, Is(x, X, D),
         NEW y, NEW Y \in Nat \ {0}, NEW E \in Nat \ {0}, Is(y, Y, E),
         NEW a, NEW A \in Nat \ {0}, NEW F \in Nat \ {0}, Is(a, A, F),
         NEW b, NEW B \in Nat \ {0}, NEW G \in Nat \ {0}, Is(b, B, G)
  PROVE  Is(LossValue(a, b, x, y), 4 * (A * Y * B * D), F * E * X * G)
  <1> DEFINE spot == y // x
             ratio == spot // (b // a)
             hold == (a ** spot) ++ b
             P == Y * D * G * A
             Q == E * X * B * F
             R == F * E * X * G
             S == P + Q
  <1>1. P \in Nat \ {0} /\ Q \in Nat \ {0} /\ R \in Nat \ {0} /\ S \in Nat \ {0}
    <2>1. P \in Nat \ {0} /\ Q \in Nat \ {0} /\ R \in Nat \ {0}
      OBVIOUS
    <2> HIDE DEF P, Q, R
    <2>2. QED
      BY <2>1
  <1>2. Is(spot, Y * D, E * X) /\ Is(b // a, B * F, G * A)
    BY QuotientIs
  <1>3. Is(ratio, P, Q)
    <2>1. B * F # 0
      OBVIOUS
    <2>2. Is(ratio, (Y * D) * (G * A), (E * X) * (B * F))
      BY <1>2, <2>1, QuotientIs
    <2>3. (Y * D) * (G * A) = P /\ (E * X) * (B * F) = Q
      OBVIOUS
    <2>4. QED
      BY <2>2, <2>3
  <1>4. Is(hold, S, R)
    <2>1. Is(a ** spot, A * (Y * D), F * (E * X))
      BY <1>2, ProductIs
    <2>2. Is(hold, (A * (Y * D)) * G + B * (F * (E * X)), (F * (E * X)) * G)
      BY <2>1, SumIs
    <2>3. (A * (Y * D)) * G + B * (F * (E * X)) = S /\ (F * (E * X)) * G = R
      OBVIOUS
    <2>4. QED
      BY <2>2, <2>3
  <1> HIDE DEF P, Q, R, spot, ratio, hold
  <1>5. Is(One ++ ratio, S, Q)
    <2>1. Is(One ++ ratio, 1 * Q + P * 1, 1 * Q)
      BY <1>3, ZeroIs, SumIs
    <2>2. 1 * Q + P * 1 = S /\ 1 * Q = Q
      BY <1>1
    <2>3. QED
      BY <2>1, <2>2
  <1> HIDE DEF S
  <1>6. Is(Frac(4, 1), 4, 1)
    BY ReduceIs DEF Frac
  <1>7. Is(Frac(4, 1) ** ratio, 4 * P, 1 * Q)
    BY <1>3, <1>6, ProductIs
  <1>8. Is(Squared(One ++ ratio), S * S, Q * Q) /\ Is(Squared(hold), S * S, R * R)
    BY <1>4, <1>5, ProductIs DEF Squared
  <1>9. Is((Frac(4, 1) ** ratio) // Squared(One ++ ratio), (4 * P) * (Q * Q), (1 * Q) * (S * S))
    <2>1. S * S # 0
      BY <1>1
    <2>2. QED
      BY <1>7, <1>8, <2>1, QuotientIs
  <1>10. Is(LossValue(a, b, x, y), (S * S) * ((4 * P) * (Q * Q)), (R * R) * ((1 * Q) * (S * S)))
    BY <1>8, <1>9, ProductIs DEF LossValue, spot, ratio, hold
  <1>11. ((S * S) * ((4 * P) * (Q * Q))) * R = (4 * (A * Y * B * D)) * ((R * R) * ((1 * Q) * (S * S)))
    <2>1. P * Q = (A * Y * B * D) * R
      BY DEF P, Q, R
    <2> DEFINE K == A * Y * B * D
    <2>2. K \in Nat
      OBVIOUS
    <2>3. P * Q = K * R
      BY <2>1
    <2> HIDE DEF K
    <2>4. ((S * S) * ((4 * P) * (Q * Q))) * R = 4 * (P * Q) * (Q * S * S * R)
      BY <1>1
    <2>5. (4 * K) * ((R * R) * ((1 * Q) * (S * S))) = 4 * (K * R) * (Q * S * S * R)
      BY <1>1, <2>2
    <2>6. QED
      BY <2>3, <2>4, <2>5 DEF K
  <1>12. Is(LossValue(a, b, x, y), 4 * (A * Y * B * D), R)
    <2> DEFINE m == 4 * (A * Y * B * D)
    <2>1. m \in Int /\ R \in Int \ {0}
      BY <1>1
    <2> HIDE DEF m
    <2>2. QED
      BY <1>10, <1>11, <2>1, IsOther DEF m
  <1>13. QED
    BY <1>12 DEF R

\* A deposit that is backed is never promised more than its shares would be paid.
LEMMA PromiseKept ==
  ASSUME NEW a, IsPositive(a), NEW b, IsPositive(b), NEW s \in Number, Zero \preceq s,
         NEW x, IsPositive(x), NEW y, IsPositive(y), NEW t, IsPositive(t),
         Funded(a, b, s, x, y, t), NEW h \in Number, s \preceq h
  PROVE  LossValue(a, b, x, y) \preceq Squared(PaidFor(h, x, y, t))
  <1>1. PICK X \in Nat \ {0}, D \in Nat \ {0} : Is(x, X, D)
    BY PositiveForm
  <1>2. PICK Y \in Nat \ {0}, E \in Nat \ {0} : Is(y, Y, E)
    BY PositiveForm
  <1>3. PICK U \in Nat \ {0}, V \in Nat \ {0} : Is(t, U, V)
    BY PositiveForm
  <1>4. PICK A \in Nat \ {0}, F \in Nat \ {0} : Is(a, A, F)
    BY PositiveForm
  <1>5. PICK B \in Nat \ {0}, G \in Nat \ {0} : Is(b, B, G)
    BY PositiveForm
  <1>6. PICK I \in Int, J \in Nat \ {0} : Is(s, I, J) /\ (Zero \preceq s <=> I >= 0)
    BY HasForm
  <1>7. PICK N \in Int, M \in Nat \ {0} : Is(h, N, M)
    BY HasForm
  <1>8. I \in Nat /\ I * M <= N * J
    <2>1. M > 0 /\ J > 0
      BY <1>6, <1>7
    <2>2. s \preceq h <=> I * M <= N * J
      BY <1>6, <1>7, <2>1, BelowIs
    <2>3. QED
      BY <1>6, <2>2
  <1>9. N \in Nat
    <2>1. I * M >= 0
      BY <1>7, <1>8
    <2>2. N < 0 => N * J < 0
      BY <1>6, <1>7
    <2>3. I * M \in Int /\ N * J \in Int
      BY <1>6, <1>7
    <2>4. QED
      BY <1>7, <1>8, <2>1, <2>2, <2>3
  <1>10. Is(LossValue(a, b, x, y), 4 * (A * Y * B * D), F * E * X * G)
    BY <1>1, <1>2, <1>4, <1>5, LossValueIs
  <1>11. Is(PaidFor(h, x, y, t), 2 * (N * V * Y), M * U * E)
    BY <1>1, <1>2, <1>3, <1>7, <1>9, PaidForIs
  <1>12. ((A * B) * (U * U)) * ((J * J) * (D * E)) <= ((I * I) * (X * Y)) * ((F * G) * (V * V))
    <2> DEFINE n == (A * B) * (U * U)
               d == (F * G) * (V * V)
               m == (I * I) * (X * Y)
               e == (J * J) * (D * E)
    <2>1. Is((a ** b) ** Squared(t), n, d) /\ Is(Squared(s) ** (x ** y), m, e)
      BY <1>1, <1>2, <1>3, <1>4, <1>5, <1>6, ProductIs DEF Squared
    <2>2. d > 0 /\ e > 0
      BY <1>1, <1>2, <1>3, <1>4, <1>5, <1>6
    <2> HIDE DEF n, d, m, e
    <2>3. n * e <= m * d
      BY <2>1, <2>2, BelowIs DEF Funded
    <2>4. QED
      BY <2>3 DEF n, d, m, e
  <1>13. (I * M) * (I * M) <= (N * J) * (N * J)
    <2>1. I * M \in Nat /\ N * J \in Nat
      BY <1>6, <1>7, <1>8, <1>9
    <2>2. QED
      BY <1>8, <2>1, FactorsLeq
  <1> DEFINE R == F * E * X * G
             W == M * U * E
             K == A * Y * B * D
             L == N * V * Y
  <1>14. R \in Nat \ {0} /\ W \in Nat \ {0} /\ K \in Nat /\ L \in Nat
    BY <1>1, <1>2, <1>3, <1>4, <1>5, <1>7, <1>9
  <1>15. K * (W * W) <= (L * L) * R
    <2> DEFINE p == ((A * B) * (U * U)) * ((J * J) * (D * E))
               q == ((I * I) * (X * Y)) * ((F * G) * (V * V))
               i == (I * M) * (I * M)
               n == (N * J) * (N * J)
               f == M * M * E * Y
               g == X * Y * F * G * V * V * E * Y
    <2>1. p \in Nat /\ q \in Nat /\ i \in Nat /\ n \in Nat /\ f \in Nat /\ g \in Nat
      BY <1>1, <1>2, <1>3, <1>4, <1>5, <1>6, <1>7, <1>8, <1>9
    <2>2. (K * (W * W)) * (J * J) = p * f
      BY <1>1, <1>2, <1>3, <1>4, <1>5, <1>6, <1>7
    <2>3. q * f = i * g
      BY <1>1, <1>2, <1>3, <1>4, <1>5, <1>6, <1>7
    <2>4. n * g = ((L * L) * R) * (J * J)
      BY <1>1, <1>2, <1>3, <1>4, <1>5, <1>6, <1>7
    <2>5. p <= q /\ i <= n
      BY <1>12, <1>13
    <2> HIDE DEF p, q, i, n, f, g, K, L, R, W
    <2>6. p * f <= q * f /\ i * g <= n * g
      BY <2>1, <2>5, FactorsLeq
    <2>7. (K * (W * W)) * (J * J) <= ((L * L) * R) * (J * J)
      <3>1. p * f \in Int /\ q * f \in Int /\ n * g \in Int
        BY <2>1
      <3>2. p * f <= n * g
        BY <2>3, <2>6, <3>1
      <3>3. QED
        BY <2>2, <2>4, <3>2
    <2>8. K * (W * W) \in Nat /\ (L * L) * R \in Nat /\ J * J \in Nat \ {0}
      BY <1>6, <1>14
    <2>9. QED
      BY <2>7, <2>8, FactorCancels
  <1> HIDE DEF R, W, K, L
  <1>16. Is(LossValue(a, b, x, y), 4 * K, R) /\ Is(Squared(PaidFor(h, x, y, t)), (2 * L) * (2 * L), W * W)
    BY <1>10, <1>11, ProductIs DEF Squared, R, W, K, L
  <1>17. (4 * K) * (W * W) <= ((2 * L) * (2 * L)) * R
    <2> DEFINE n == K * (W * W)
               m == (L * L) * R
    <2>1. (4 * K) * (W * W) = 4 * n /\ ((2 * L) * (2 * L)) * R = 4 * m /\ n \in Nat /\ m \in Nat /\ n <= m
      BY <1>14, <1>15
    <2> HIDE DEF n, m
    <2>2. QED
      BY <2>1
  <1>18. R > 0 /\ W * W > 0
    BY <1>14
  <1>19. QED
    <2> DEFINE n == 4 * K
               m == (2 * L) * (2 * L)
               e == W * W
               u == LossValue(a, b, x, y)
               v == Squared(PaidFor(h, x, y, t))
    <2>1. Is(u, n, R) /\ Is(v, m, e) /\ R > 0 /\ e > 0 /\ n * e <= m * R
      BY <1>16, <1>17, <1>18
    <2> HIDE DEF n, m, e, u, v
    <2>2. u \preceq v
      BY <2>1, BelowIs
    <2>3. QED
      BY <2>2 DEF u, v
-----------------------------------------------------------------------------
(***************************************************************************)
(* Sums of numbers over a set, from a first one on.                        *)
(***************************************************************************)
Folded(base, w, S) == FoldFunctionOnSet(++, base, w, S)

\* The equation of the function the fold computes.
Folds(base, w, S, g) ==
  g = [s \in SUBSET S |-> IF s = {} THEN base ELSE w[NextSummand(s)] ++ g[s \ {NextSummand(s)}]]

\* The equation has one solution on each set.
LEMMA FoldsUnique ==
  ASSUME NEW S, IsFiniteSet(S), NEW base, NEW w, NEW g, NEW h, NEW T, S \subseteq T, NEW U, S \subseteq U,
         Folds(base, w, T, g), Folds(base, w, U, h)
  PROVE  g[S] = h[S]
  <1> DEFINE G == {s \in SUBSET S : g[s] = h[s]}
  <1>1. ASSUME NEW s \in SUBSET S, \A u \in SUBSET s : u # s => u \in G
        PROVE  s \in G
    <2>1. s \in SUBSET T /\ s \in SUBSET U
      OBVIOUS
    <2>2. CASE s = {}
      BY <2>1, <2>2 DEF Folds
    <2>3. CASE s # {}
      <3>1. s \ {NextSummand(s)} \in SUBSET s /\ s \ {NextSummand(s)} # s
        BY <2>3, NextIn
      <3>2. g[s \ {NextSummand(s)}] = h[s \ {NextSummand(s)}]
        BY <1>1, <3>1
      <3>3. g[s] = w[NextSummand(s)] ++ g[s \ {NextSummand(s)}] /\ h[s] = w[NextSummand(s)] ++ h[s \ {NextSummand(s)}]
        BY <2>1, <2>3 DEF Folds
      <3>4. QED
        BY <3>2, <3>3
    <2>4. QED
      BY <2>2, <2>3
  <1>2. S \in G
    <2> HIDE DEF G
    <2>1. QED
      BY <1>1, StrongSetInduction
  <1>3. QED
    BY <1>2

\* The equation has a solution.
LEMMA FoldsExists ==
  ASSUME NEW S, IsFiniteSet(S), NEW base, NEW w
  PROVE  \E g : Folds(base, w, S, g)
  <1> DEFINE G == {s \in SUBSET S : \E g : Folds(base, w, s, g)}
             Of(s) == CHOOSE g : Folds(base, w, s, g)
  <1>1. ASSUME NEW T \in SUBSET S, \A u \in SUBSET T : u # T => u \in G
        PROVE  T \in G
    <2> DEFINE g == [s \in SUBSET T |-> IF s = {} THEN base
                                        ELSE w[NextSummand(s)] ++ Of(s \ {NextSummand(s)})[s \ {NextSummand(s)}]]
    <2>1. \A u \in SUBSET T : u # T => Folds(base, w, u, Of(u))
      BY <1>1
    <2>2. ASSUME NEW s \in SUBSET T, s # {}
          PROVE  g[s \ {NextSummand(s)}] = Of(s \ {NextSummand(s)})[s \ {NextSummand(s)}]
      <3> DEFINE u == s \ {NextSummand(s)}
                 v == u \ {NextSummand(u)}
      <3>1. u \in SUBSET T /\ u # T
        BY <2>2, NextIn
      <3>2. Folds(base, w, u, Of(u))
        BY <2>1, <3>1
      <3>3. u \in SUBSET u
        OBVIOUS
      <3>4. CASE u = {}
        <4>1. g[u] = base
          BY <3>1, <3>4
        <4>2. Of(u)[u] = base
          BY <3>2, <3>3, <3>4 DEF Folds
        <4>3. QED
          BY <4>1, <4>2
      <3>5. CASE u # {}
        <4>1. v \in SUBSET u /\ v \in SUBSET T /\ v # T
          BY <3>1, <3>5, NextIn
        <4>2. Folds(base, w, v, Of(v))
          BY <2>1, <4>1
        <4>3. IsFiniteSet(v)
          BY <4>1, FS_Subset
        <4>4. Of(u)[v] = Of(v)[v]
          <5> HIDE DEF u, v, Of
          <5>1. QED
            BY <3>2, <4>1, <4>2, <4>3, FoldsUnique
        <4>5. g[u] = w[NextSummand(u)] ++ Of(v)[v]
          BY <3>1, <3>5
        <4>6. Of(u)[u] = w[NextSummand(u)] ++ Of(u)[v]
          <5> HIDE DEF Of
          <5>1. QED
            BY <3>2, <3>3, <3>5 DEF Folds
        <4>7. QED
          BY <4>4, <4>5, <4>6
      <3>6. QED
        BY <3>4, <3>5
    <2>3. Folds(base, w, T, g)
      <3>1. g = [s \in SUBSET T |-> IF s = {} THEN base ELSE w[NextSummand(s)] ++ g[s \ {NextSummand(s)}]]
        <4> HIDE DEF Of
        <4>1. \A s \in SUBSET T :
                g[s] = IF s = {} THEN base ELSE w[NextSummand(s)] ++ g[s \ {NextSummand(s)}]
          BY <2>2
        <4>2. g = [s \in SUBSET T |-> g[s]]
          OBVIOUS
        <4> HIDE DEF g
        <4>3. QED
          BY <4>1, <4>2
      <3> HIDE DEF g
      <3>2. QED
        BY <3>1 DEF Folds
    <2>4. QED
      BY <2>3
  <1>2. S \in G
    <2> HIDE DEF G
    <2>1. QED
      BY <1>1, StrongSetInduction
  <1>3. QED
    BY <1>2

\* The fold is what such a function has for the set.
LEMMA FoldFound ==
  ASSUME NEW S, IsFiniteSet(S), NEW base, NEW w
  PROVE  \E g : Folds(base, w, S, g) /\ Folded(base, w, S) = g[S]
  <1> DEFINE f == CHOOSE g : Folds(base, w, S, g)
  <1>1. Folds(base, w, S, f)
    BY FoldsExists
  <1>2. Folded(base, w, S) = f[S]
    BY DEF Folded, FoldFunctionOnSet, MapThenFoldSet, Folds, NextSummand
  <1>3. QED
    BY <1>1, <1>2

\* It is taken one element at a time.
LEMMA FoldStep ==
  ASSUME NEW S, IsFiniteSet(S), NEW base, NEW w
  PROVE  Folded(base, w, S) =
           IF S = {} THEN base ELSE w[NextSummand(S)] ++ Folded(base, w, S \ {NextSummand(S)})
  <1>1. PICK g : Folds(base, w, S, g) /\ Folded(base, w, S) = g[S]
    BY FoldFound
  <1>2. CASE S = {}
    BY <1>1, <1>2 DEF Folds
  <1>3. CASE S # {}
    <2> DEFINE T == S \ {NextSummand(S)}
    <2>1. IsFiniteSet(T)
      BY FS_Subset
    <2> HIDE DEF T
    <2>2. PICK h : Folds(base, w, T, h) /\ Folded(base, w, T) = h[T]
      BY <2>1, FoldFound
    <2>3. T \subseteq S
      BY DEF T
    <2>4. g[T] = h[T]
      BY <1>1, <2>1, <2>2, <2>3, FoldsUnique
    <2>5. g[S] = w[NextSummand(S)] ++ g[T]
      BY <1>1, <1>3 DEF Folds, T
    <2>6. QED
      BY <1>1, <1>3, <2>2, <2>4, <2>5 DEF T
  <1>4. QED
    BY <1>2, <1>3

\* Numbers may be added in any order.
LEMMA SumCommutes == ASSUME NEW x \in Number, NEW y \in Number PROVE x ++ y = y ++ x /\ x ++ y \in Number
  <1>1. Is(x, x[1], x[2]) /\ Is(y, y[1], y[2]) /\ x[1] \in Int /\ x[2] \in Int /\ y[1] \in Int /\ y[2] \in Int
    BY NumberIs
  <1>2. Is(x ++ y, x[1] * y[2] + y[1] * x[2], x[2] * y[2]) /\ Is(y ++ x, y[1] * x[2] + x[1] * y[2], y[2] * x[2])
    BY <1>1, SumIs
  <1>3. (x[1] * y[2] + y[1] * x[2]) * (y[2] * x[2]) = (y[1] * x[2] + x[1] * y[2]) * (x[2] * y[2])
    BY <1>1
  <1>4. x ++ y = y ++ x
    BY <1>2, <1>3, IsUnique
  <1>5. QED
    BY <1>2, <1>4 DEF Is

\* The order of additions does not matter.
LEMMA SumAssociates ==
  ASSUME NEW x \in Number, NEW y \in Number, NEW z \in Number
  PROVE  (x ++ y) ++ z = x ++ (y ++ z)
  <1> DEFINE a == x[1]
             b == x[2]
             c == y[1]
             d == y[2]
             e == z[1]
             f == z[2]
  <1>1. Is(x, a, b) /\ Is(y, c, d) /\ Is(z, e, f)
    BY NumberIs
  <1>2. a \in Int /\ b \in Int /\ c \in Int /\ d \in Int /\ e \in Int /\ f \in Int
    BY NumberIs
  <1> HIDE DEF a, b, c, d, e, f
  <1>3. Is(x ++ y, a * d + c * b, b * d) /\ Is(y ++ z, c * f + e * d, d * f)
    BY <1>1, SumIs
  <1>4. /\ Is((x ++ y) ++ z, (a * d + c * b) * f + e * (b * d), (b * d) * f)
        /\ Is(x ++ (y ++ z), a * (d * f) + (c * f + e * d) * b, b * (d * f))
    BY <1>1, <1>3, SumIs
  <1>5. ((a * d + c * b) * f + e * (b * d)) * (b * (d * f)) = (a * (d * f) + (c * f + e * d) * b) * ((b * d) * f)
    BY <1>2
  <1>6. QED
    BY <1>4, <1>5, IsUnique

\* A fold of numbers is a number, and any element may be taken first.
LEMMA FoldAny ==
  ASSUME NEW S, IsFiniteSet(S), NEW base \in Number, NEW w, \A x \in S : w[x] \in Number
  PROVE  /\ Folded(base, w, S) \in Number
         /\ \A x \in S : Folded(base, w, S) = w[x] ++ Folded(base, w, S \ {x})
  <1> DEFINE sum(T) == Folded(base, w, T)
             G == {T \in SUBSET S : sum(T) \in Number /\ \A x \in T : sum(T) = w[x] ++ sum(T \ {x})}
  <1>1. ASSUME NEW T \in SUBSET S, \A U \in SUBSET T : U # T => U \in G
        PROVE  T \in G
    <2> DEFINE e == NextSummand(T)
    <2>1. sum(T) = IF T = {} THEN base ELSE w[e] ++ sum(T \ {e})
      BY FS_Subset, FoldStep
    <2>2. CASE T = {}
      BY <2>1, <2>2
    <2>3. CASE T # {}
      <3>1. e \in T /\ T \ {e} \in G /\ w[e] \in Number
        BY <1>1, <2>3, NextIn
      <3>2. sum(T \ {e}) \in Number
        BY <3>1
      <3>3. ASSUME NEW x \in T, x # e PROVE sum(T) = w[x] ++ sum(T \ {x})
        <4>1. T \ {x} \in G /\ w[x] \in Number
          BY <1>1, <3>3
        <4>2. sum(T \ {e}) = w[x] ++ sum((T \ {e}) \ {x})
          BY <3>1, <3>3
        <4>3. sum(T \ {x}) = w[e] ++ sum((T \ {x}) \ {e})
          BY <3>1, <3>3, <4>1
        <4>4. (T \ {e}) \ {x} = (T \ {x}) \ {e} /\ (T \ {e}) \ {x} \in G
          BY <1>1, <3>1
        <4>5. sum((T \ {e}) \ {x}) \in Number /\ sum((T \ {e}) \ {x}) = sum((T \ {x}) \ {e})
          BY <4>4
        <4>6. sum(T) = w[e] ++ sum(T \ {e})
          BY <2>1, <2>3
        <4> HIDE DEF sum, e
        <4>7. w[e] ++ (w[x] ++ sum((T \ {e}) \ {x})) = w[x] ++ (w[e] ++ sum((T \ {e}) \ {x}))
          <5> DEFINE r == sum((T \ {e}) \ {x})
                     p == w[e]
                     q == w[x]
          <5>1. r \in Number /\ p \in Number /\ q \in Number
            BY <3>1, <4>1, <4>5
          <5> HIDE DEF r, p, q
          <5>2. p ++ (q ++ r) = (p ++ q) ++ r /\ q ++ (p ++ r) = (q ++ p) ++ r /\ p ++ q = q ++ p
            BY <5>1, SumAssociates, SumCommutes
          <5>3. p ++ (q ++ r) = q ++ (p ++ r)
            BY <5>2
          <5>4. QED
            BY <5>3 DEF p, q, r
        <4>8. QED
          BY <4>2, <4>3, <4>5, <4>6, <4>7
      <3>4. sum(T) = w[e] ++ sum(T \ {e})
        BY <2>1, <2>3
      <3>5. sum(T) \in Number
        <4> HIDE DEF sum, e
        <4>1. QED
          BY <3>1, <3>2, <3>4, SumCommutes
      <3>6. \A x \in T : sum(T) = w[x] ++ sum(T \ {x})
        <4> HIDE DEF sum, e
        <4>1. QED
          BY <3>3, <3>4
      <3>7. QED
        BY <3>5, <3>6
    <2>4. QED
      BY <2>2, <2>3
  <1>2. S \in G
    <2> HIDE DEF G
    <2>1. QED
      BY <1>1, StrongSetInduction
  <1>3. QED
    BY <1>2

\* Folds of the same numbers are the same.
LEMMA FoldSame ==
  ASSUME NEW S, IsFiniteSet(S), NEW base, NEW w, NEW v, SameOn(w, v, S)
  PROVE  Folded(base, w, S) = Folded(base, v, S)
  <1> DEFINE G == {T \in SUBSET S : Folded(base, w, T) = Folded(base, v, T)}
  <1>1. ASSUME NEW T \in SUBSET S, \A U \in SUBSET T : U # T => U \in G
        PROVE  T \in G
    <2> DEFINE e == NextSummand(T)
    <2>1. /\ Folded(base, w, T) = IF T = {} THEN base ELSE w[e] ++ Folded(base, w, T \ {e})
          /\ Folded(base, v, T) = IF T = {} THEN base ELSE v[e] ++ Folded(base, v, T \ {e})
      BY FS_Subset, FoldStep
    <2>2. T # {} => e \in T /\ w[e] = v[e] /\ T \ {e} \in G
      BY <1>1, NextIn DEF SameOn
    <2> HIDE DEF e
    <2>3. QED
      BY <2>1, <2>2
  <1>2. S \in G
    <2> HIDE DEF G
    <2>1. QED
      BY <1>1, StrongSetInduction
  <1>3. QED
    BY <1>2

\* One number changes, and so does the fold.
LEMMA FoldChange ==
  ASSUME NEW S, IsFiniteSet(S), NEW base \in Number, NEW w, NEW v, \A x \in S : w[x] \in Number /\ v[x] \in Number,
         NEW x \in S, SameOn(w, v, S \ {x})
  PROVE  \E rest \in Number : Folded(base, w, S) = w[x] ++ rest /\ Folded(base, v, S) = v[x] ++ rest
  <1> DEFINE T == S \ {x}
  <1>1. IsFiniteSet(T) /\ T \subseteq S
    BY FS_Subset
  <1>0. (\A y \in S : w[y] \in Number) /\ (\A y \in S : v[y] \in Number)
    OBVIOUS
  <1>2. Folded(base, w, S) = w[x] ++ Folded(base, w, T)
    <2>1. \A y \in S : Folded(base, w, S) = w[y] ++ Folded(base, w, S \ {y})
      BY <1>0, FoldAny
    <2>2. QED
      BY <2>1
  <1>3. Folded(base, v, S) = v[x] ++ Folded(base, v, T)
    <2>1. \A y \in S : Folded(base, v, S) = v[y] ++ Folded(base, v, S \ {y})
      BY <1>0, FoldAny
    <2>2. QED
      BY <2>1
  <1>4. SameOn(w, v, T)
    OBVIOUS
  <1> HIDE DEF T
  <1>5. Folded(base, w, T) = Folded(base, v, T)
    BY <1>1, <1>4, FoldSame
  <1>6. \A y \in T : w[y] \in Number
    BY <1>1
  <1>7. Folded(base, w, T) \in Number
    BY <1>1, <1>6, FoldAny
  <1>8. QED
    BY <1>2, <1>3, <1>5, <1>7

\* Order and sums.
LEMMA SumOrder ==
  ASSUME NEW x \in Number, NEW y \in Number, NEW z \in Number
  PROVE  /\ x ++ z \preceq y ++ z <=> x \preceq y
         /\ x ++ z \prec y ++ z <=> x \prec y
  <1> DEFINE a == x[1]
             b == x[2]
             c == y[1]
             d == y[2]
             e == z[1]
             f == z[2]
             n == a * f + e * b
             m == c * f + e * d
  <1>1. Is(x, a, b) /\ Is(y, c, d) /\ Is(z, e, f)
    BY NumberIs
  <1>2. a \in Int /\ b \in Nat \ {0} /\ c \in Int /\ d \in Nat \ {0} /\ e \in Int /\ f \in Nat \ {0}
    BY NumberIs
  <1> HIDE DEF a, b, c, d, e, f
  <1>3. Is(x ++ z, n, b * f) /\ Is(y ++ z, m, d * f) /\ b > 0 /\ d > 0 /\ b * f > 0 /\ d * f > 0
    <2>1. Is(x ++ z, n, b * f) /\ Is(y ++ z, m, d * f)
      BY <1>1, SumIs
    <2> HIDE DEF n, m
    <2>2. b > 0 /\ d > 0 /\ b * f > 0 /\ d * f > 0
      BY <1>2
    <2>3. QED
      BY <2>1, <2>2
  <1>4. (x \prec y <=> a * d < c * b) /\ (x \preceq y <=> a * d <= c * b)
    BY <1>1, <1>3, BelowIs
  <1>5. (x ++ z \prec y ++ z <=> n * (d * f) < m * (b * f)) /\ (x ++ z \preceq y ++ z <=> n * (d * f) <= m * (b * f))
    <2> DEFINE p == b * f
               q == d * f
    <2> HIDE DEF n, m
    <2>1. Is(x ++ z, n, p) /\ Is(y ++ z, m, q) /\ p > 0 /\ q > 0
      BY <1>3
    <2> HIDE DEF p, q
    <2>2. (x ++ z \prec y ++ z <=> n * q < m * p) /\ (x ++ z \preceq y ++ z <=> n * q <= m * p)
      BY <2>1, BelowIs
    <2>3. QED
      BY <2>2 DEF p, q
  <1>6. m * (b * f) - n * (d * f) = (c * b - a * d) * (f * f)
    BY <1>2
  <1> DEFINE k == c * b - a * d
             g == f * f
             r == m * (b * f)
             s == n * (d * f)
  <1>7. k \in Int /\ g \in Nat \ {0} /\ r \in Int /\ s \in Int /\ r - s = k * g
    BY <1>2, <1>6
  <1>8. (k > 0 <=> a * d < c * b) /\ (k >= 0 <=> a * d <= c * b)
    BY <1>2
  <1> HIDE DEF k, g, r, s
  <1>9. (k > 0 => k * g > 0) /\ (k < 0 => k * g < 0) /\ (k = 0 => k * g = 0) /\ k * g \in Int
    BY <1>7
  <1>10. (k > 0 <=> s < r) /\ (k >= 0 <=> s <= r)
    BY <1>7, <1>9
  <1>11. QED
    BY <1>4, <1>5, <1>8, <1>10 DEF r, s

\* The order is total and transitive.
LEMMA Ordered ==
  ASSUME NEW x \in Number, NEW y \in Number, NEW z \in Number
  PROVE  /\ x \preceq x /\ (x \prec y => x \preceq y) /\ (x \preceq y <=> ~(y \prec x))
         /\ x \preceq y /\ y \preceq z => x \preceq z
         /\ x \prec y /\ y \preceq z => x \prec z
         /\ x \preceq y /\ y \prec z => x \prec z
         /\ x \preceq y /\ y \preceq x => x = y
  <1> DEFINE a == x[1]
             b == x[2]
             c == y[1]
             d == y[2]
             e == z[1]
             f == z[2]
  <1>1. Is(x, a, b) /\ Is(y, c, d) /\ Is(z, e, f)
    BY NumberIs
  <1>2. a \in Int /\ b \in Nat \ {0} /\ c \in Int /\ d \in Nat \ {0} /\ e \in Int /\ f \in Nat \ {0} /\ b > 0 /\ d > 0 /\ f > 0
    BY NumberIs
  <1> HIDE DEF a, b, c, d, e, f
  <1>3. /\ (x \prec y <=> a * d < c * b) /\ (x \preceq y <=> a * d <= c * b)
        /\ (y \prec x <=> c * b < a * d) /\ (y \preceq x <=> c * b <= a * d)
        /\ (x \preceq x <=> a * b <= a * b)
    BY <1>1, <1>2, BelowIs
  <1>4. /\ (y \prec z <=> c * f < e * d) /\ (y \preceq z <=> c * f <= e * d)
        /\ (x \prec z <=> a * f < e * b) /\ (x \preceq z <=> a * f <= e * b)
    BY <1>1, <1>2, BelowIs
  <1>5. a * d \in Int /\ c * b \in Int /\ a * b \in Int
    BY <1>2
  <1>6. x \preceq x /\ (x \prec y => x \preceq y) /\ (x \preceq y <=> ~(y \prec x))
    BY <1>3, <1>5
  <1>7. x \preceq y /\ y \preceq x => x = y
    BY <1>1, <1>3, <1>5, IsUnique
  <1> DEFINE p == a * d
             q == c * b
             r == c * f
             s == e * d
  <1>8. /\ (p <= q => p * f <= q * f) /\ (p < q => p * f < q * f)
        /\ (r <= s => r * b <= s * b) /\ (r < s => r * b < s * b)
    <2>1. p \in Int /\ q \in Int /\ r \in Int /\ s \in Int
      BY <1>2
    <2> HIDE DEF p, q, r, s
    <2>2. QED
      BY <1>2, <2>1
  <1>9. q * f = r * b /\ p * f = (a * f) * d /\ s * b = (e * b) * d
    BY <1>2
  <1> DEFINE u == a * f
             v == e * b
  <1>10. u \in Int /\ v \in Int /\ p * f \in Int /\ q * f \in Int /\ s * b \in Int
    BY <1>2
  <1> HIDE DEF p, q, r, s, u, v
  <1>11. (u * d <= v * d => u <= v) /\ (u * d < v * d => u < v)
    BY <1>2, <1>10
  <1>12. (x \prec y <=> p < q) /\ (x \preceq y <=> p <= q) /\ (y \prec z <=> r < s) /\ (y \preceq z <=> r <= s)
         /\ (x \prec z <=> u < v) /\ (x \preceq z <=> u <= v)
    BY <1>3, <1>4 DEF p, q, r, s, u, v
  <1>13. q * f = r * b /\ p * f = u * d /\ s * b = v * d
    BY <1>9 DEF u, v
  <1>14. x \preceq y /\ y \preceq z => x \preceq z
    BY <1>8, <1>10, <1>11, <1>12, <1>13
  <1>15. (x \prec y /\ y \preceq z => x \prec z) /\ (x \preceq y /\ y \prec z => x \prec z)
    BY <1>8, <1>10, <1>11, <1>12, <1>13
  <1>16. QED
    BY <1>6, <1>7, <1>14, <1>15

\* Zero adds nothing.
LEMMA NothingAdded == ASSUME NEW x \in Number PROVE Zero ++ x = x /\ x ++ Zero = x
  <1>1. Is(x, x[1], x[2]) /\ Is(Zero, 0, 1) /\ x[1] \in Int /\ x[2] \in Int
    BY NumberIs, ZeroIs
  <1>2. Is(Zero ++ x, 0 * x[2] + x[1] * 1, 1 * x[2])
    BY <1>1, SumIs
  <1>3. (0 * x[2] + x[1] * 1) * x[2] = x[1] * (1 * x[2])
    BY <1>1
  <1>4. Zero ++ x = x
    BY <1>1, <1>2, <1>3, IsUnique
  <1>5. QED
    BY <1>4, SumCommutes, ZeroIs

\* To subtract is to add the opposite.
Negated(x) == <<-x[1], x[2]>>

\* A difference is a sum.
LEMMA NegatedIs ==
  ASSUME NEW s \in Number
  PROVE  Negated(s) \in Number /\ \A x : x -- s = x ++ Negated(s)
  <1>1. s[1] \in Int /\ s[2] \in Nat \ {0} /\ Lowest(s)
    BY DEF Number
  <1>2. PICK u, v \in Int : u * s[1] + v * s[2] = 1
    BY <1>1 DEF Lowest
  <1>3. (-u) * (-s[1]) + v * s[2] = 1 /\ -u \in Int /\ -s[1] \in Int
    BY <1>1, <1>2
  <1>4. Negated(s)[1] = -s[1] /\ Negated(s)[2] = s[2] /\ Negated(s) \in Int \X (Nat \ {0})
    BY <1>1, <1>3 DEF Negated
  <1>5. Lowest(Negated(s))
    BY <1>3, <1>4 DEF Lowest
  <1>6. QED
    <2>1. Negated(s) \in Number
      BY <1>4, <1>5 DEF Number
    <2>2. \A x : x -- s = x ++ Negated(s)
      BY DEF --, ++, Negated
    <2>3. QED
      BY <2>1, <2>2

\* Subtraction undoes addition, and keeps the order.
LEMMA SubtractIs ==
  ASSUME NEW s \in Number, NEW x \in Number
  PROVE  x -- s \in Number /\ (x -- s) ++ s = x /\ (x ++ s) -- s = x
  <1>1. Is(x, x[1], x[2]) /\ Is(s, s[1], s[2])
    BY NumberIs
  <1> DEFINE a == x[1]
             b == x[2]
             c == s[1]
             d == s[2]
  <1>2. a \in Int /\ b \in Int /\ c \in Int /\ d \in Int
    BY NumberIs
  <1> HIDE DEF a, b, c, d
  <1>3. Is(x, a, b) /\ Is(s, c, d)
    BY <1>1 DEF a, b, c, d
  <1>4. Is(x -- s, a * d - c * b, b * d) /\ Is(x ++ s, a * d + c * b, b * d)
    BY <1>3, DifferenceIs, SumIs
  <1>5. Is((x -- s) ++ s, (a * d - c * b) * d + c * (b * d), (b * d) * d)
    BY <1>3, <1>4, SumIs
  <1>6. Is((x ++ s) -- s, (a * d + c * b) * d - c * (b * d), (b * d) * d)
    BY <1>3, <1>4, DifferenceIs
  <1>7. ((a * d - c * b) * d + c * (b * d)) * b = a * ((b * d) * d)
    BY <1>2
  <1>8. ((a * d + c * b) * d - c * (b * d)) * b = a * ((b * d) * d)
    BY <1>2
  <1>9. (x -- s) ++ s = x
    BY <1>3, <1>5, <1>7, IsUnique
  <1>10. (x ++ s) -- s = x
    BY <1>3, <1>6, <1>8, IsUnique
  <1>11. QED
    BY <1>4, <1>9, <1>10 DEF Is

\* The same number can be subtracted from both sides of a comparison.
LEMMA SubtractOrder ==
  ASSUME NEW x \in Number, NEW y \in Number, NEW s \in Number
  PROVE  /\ x -- s \preceq y -- s <=> x \preceq y
         /\ (x -- s = y -- s) <=> (x = y)
         /\ (x ++ y) -- s = (x -- s) ++ y
  <1>1. Negated(s) \in Number /\ x -- s = x ++ Negated(s) /\ y -- s = y ++ Negated(s) /\ (x ++ y) -- s = (x ++ y) ++ Negated(s)
    BY NegatedIs
  <1> DEFINE n == Negated(s)
  <1> HIDE DEF n
  <1>2. n \in Number /\ x -- s = x ++ n /\ y -- s = y ++ n /\ (x ++ y) -- s = (x ++ y) ++ n
    BY <1>1 DEF n
  <1>3. x ++ n \preceq y ++ n <=> x \preceq y
    BY <1>2, SumOrder
  <1>4. (x ++ y) ++ n = (x ++ n) ++ y
    <2>1. (x ++ y) ++ n = x ++ (y ++ n) /\ x ++ (n ++ y) = (x ++ n) ++ y /\ y ++ n = n ++ y
      BY <1>2, SumAssociates, SumCommutes
    <2>2. QED
      BY <2>1
  <1>5. (x -- s) ++ s = x /\ (y -- s) ++ s = y
    BY SubtractIs
  <1>6. QED
    BY <1>2, <1>3, <1>4, <1>5

\* Equal sums.
LEMMA SumCancels ==
  ASSUME NEW x \in Number, NEW y \in Number, NEW z \in Number, x ++ z = y ++ z PROVE x = y
  <1>1. (x ++ z) -- z = x /\ (y ++ z) -- z = y
    BY SubtractIs
  <1>2. QED
    BY <1>1

\* Positive numbers.
LEMMA PositiveIs ==
  ASSUME NEW x, IsPositive(x), NEW y, IsPositive(y)
  PROVE  /\ IsPositive(x ** y) /\ IsPositive(x // y) /\ IsPositive(x ++ y)
         /\ x # Zero /\ x // x = One /\ (x // x) ** (x // x) = One /\ (x // y) ** y = x
  <1>1. PICK a \in Nat \ {0}, b \in Nat \ {0} : Is(x, a, b)
    BY PositiveForm
  <1>2. PICK c \in Nat \ {0}, d \in Nat \ {0} : Is(y, c, d)
    BY PositiveForm
  <1>3. /\ a * c \in Nat \ {0} /\ b * d \in Nat \ {0} /\ a * d \in Nat \ {0} /\ b * c \in Nat \ {0} /\ a * b \in Nat \ {0}
        /\ b * a \in Nat \ {0} /\ a * d + c * b \in Nat \ {0} /\ c * b \in Nat \ {0} /\ d * a \in Nat \ {0}
    <2>1. /\ a * c > 0 /\ b * d > 0 /\ a * d > 0 /\ b * c > 0 /\ a * b > 0 /\ b * a > 0 /\ c * b > 0 /\ d * a > 0
      OBVIOUS
    <2>2. QED
      BY <2>1
  <1>4. Is(x ** y, a * c, b * d) /\ Is(x // y, a * d, b * c) /\ Is(x ++ y, a * d + c * b, b * d)
        /\ Is(x // x, a * b, b * a) /\ Is(y // x, c * b, d * a)
    BY <1>1, <1>2, ProductIs, QuotientIs, SumIs
  <1>5. IsPositive(x ** y) /\ IsPositive(x // y) /\ IsPositive(x ++ y)
    BY <1>3, <1>4, IsPositiveForm
  <1>6. x # Zero
    <2>1. ~(Zero \prec Zero)
      BY ZeroIs, Ordered
    <2>2. QED
      BY <2>1 DEF IsPositive
  <1>7. (x // x) ** (x // x) = One /\ x // x = One
    <2>1. Is((x // x) ** (x // x), (a * b) * (a * b), (b * a) * (b * a))
      BY <1>4, ProductIs
    <2>2. ((a * b) * (a * b)) * 1 = 1 * ((b * a) * (b * a))
      OBVIOUS
    <2>3. Is(One, 1, 1)
      BY ZeroIs
    <2>4. (x // x) ** (x // x) = One
      BY <2>1, <2>2, <2>3, IsUnique
    <2>5. (a * b) * 1 = 1 * (b * a)
      OBVIOUS
    <2>6. x // x = One
      BY <1>4, <2>3, <2>5, IsUnique
    <2>7. QED
      BY <2>4, <2>6
  <1>8. (x // y) ** y = x
    <2>1. Is((x // y) ** y, (a * d) * c, (b * c) * d)
      BY <1>2, <1>4, ProductIs
    <2>2. ((a * d) * c) * b = a * ((b * c) * d)
      OBVIOUS
    <2>3. QED
      BY <1>1, <2>1, <2>2, IsUnique
  <1>9. QED
    BY <1>5, <1>6, <1>7, <1>8

\* The fold of numbers that are not negative is not below its base.
LEMMA FoldAtLeast ==
  ASSUME NEW S, IsFiniteSet(S), NEW base \in Number, NEW w, \A x \in S : w[x] \in Number /\ Zero \preceq w[x]
  PROVE  base \preceq Folded(base, w, S)
  <1> DEFINE G == {T \in SUBSET S : base \preceq Folded(base, w, T)}
  <1>1. ASSUME NEW T \in SUBSET S, \A U \in SUBSET T : U # T => U \in G
        PROVE  T \in G
    <2> DEFINE e == NextSummand(T)
               r == Folded(base, w, T \ {e})
    <2>1. Folded(base, w, T) = IF T = {} THEN base ELSE w[e] ++ r
      BY FS_Subset, FoldStep
    <2>2. T # {} => w[e] \in Number /\ Zero \preceq w[e] /\ T \ {e} \in G
      BY <1>1, NextIn
    <2>3. T # {} => r \in Number
      <3>1. IsFiniteSet(T \ {e}) /\ \A x \in T \ {e} : w[x] \in Number
        BY FS_Subset
      <3> HIDE DEF e
      <3>2. QED
        BY <3>1, FoldAny
    <2> HIDE DEF e, r
    <2>4. T = {} => base \preceq Folded(base, w, T)
      BY <2>1, Ordered
    <2>5. ASSUME T # {} PROVE base \preceq w[e] ++ r
      <3>1. base \preceq r
        BY <2>2, <2>5 DEF r
      <3>2. r \in Number /\ w[e] \in Number /\ Zero \in Number /\ w[e] ++ r \in Number /\ Zero \preceq w[e]
        BY <2>2, <2>3, <2>5, SumCommutes, ZeroIs
      <3>3. Zero ++ r \preceq w[e] ++ r
        BY <3>2, SumOrder
      <3>4. Zero ++ r = r
        BY <3>2, NothingAdded
      <3>5. QED
        BY <3>1, <3>2, <3>3, <3>4, Ordered
    <2>6. QED
      BY <2>1, <2>4, <2>5
  <1>2. S \in G
    <2> HIDE DEF G
    <2>1. QED
      BY <1>1, StrongSetInduction
  <1>3. QED
    BY <1>2
=============================================================================
