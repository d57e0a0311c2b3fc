---------------------------- MODULE SumTheorems ----------------------------
(***************************************************************************)
(* Sums over finite sets.  The sums of the models are folds, defined by a  *)
(* recursive function that takes the elements of the set away one by one,  *)
(* in an order CHOOSE settles.  That such a function exists, and that the  *)
(* order does not matter, is what has to be shown: a table of a function f *)
(* over S is a function on the subsets of S that obeys the recursion in    *)
(* every order; there is one, by taking a smallest subset that has none,   *)
(* and the recursive function can be no other, by taking a smallest subset *)
(* where it differs.                                                       *)
(***************************************************************************)
EXTENDS Integers, FiniteSets, FiniteSetsExt, FiniteSetTheorems, WellFoundedInduction, TLAPS

\* The sum of the values of f over S.
SumFun(f, S) == MapThenSumSet(LAMBDA x : f[x], S)

IsTable(t, f, S) ==
    /\ t \in [SUBSET S -> Int]
    /\ t[{}] = 0
    /\ \A s \in SUBSET S : \A x \in s : t[s] = f[x] + t[s \ {x}]

-----------------------------------------------------------------------------
\* Among finite sets there is a smallest.
LEMMA SmallestSet ==
    ASSUME NEW B, B # {}, \A s \in B : IsFiniteSet(s)
    PROVE  \E s \in B : \A t \in B : Cardinality(s) <= Cardinality(t)
<1> DEFINE less == {ss \in Nat \X Nat : ss[1] < ss[2]}
           sizes == {Cardinality(s) : s \in B}
<1>1. IsWellFoundedOn(less, Nat)
  BY NatLessThanWellFounded DEF OpToRel
<1>2. sizes \subseteq Nat /\ sizes # {}
  BY FS_CardinalityType
<1> HIDE DEF less, sizes
<1>3. PICK n \in sizes : \A m \in sizes : ~ (<<m, n>> \in less)
  BY <1>1, <1>2, WFMin
<1>4. \A m \in sizes : n <= m
  <2> TAKE m \in sizes
  <2>1. n \in Nat /\ m \in Nat
    BY <1>2
  <2>2. ~ (m < n)
    BY <1>3, <2>1 DEF less
  <2> QED BY <2>1, <2>2
<1> QED BY <1>3, <1>4 DEF sizes

\* A table grows by one element.
LEMMA TableGrows ==
    ASSUME NEW S, NEW e \in S, NEW f, \A x \in S : f[x] \in Int,
           NEW t, IsTable(t, f, S \ {e})
    PROVE  \E u : IsTable(u, f, S)
<1> DEFINE u == [s \in SUBSET S |-> IF e \in s THEN f[e] + t[s \ {e}] ELSE t[s]]
<1>1. \A s \in SUBSET S : s \ {e} \in SUBSET (S \ {e}) /\ (e \notin s => s \in SUBSET (S \ {e}))
  OBVIOUS
<1>2. u \in [SUBSET S -> Int]
  BY <1>1 DEF IsTable
<1>3. u[{}] = 0
  BY DEF IsTable
<1>4. ASSUME NEW s \in SUBSET S, NEW x \in s PROVE u[s] = f[x] + u[s \ {x}]
  <2>1. CASE x = e
    <3>1. s \ {x} \in SUBSET S /\ e \notin s \ {x}
      BY <2>1
    <3> QED BY <2>1, <3>1
  <2>2. CASE x # e /\ e \in s
    <3>1. /\ s \ {x} \in SUBSET S /\ e \in s \ {x}
          /\ (s \ {x}) \ {e} = (s \ {e}) \ {x} /\ x \in s \ {e}
      BY <2>2
    <3>2. t[s \ {e}] = f[x] + t[(s \ {e}) \ {x}]
      BY <1>1, <3>1 DEF IsTable
    <3>3. u[s] = f[e] + (f[x] + t[(s \ {e}) \ {x}])
      BY <2>2, <3>2
    <3>4. u[s \ {x}] = f[e] + t[(s \ {e}) \ {x}]
      BY <3>1
    <3>5. f[e] \in Int /\ f[x] \in Int /\ t[(s \ {e}) \ {x}] \in Int
      BY <3>1 DEF IsTable
    <3> QED BY <3>3, <3>4, <3>5
  <2>3. CASE e \notin s
    <3>1. /\ s \ {x} \in SUBSET S /\ e \notin s \ {x} /\ s \in SUBSET (S \ {e})
      BY <2>3
    <3> QED BY <2>3, <3>1 DEF IsTable
  <2> QED BY <2>1, <2>2, <2>3
<1> HIDE DEF u
<1> QED BY <1>2, <1>3, <1>4 DEF IsTable

\* Every function with whole values has a table over a finite set.
LEMMA TableExists ==
    ASSUME NEW S, IsFiniteSet(S), NEW f, \A x \in S : f[x] \in Int
    PROVE  \E t : IsTable(t, f, S)
<1> DEFINE B == {s \in SUBSET S : ~ \E t : IsTable(t, f, s)}
<1>1. SUFFICES ASSUME B # {} PROVE FALSE
  OBVIOUS
<1>2. \A s \in B : IsFiniteSet(s)
  BY FS_Subset
<1>3. PICK s \in B : \A r \in B : Cardinality(s) <= Cardinality(r)
  <2> HIDE DEF B
  <2> QED BY <1>1, <1>2, SmallestSet
<1>4. s # {}
  <2>1. IsTable([r \in SUBSET {} |-> 0], f, {})
    BY DEF IsTable
  <2> QED BY <2>1
<1>5. PICK e \in s : TRUE
  BY <1>4
<1>6. \E t : IsTable(t, f, s \ {e})
  <2>1. Cardinality(s \ {e}) = Cardinality(s) - 1 /\ Cardinality(s) \in Nat
    BY <1>2, FS_RemoveElement, FS_CardinalityType
  <2>2. s \ {e} \notin B
    BY <1>3, <2>1
  <2> QED BY <2>2
<1> QED BY <1>6, TableGrows

\* The sum is what the table says.
LEMMA SumIsTable ==
    ASSUME NEW S, IsFiniteSet(S), NEW f, NEW t, IsTable(t, f, S)
    PROVE  SumFun(f, S) = t[S]
<1> DEFINE c(s) == CHOOSE x \in s : TRUE
           Step(it) == [s \in SUBSET S |-> IF s = {} THEN 0 ELSE f[c(s)] + it[s \ {c(s)}]]
           iter == CHOOSE it : it = Step(it)
<1>1. SumFun(f, S) = iter[S]
  BY DEF SumFun, MapThenSumSet, MapThenFoldSet
<1>2. \A s \in SUBSET S : s # {} => c(s) \in s
  OBVIOUS
<1> HIDE DEF c
<1>3. t = Step(t)
  BY <1>2 DEF IsTable
<1>4. iter = Step(iter)
  <2>1. \E it : it = Step(it)
    BY <1>3
  <2> QED BY <2>1
<1> HIDE DEF iter
<1>5. \A s \in SUBSET S : iter[s] = IF s = {} THEN 0 ELSE f[c(s)] + iter[s \ {c(s)}]
  BY <1>4
<1>6. \A s \in SUBSET S : t[s] = IF s = {} THEN 0 ELSE f[c(s)] + t[s \ {c(s)}]
  BY <1>3
<1> HIDE DEF Step
<1> DEFINE B == {s \in SUBSET S : iter[s] # t[s]}
<1>7. SUFFICES ASSUME B # {} PROVE FALSE
  BY <1>1
<1>8. \A s \in B : IsFiniteSet(s)
  BY FS_Subset
<1>9. PICK s \in B : \A r \in B : Cardinality(s) <= Cardinality(r)
  <2> HIDE DEF B
  <2> QED BY <1>7, <1>8, SmallestSet
<1>10. s # {}
  BY <1>5, <1>6
<1>11. s \ {c(s)} \notin B
  <2>1. Cardinality(s \ {c(s)}) = Cardinality(s) - 1 /\ Cardinality(s) \in Nat
    BY <1>2, <1>8, <1>10, FS_RemoveElement, FS_CardinalityType
  <2> QED BY <1>9, <2>1
<1>12. iter[s \ {c(s)}] = t[s \ {c(s)}]
  BY <1>11
<1> QED BY <1>5, <1>6, <1>10, <1>12

-----------------------------------------------------------------------------
\* Nothing to add up.
LEMMA SumEmpty == ASSUME NEW f PROVE SumFun(f, {}) = 0
<1>1. IsTable([s \in SUBSET {} |-> 0], f, {})
  BY DEF IsTable
<1> QED BY <1>1, SumIsTable, FS_EmptySet

\* A sum of whole numbers is one.
LEMMA SumInt ==
    ASSUME NEW S, IsFiniteSet(S), NEW f, \A x \in S : f[x] \in Int
    PROVE  SumFun(f, S) \in Int
<1>1. PICK t : IsTable(t, f, S)
  BY TableExists
<1>2. t[S] \in Int
  BY <1>1 DEF IsTable
<1> QED BY <1>1, <1>2, SumIsTable

\* One element more adds its value, whichever it is.
LEMMA SumAdd ==
    ASSUME NEW S, IsFiniteSet(S), NEW e, e \notin S, NEW f, \A x \in S \cup {e} : f[x] \in Int
    PROVE  SumFun(f, S \cup {e}) = SumFun(f, S) + f[e]
<1>1. IsFiniteSet(S \cup {e})
  BY FS_AddElement
<1>2. PICK t : IsTable(t, f, S \cup {e})
  BY <1>1, TableExists
<1>3. IsTable([s \in SUBSET S |-> t[s]], f, S)
  <2>1. \A s \in SUBSET S : s \in SUBSET (S \cup {e})
    OBVIOUS
  <2> QED BY <1>2, <2>1 DEF IsTable
<1>4. SumFun(f, S) = t[S]
  BY <1>3, SumIsTable
<1>5. SumFun(f, S \cup {e}) = t[S \cup {e}]
  BY <1>1, <1>2, SumIsTable
<1>6. (S \cup {e}) \ {e} = S
  OBVIOUS
<1>7. t[S \cup {e}] = f[e] + t[S] /\ t[S] \in Int /\ f[e] \in Int
  BY <1>2, <1>6 DEF IsTable
<1> QED BY <1>4, <1>5, <1>7

\* Taking one out.
LEMMA SumRemove ==
    ASSUME NEW S, IsFiniteSet(S), NEW e \in S, NEW f, \A x \in S : f[x] \in Int
    PROVE  SumFun(f, S) = SumFun(f, S \ {e}) + f[e]
<1>1. IsFiniteSet(S \ {e}) /\ (S \ {e}) \cup {e} = S
  BY FS_RemoveElement
<1> DEFINE R == S \ {e}
<1>2. e \notin R /\ IsFiniteSet(R) /\ R \cup {e} = S
  BY <1>1
<1> HIDE DEF R
<1>3. SumFun(f, R \cup {e}) = SumFun(f, R) + f[e]
  BY <1>2, SumAdd
<1> QED BY <1>2, <1>3 DEF R

\* Only the values on the set matter.
LEMMA SumSame ==
    ASSUME NEW S, IsFiniteSet(S), NEW f, NEW g, \A x \in S : f[x] \in Int /\ g[x] = f[x]
    PROVE  SumFun(g, S) = SumFun(f, S)
<1>1. PICK t : IsTable(t, f, S)
  BY TableExists
<1>2. IsTable(t, g, S)
  BY <1>1 DEF IsTable
<1> QED BY <1>1, <1>2, SumIsTable

\* One value changes.
LEMMA SumChange ==
    ASSUME NEW S, IsFiniteSet(S), NEW e \in S, NEW f, NEW g,
           \A x \in S : f[x] \in Int /\ g[x] \in Int,
           \A x \in S \ {e} : g[x] = f[x]
    PROVE  SumFun(g, S) = SumFun(f, S) + g[e] - f[e]
<1>1. IsFiniteSet(S \ {e})
  BY FS_RemoveElement
<1>2. SumFun(g, S \ {e}) = SumFun(f, S \ {e})
  BY <1>1, SumSame
<1>3. /\ SumFun(f, S) = SumFun(f, S \ {e}) + f[e]
      /\ SumFun(g, S) = SumFun(g, S \ {e}) + g[e]
  BY SumRemove
<1>4. SumFun(f, S \ {e}) \in Int
  BY <1>1, SumInt
<1> QED BY <1>2, <1>3, <1>4

\* A sum of which two values change.
LEMMA SumTwoChange ==
    ASSUME NEW S, IsFiniteSet(S), NEW a \in S, NEW b \in S, a # b, NEW f, NEW g,
           \A x \in S : f[x] \in Int /\ g[x] \in Int,
           \A x \in S \ {a, b} : g[x] = f[x]
    PROVE  SumFun(g, S) = SumFun(f, S) + g[a] - f[a] + g[b] - f[b]
<1> DEFINE h == [x \in S |-> IF x = a THEN g[a] ELSE f[x]]
<1>1. /\ \A x \in S : h[x] \in Int
      /\ h[a] = g[a] /\ h[b] = f[b]
      /\ \A x \in S \ {a} : h[x] = f[x]
      /\ \A x \in S \ {b} : g[x] = h[x]
  OBVIOUS
<1> HIDE DEF h
<1>2. SumFun(h, S) = SumFun(f, S) + h[a] - f[a]
  BY <1>1, SumChange
<1>3. SumFun(g, S) = SumFun(h, S) + g[b] - h[b]
  BY <1>1, SumChange
<1>4. SumFun(f, S) \in Int
  BY SumInt
<1> QED BY <1>1, <1>2, <1>3, <1>4

\* Terms that are not smaller make a sum that is not smaller.
LEMMA SumMonotonic ==
    ASSUME NEW S, IsFiniteSet(S), NEW f, NEW g,
           \A x \in S : f[x] \in Int /\ g[x] \in Int /\ f[x] <= g[x]
    PROVE  SumFun(f, S) <= SumFun(g, S)
<1> DEFINE B == {s \in SUBSET S : ~ (SumFun(f, s) <= SumFun(g, s))}
<1>1. SUFFICES ASSUME B # {} PROVE FALSE
  OBVIOUS
<1>2. \A s \in B : IsFiniteSet(s)
  BY FS_Subset
<1>3. PICK s \in B : \A r \in B : Cardinality(s) <= Cardinality(r)
  <2> HIDE DEF B
  <2> QED BY <1>1, <1>2, SmallestSet
<1>4. s # {}
  BY SumEmpty
<1>5. PICK e \in s : TRUE
  BY <1>4
<1>6. SumFun(f, s \ {e}) <= SumFun(g, s \ {e})
  <2>1. Cardinality(s \ {e}) = Cardinality(s) - 1 /\ Cardinality(s) \in Nat
    BY <1>2, FS_RemoveElement, FS_CardinalityType
  <2> QED BY <1>3, <2>1
<1>7. /\ SumFun(f, s) = SumFun(f, s \ {e}) + f[e]
      /\ SumFun(g, s) = SumFun(g, s \ {e}) + g[e]
  BY <1>2, SumRemove
<1>8. SumFun(f, s \ {e}) \in Int /\ SumFun(g, s \ {e}) \in Int
  BY <1>2, FS_RemoveElement, SumInt
<1> QED BY <1>6, <1>7, <1>8

\* Nothing adds up to nothing.
LEMMA SumZero ==
    ASSUME NEW S, IsFiniteSet(S), NEW f, \A x \in S : f[x] = 0
    PROVE  SumFun(f, S) = 0
<1>1. IsTable([s \in SUBSET S |-> 0], f, S)
  BY DEF IsTable
<1> QED BY <1>1, SumIsTable

\* Two functions are added up together.
LEMMA SumPlus ==
    ASSUME NEW S, IsFiniteSet(S), NEW f, NEW g, NEW h,
           \A x \in S : f[x] \in Int /\ g[x] \in Int /\ h[x] = f[x] + g[x]
    PROVE  SumFun(h, S) = SumFun(f, S) + SumFun(g, S)
<1> DEFINE B == {s \in SUBSET S : SumFun(h, s) # SumFun(f, s) + SumFun(g, s)}
<1>1. SUFFICES ASSUME B # {} PROVE FALSE
  OBVIOUS
<1>2. \A s \in B : IsFiniteSet(s)
  BY FS_Subset
<1>3. PICK s \in B : \A r \in B : Cardinality(s) <= Cardinality(r)
  <2> HIDE DEF B
  <2> QED BY <1>1, <1>2, SmallestSet
<1>4. s # {}
  <2>1. SumFun(f, {}) = 0 /\ SumFun(g, {}) = 0 /\ SumFun(h, {}) = 0
    BY SumEmpty
  <2>2. SumFun(h, {}) = SumFun(f, {}) + SumFun(g, {})
    BY <2>1
  <2>3. {} \notin B
    BY <2>2
  <2> HIDE DEF B
  <2> QED BY <2>3
<1>5. PICK e \in s : TRUE
  BY <1>4
<1> DEFINE r == s \ {e}
<1>6. SumFun(h, r) = SumFun(f, r) + SumFun(g, r)
  <2>1. Cardinality(r) = Cardinality(s) - 1 /\ Cardinality(s) \in Nat
    BY <1>2, FS_RemoveElement, FS_CardinalityType
  <2> QED BY <1>3, <2>1
<1>7. \A x \in s : f[x] \in Int /\ g[x] \in Int /\ h[x] \in Int /\ h[x] = f[x] + g[x]
  OBVIOUS
<1>8. /\ SumFun(f, s) = SumFun(f, r) + f[e]
      /\ SumFun(g, s) = SumFun(g, r) + g[e]
      /\ SumFun(h, s) = SumFun(h, r) + h[e]
  BY <1>2, <1>7, SumRemove
<1>9. SumFun(f, r) \in Int /\ SumFun(g, r) \in Int
  BY <1>2, <1>7, FS_RemoveElement, SumInt
<1>10. SumFun(h, s) # SumFun(f, s) + SumFun(g, s)
  OBVIOUS
<1> HIDE DEF r
<1> QED BY <1>6, <1>7, <1>8, <1>9, <1>10

\* A sum of no negative terms is not negative.
LEMMA SumNonNegative ==
    ASSUME NEW S, IsFiniteSet(S), NEW f, \A x \in S : f[x] \in Nat
    PROVE  SumFun(f, S) \in Nat
<1> DEFINE z == [x \in S |-> 0]
<1>1. SumFun(z, S) = 0
  BY SumZero
<1>2. SumFun(z, S) <= SumFun(f, S)
  BY SumMonotonic
<1> QED BY <1>1, <1>2, SumInt

\* A sum over part of a set is one over the whole of it, the rest counting for nothing.
LEMMA SumWhere ==
    ASSUME NEW S, IsFiniteSet(S), NEW f, \A x \in S : f[x] \in Int, NEW Q
    PROVE  SumFun(f, S \cap Q) = SumFun([x \in S |-> IF x \in Q THEN f[x] ELSE 0], S)
<1> DEFINE g == [x \in S |-> IF x \in Q THEN f[x] ELSE 0]
           B == {s \in SUBSET S : SumFun(f, s \cap Q) # SumFun(g, s)}
<1>1. SUFFICES ASSUME B # {} PROVE FALSE
  OBVIOUS
<1>2. /\ \A x \in S : g[x] \in Int
      /\ \A x \in S : g[x] = IF x \in Q THEN f[x] ELSE 0
  OBVIOUS
<1> HIDE DEF g
<1>3. \A s \in B : IsFiniteSet(s)
  BY FS_Subset
<1>4. PICK s \in B : \A r \in B : Cardinality(s) <= Cardinality(r)
  <2> HIDE DEF B
  <2> QED BY <1>1, <1>3, SmallestSet
<1>5. s # {}
  <2>1. {} \cap Q = {}
    OBVIOUS
  <2>2. SumFun(f, {}) = 0 /\ SumFun(g, {}) = 0
    BY SumEmpty
  <2> QED BY <2>1, <2>2
<1>6. PICK e \in s : TRUE
  BY <1>5
<1> DEFINE r == s \ {e}
<1>7. IsFiniteSet(r) /\ IsFiniteSet(r \cap Q)
  BY <1>3, FS_RemoveElement, FS_Subset
<1>8. SumFun(f, r \cap Q) = SumFun(g, r)
  <2>1. Cardinality(r) = Cardinality(s) - 1 /\ Cardinality(s) \in Nat
    BY <1>3, FS_RemoveElement, FS_CardinalityType
  <2> QED BY <1>4, <2>1
<1>9. SumFun(g, s) = SumFun(g, r) + g[e]
  BY <1>2, <1>3, SumRemove
<1>10. SumFun(g, r) \in Int
  BY <1>2, <1>7, SumInt
<1>11. CASE e \in Q
  <2> DEFINE q == r \cap Q
  <2>1. q \cup {e} = s \cap Q /\ e \notin q /\ \A x \in q \cup {e} : f[x] \in Int
    BY <1>11
  <2>2. IsFiniteSet(q) /\ SumFun(f, q) = SumFun(g, r)
    BY <1>7, <1>8
  <2> HIDE DEF q
  <2>3. SumFun(f, q \cup {e}) = SumFun(f, q) + f[e]
    BY <2>1, <2>2, SumAdd
  <2>4. g[e] = f[e]
    BY <1>2, <1>11
  <2>5. SumFun(f, s \cap Q) = SumFun(f, q) + f[e]
    BY <2>1, <2>3
  <2> QED BY <1>9, <2>2, <2>4, <2>5
<1>12. CASE e \notin Q
  <2>1. s \cap Q = r \cap Q
    BY <1>12
  <2>2. g[e] = 0
    BY <1>2, <1>12
  <2>3. SumFun(g, s) = SumFun(g, r)
    BY <1>9, <1>10, <2>2
  <2>4. SumFun(f, s \cap Q) = SumFun(g, s)
    BY <1>8, <2>1, <2>3
  <2> QED BY <2>4
<1> QED BY <1>11, <1>12

\* A sum over a part is the sum over all, with 0 for the others.
LEMMA SumPart ==
    ASSUME NEW S, IsFiniteSet(S), NEW T, T \subseteq S, NEW f, NEW g,
           \A x \in T : f[x] \in Int /\ g[x] = f[x],
           \A x \in S : x \notin T => g[x] = 0
    PROVE  SumFun(f, T) = SumFun(g, S)
<1> DEFINE e == [x \in S |-> IF x \in T THEN f[x] ELSE 0]
           some == [x \in S |-> IF x \in T THEN e[x] ELSE 0]
<1>1. \A x \in S : e[x] \in Int /\ g[x] = e[x] /\ some[x] = e[x]
  OBVIOUS
<1>2. \A x \in T : e[x] \in Int /\ f[x] = e[x]
  OBVIOUS
<1>3. IsFiniteSet(T) /\ S \cap T = T
  BY FS_Subset
<1> HIDE DEF e
<1>4. SumFun(e, S \cap T) = SumFun([x \in S |-> IF x \in T THEN e[x] ELSE 0], S)
  <2>1. \A x \in S : e[x] \in Int
    BY <1>1
  <2> QED BY <2>1, SumWhere
<1>5. SumFun(e, T) = SumFun(some, S)
  BY <1>3, <1>4
<1> HIDE DEF some
<1>6. SumFun(f, T) = SumFun(e, T)
  BY <1>2, <1>3, SumSame
<1>7. SumFun(some, S) = SumFun(e, S)
  BY <1>1, SumSame
<1>8. SumFun(g, S) = SumFun(e, S)
  BY <1>1, SumSame
<1> QED BY <1>5, <1>6, <1>7, <1>8

\* A sum can be taken over other names of the same terms.
LEMMA SumRenamed ==
    ASSUME NEW S, IsFiniteSet(S), NEW h, \A x, y \in S : h[x] = h[y] => x = y,
           NEW f, NEW g, \A x \in S : f[x] \in Int /\ g[h[x]] = f[x]
    PROVE  SumFun(g, {h[x] : x \in S}) = SumFun(f, S)
<1> DEFINE im(s) == {h[x] : x \in s}
           B == {s \in SUBSET S : ~ (IsFiniteSet(im(s)) /\ SumFun(g, im(s)) = SumFun(f, s))}
<1>1. SUFFICES ASSUME B # {} PROVE FALSE
  <2>1. S \notin B => SumFun(g, im(S)) = SumFun(f, S)
    OBVIOUS
  <2> HIDE DEF B
  <2> QED BY <2>1
<1>2. \A s \in B : IsFiniteSet(s)
  BY FS_Subset
<1>3. PICK s \in B : \A r \in B : Cardinality(s) <= Cardinality(r)
  <2> HIDE DEF B
  <2> QED BY <1>1, <1>2, SmallestSet
<1>4. s # {}
  <2>1. im({}) = {} /\ SumFun(f, {}) = 0 /\ SumFun(g, {}) = 0
    BY SumEmpty
  <2>2. IsFiniteSet(im({})) /\ SumFun(g, im({})) = SumFun(f, {})
    BY <2>1, FS_EmptySet
  <2>3. ~ (IsFiniteSet(im(s)) /\ SumFun(g, im(s)) = SumFun(f, s))
    OBVIOUS
  <2> HIDE DEF im
  <2> QED BY <2>2, <2>3
<1>5. PICK e \in s : TRUE
  BY <1>4
<1> DEFINE r == s \ {e}
<1>6. IsFiniteSet(im(r)) /\ SumFun(g, im(r)) = SumFun(f, r)
  <2>1. Cardinality(r) = Cardinality(s) - 1 /\ Cardinality(s) \in Nat
    BY <1>2, FS_RemoveElement, FS_CardinalityType
  <2> QED BY <1>3, <2>1
<1>7. SumFun(f, s) = SumFun(f, r) + f[e]
  BY <1>2, SumRemove
<1>8. SumFun(g, im(r) \cup {h[e]}) = SumFun(g, im(r)) + g[h[e]]
  <2> DEFINE R == im(r)
             x == h[e]
  <2>1. x \notin R
    OBVIOUS
  <2>2. \A y \in R \cup {x} : g[y] \in Int
    OBVIOUS
  <2>3. IsFiniteSet(R)
    BY <1>6
  <2> HIDE DEF R, x
  <2>4. SumFun(g, R \cup {x}) = SumFun(g, R) + g[x]
    BY <2>1, <2>2, <2>3, SumAdd
  <2> QED BY <2>4 DEF R, x
<1>9. IsFiniteSet(im(r) \cup {h[e]})
  <2> HIDE DEF im
  <2> QED BY <1>6, FS_AddElement
<1>10. im(r) \cup {h[e]} = im(s)
  OBVIOUS
<1>11. g[h[e]] = f[e] /\ ~ (IsFiniteSet(im(s)) /\ SumFun(g, im(s)) = SumFun(f, s))
  OBVIOUS
<1> HIDE DEF im, r
<1> QED BY <1>6, <1>7, <1>8, <1>9, <1>10, <1>11
=============================================================================
