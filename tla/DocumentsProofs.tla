-------------------------- MODULE DocumentsProofs --------------------------
(***************************************************************************)
(* Documents, for every set of documents and lines, every order of the     *)
(* rows, every opening stock and every number of workers.                  *)
(*                                                                         *)
(* Lock order: transactions that have moved nothing yet never wait for     *)
(* each other in a circle.  The argument gives each lock a level, shows    *)
(* that such a transaction asks for levels above all it holds, and takes   *)
(* the transaction of a circle that waits at the highest level.            *)
(*                                                                         *)
(* Stock: no balance goes below nothing, since a transaction changes only  *)
(* rows it has locked.                                                     *)
(*                                                                         *)
(* The books: a document that no stale save overtook has its lines in the  *)
(* ledger exactly when its status says so, and a void leaves the balances  *)
(* as they were.  The argument follows what a transaction has made and     *)
(* still has to make against the ledger it will be committed to.           *)
(*                                                                         *)
(* Numbers: for every number of workers and every width of the column, no  *)
(* two documents bear one number and none is lost.                         *)
(***************************************************************************)
EXTENDS Documents, Numbering, SumTheorems, SequenceTheorems, FiniteSetTheorems,
        WellFoundedInduction, TLAPS

Locks == Rows \cup AllSeries

\* The series of a number is locked before any row.
Level(l) == IF l \in Rows THEN Rank(l) ELSE 0

HeldBy(p) == {l \in DOMAIN held : held[l] = p}

\* A movement between rows that exist; what it may be reversed to exists as well.
Moved ==
    {m \in [line : Nat, from : Rows, to : Rows, qty : Int, reverses : Nat] :
        m.reverses = 0 => <<m.from[1], m.to[2]>> \in Rows}

Fields == {"doc", "op", "status", "asked", "begun", "version", "todo", "moving", "need",
           "delta", "made"}

TxnTyped(t) ==
    /\ Fields \subseteq DOMAIN t
    /\ t.doc \in Docs
    /\ t.todo \in Seq(Nat)
    /\ \A i \in 1 .. Len(t.todo) : /\ t.version \in DOMAIN Sheet[t.doc].versions
                                   /\ t.todo[i] \in DOMAIN Sheet[t.doc].versions[t.version]
    /\ t.moving \in Seq(Moved) /\ t.made \in Seq(Moved)
    /\ t.need \in Seq(Locks)
    /\ t.delta \in [Rows -> Int]

\* The first movement of a transaction that holds H asks for its locks upwards.
Rising(t, H) ==
    /\ \A i, j \in 1 .. Len(t.need) : i < j => Level(t.need[i]) < Level(t.need[j])
    /\ \A l \in H, i \in 1 .. Len(t.need) : Level(l) < Level(t.need[i])
    /\ t.moving = << >> => /\ \A l \in H : Level(l) = 0
                          /\ \A i \in 1 .. Len(t.need) : Level(t.need[i]) = 0
Upwards(p) == Rising(txn[p], HeldBy(p))

ProcInv(p) ==
    /\ Busy(p) => TxnTyped(txn[p])
    /\ ~Posting(p) => HeldBy(p) = {}
    /\ Busy(p) /\ ~txn[p].begun => txn[p].todo = << >>
    /\ Posting(p) /\ txn[p].made = << >> => Upwards(p)

BooksTyped ==
    /\ DOMAIN version = Docs
    /\ \A d \in Docs : version[d] \in DOMAIN Sheet[d].versions
    /\ bal \in [Rows -> Int]
    /\ ledger \in [Docs -> Seq(Moved)]
    /\ DOMAIN held = Locks
    /\ DOMAIN txn = Procs

IInv == BooksTyped /\ \A p \in Procs : ProcInv(p)

-----------------------------------------------------------------------------
(* Sequences.                                                              *)

\* To take from the front of one sequence and add to another keeps them joined.
LEMMA TwoInTurn ==
  ASSUME NEW S, NEW s \in Seq(S), NEW t \in Seq(S), t # << >>
  PROVE  Append(s, Head(t)) \o Tail(t) = s \o t
<1>1. /\ Head(t) \in S /\ Tail(t) \in Seq(S) /\ Len(Tail(t)) = Len(t) - 1 /\ Len(s) \in Nat
      /\ Len(t) \in Nat \ {0}
      /\ Head(t) = t[1] /\ \A i \in 1 .. Len(t) - 1 : Tail(t)[i] = t[i + 1]
  BY HeadTailProperties, LenProperties, EmptySeq
<1> DEFINE u == Append(s, Head(t))
           x == u \o Tail(t)
           y == s \o t
<1>2. /\ u \in Seq(S) /\ Len(u) = Len(s) + 1 /\ u[Len(s) + 1] = t[1]
      /\ \A i \in 1 .. Len(s) : u[i] = s[i]
  BY <1>1, AppendProperties
<1> HIDE DEF u
<1>3. /\ x \in Seq(S) /\ Len(x) = Len(s) + Len(t)
      /\ \A i \in 1 .. Len(x) : x[i] = IF i <= Len(s) + 1 THEN u[i] ELSE Tail(t)[i - (Len(s) + 1)]
  <2>1. /\ x \in Seq(S) /\ Len(x) = Len(u) + Len(Tail(t))
        /\ \A i \in 1 .. Len(u) + Len(Tail(t)) :
               x[i] = IF i <= Len(u) THEN u[i] ELSE Tail(t)[i - Len(u)]
    BY <1>1, <1>2, ConcatProperties
  <2> HIDE DEF x
  <2>2. Len(x) = Len(s) + Len(t)
    BY <1>1, <1>2, <2>1
  <2> QED BY <1>2, <2>1, <2>2
<1>4. /\ y \in Seq(S) /\ Len(y) = Len(s) + Len(t)
      /\ \A i \in 1 .. Len(y) : y[i] = IF i <= Len(s) THEN s[i] ELSE t[i - Len(s)]
  BY <1>1, ConcatProperties
<1> HIDE DEF x, y
<1>5. ASSUME NEW i \in 1 .. Len(x) PROVE x[i] = y[i]
  <2>1. i \in Int /\ 1 <= i /\ i <= Len(s) + Len(t)
    BY <1>1, <1>3
  <2>2. CASE i <= Len(s)
    BY <1>1, <1>2, <1>3, <1>4, <2>1, <2>2
  <2>3. CASE i = Len(s) + 1
    BY <1>1, <1>2, <1>3, <1>4, <2>1, <2>3
  <2>4. CASE i > Len(s) + 1
    <3>1. i - (Len(s) + 1) \in 1 .. Len(t) - 1 /\ i - (Len(s) + 1) + 1 = i - Len(s)
      BY <1>1, <2>1, <2>4
    <3>2. Tail(t)[i - (Len(s) + 1)] = t[i - Len(s)]
      BY <1>1, <3>1
    <3>3. x[i] = Tail(t)[i - (Len(s) + 1)] /\ y[i] = t[i - Len(s)]
      BY <1>1, <1>3, <1>4, <2>1, <2>4
    <3> QED BY <3>2, <3>3
  <2> QED BY <1>1, <2>1, <2>2, <2>3, <2>4
<1> QED BY <1>3, <1>4, <1>5, SeqEqual DEF x, y, u

\* Two sequences of one.
LEMMA PairsJoin ==
  ASSUME NEW a, NEW b
  PROVE  <<a>> \o <<b>> = <<a, b>>
<1> DEFINE S == {a, b}
           x == <<a>> \o <<b>>
           y == <<a, b>>
<1>1. <<a>> \in Seq(S) /\ <<b>> \in Seq(S) /\ y \in Seq(S)
  OBVIOUS
<1>2. Len(<<a>>) = 1 /\ Len(<<b>>) = 1 /\ Len(y) = 2 /\ y[1] = a /\ y[2] = b
  OBVIOUS
<1>3. x \in Seq(S) /\ Len(x) = 2 /\ x[1] = a /\ x[2] = b
  BY <1>1, <1>2, ConcatProperties
<1> HIDE DEF x, y, S
<1>4. \A i \in 1 .. Len(x) : x[i] = y[i]
  BY <1>2, <1>3
<1> QED BY <1>1, <1>2, <1>3, <1>4, SeqEqual DEF x, y

\* A pair is added one by one.
LEMMA PairAdded ==
  ASSUME NEW S, NEW s \in Seq(S), NEW a \in S, NEW b \in S
  PROVE  s \o <<a, b>> = Append(Append(s, a), b)
<1>1. <<a, b>> \in Seq(S) /\ Head(<<a, b>>) = a /\ Tail(<<a, b>>) = <<b>> /\ <<a, b>> # << >>
  OBVIOUS
<1>2. Append(s, a) \o <<b>> = s \o <<a, b>>
  BY <1>1, TwoInTurn
<1>3. Append(s, a) \in Seq(S)
  BY AppendProperties
<1>4. \A u \in Seq(S) : u \o <<b>> = Append(u, b)
  OBVIOUS
<1> QED BY <1>2, <1>3, <1>4

\* Both members of a pair.
LEMMA BothOfPair ==
  ASSUME NEW S, NEW a, NEW b, <<a, b>> \in Seq(S)
  PROVE  a \in S /\ b \in S
<1>1. <<a, b>>[1] \in S /\ <<a, b>>[2] \in S
  <2>1. Len(<<a, b>>) = 2
    OBVIOUS
  <2>2. 1 \in 1 .. 2 /\ 2 \in 1 .. 2
    OBVIOUS
  <2> QED BY <2>1, <2>2, ElementOfSeq
<1> QED BY <1>1

-----------------------------------------------------------------------------
(* Ledgers of a document.                                                  *)

\* What stands in a ledger, and what stands there for a line.
StandingIn(L) ==
    {k \in DOMAIN L : L[k].reverses = 0 /\ \A m \in DOMAIN L : L[m].reverses # k}
LineSum(L, k) ==
    SumFun([m \in DOMAIN L |-> L[m].qty], {m \in StandingIn(L) : L[m].line = k})

\* What a document of that status, lines and ledger has to say.
Tells(d, st, v, L) ==
    IF st = Of(d).posted
    THEN \A k \in DOMAIN Sheet[d].versions[v] : LineSum(L, k) = Sheet[d].versions[v][k].qty
    ELSE StandingIn(L) = {}

\* m reverses a row of the ledger that is no reversal itself.
Back(L, k) ==
    [line |-> L[k].line, from |-> L[k].to, to |-> <<L[k].from[1], L[k].to[2]>>,
     qty |-> L[k].qty, reverses |-> k]
Undoes(m, L) ==
    m.reverses \in DOMAIN L /\ L[m.reverses].reverses = 0 /\ m = Back(L, m.reverses)

\* No row is reversed twice.
ReversedOnce(L) ==
    \A i, j \in DOMAIN L : L[i].reverses = L[j].reverses /\ L[i].reverses # 0 => i = j

DocSound(d, st, v, over, L) ==
    /\ \A k \in DOMAIN L : L[k].reverses # 0 => Undoes(L[k], L)
    /\ ~over => Tells(d, st, v, L) /\ ReversedOnce(L)

\* One ledger after the other.
LEMMA Joined ==
  ASSUME NEW L \in Seq(Moved), NEW s \in Seq(Moved)
  PROVE  /\ Len(L) \in Nat /\ Len(s) \in Nat
         /\ DOMAIN L = 1 .. Len(L) /\ DOMAIN s = 1 .. Len(s)
         /\ L \o s \in Seq(Moved) /\ DOMAIN (L \o s) = 1 .. Len(L) + Len(s)
         /\ \A k \in DOMAIN L : k \in DOMAIN (L \o s) /\ (L \o s)[k] = L[k]
         /\ \A i \in DOMAIN s : Len(L) + i \in DOMAIN (L \o s) /\ (L \o s)[Len(L) + i] = s[i]
         /\ \A k \in DOMAIN (L \o s) :
               k \in DOMAIN L \/ \E i \in DOMAIN s : k = Len(L) + i
<1> DEFINE J == L \o s
<1>1. /\ Len(L) \in Nat /\ Len(s) \in Nat
      /\ DOMAIN L = 1 .. Len(L) /\ DOMAIN s = 1 .. Len(s)
      /\ J \in Seq(Moved) /\ Len(J) = Len(L) + Len(s) /\ DOMAIN J = 1 .. Len(J)
      /\ \A i \in 1 .. Len(L) + Len(s) : J[i] = IF i <= Len(L) THEN L[i] ELSE s[i - Len(L)]
  BY ConcatProperties, LenProperties
<1> HIDE DEF J
<1>2. \A k \in 1 .. Len(L) : k \in 1 .. Len(J) /\ J[k] = L[k]
  BY <1>1
<1>3. ASSUME NEW i \in 1 .. Len(s) PROVE Len(L) + i \in 1 .. Len(J) /\ J[Len(L) + i] = s[i]
  <2>1. Len(L) + i \in 1 .. Len(L) + Len(s) /\ ~ (Len(L) + i <= Len(L)) /\ Len(L) + i - Len(L) = i
    BY <1>1
  <2> QED BY <1>1, <2>1
<1>4. ASSUME NEW k \in 1 .. Len(J), k \notin 1 .. Len(L)
      PROVE  \E i \in 1 .. Len(s) : k = Len(L) + i
  <2>1. k - Len(L) \in 1 .. Len(s) /\ k = Len(L) + (k - Len(L))
    BY <1>1, <1>4
  <2> QED BY <2>1
<1> QED BY <1>1, <1>2, <1>3, <1>4 DEF J

\* The positions of a ledger.
LEMMA Positions ==
  ASSUME NEW L \in Seq(Moved)
  PROVE  /\ IsFiniteSet(DOMAIN L) /\ DOMAIN L \subseteq Nat \ {0}
         /\ \A S \in SUBSET DOMAIN L : IsFiniteSet(S)
         /\ \A k \in DOMAIN L : L[k] \in Moved /\ L[k].qty \in Int /\ L[k].reverses \in Nat
<1>1. DOMAIN L = 1 .. Len(L) /\ Len(L) \in Nat
  BY LenProperties
<1>2. IsFiniteSet(1 .. Len(L))
  BY <1>1, FS_Interval
<1>3. \A k \in DOMAIN L : L[k] \in Moved
  BY <1>1, ElementOfSeq
<1>4. \A m \in Moved : m.qty \in Int /\ m.reverses \in Nat
  BY DEF Moved
<1> QED BY <1>1, <1>2, <1>3, <1>4, FS_Subset

\* A reversal stays one.
LEMMA UndoesStays ==
  ASSUME NEW L \in Seq(Moved), NEW s \in Seq(Moved), NEW m, Undoes(m, L)
  PROVE  Undoes(m, L \o s)
<1> DEFINE J == L \o s
<1>1. m.reverses \in DOMAIN J /\ J[m.reverses] = L[m.reverses]
  BY Joined DEF Undoes
<1> HIDE DEF J
<1>2. Back(J, m.reverses) = Back(L, m.reverses)
  BY <1>1 DEF Back
<1>3. Undoes(m, J)
  BY <1>1, <1>2 DEF Undoes
<1> QED BY <1>3 DEF J

\* What movements carry for a line.
Weight(s, k) == [i \in DOMAIN s |-> IF s[i].line = k THEN s[i].qty ELSE 0]
Carries(s, k) == SumFun(Weight(s, k), DOMAIN s)

\* Nothing carries nothing.
LEMMA CarriesNothing == \A k : Carries(<< >>, k) = 0
<1>1. DOMAIN << >> = {}
  OBVIOUS
<1> QED BY <1>1, SumEmpty DEF Carries

\* One movement more.
LEMMA CarriesMore ==
  ASSUME NEW s \in Seq(Moved), NEW m \in Moved, NEW k
  PROVE  /\ Carries(s, k) \in Int
         /\ Carries(Append(s, m), k) = Carries(s, k) + (IF m.line = k THEN m.qty ELSE 0)
<1> DEFINE t == Append(s, m)
           w == Weight(s, k)
           x == Weight(t, k)
           n == Len(s) + 1
<1>1. /\ n \in Nat /\ DOMAIN t = DOMAIN s \cup {n} /\ n \notin DOMAIN s /\ t \in Seq(Moved)
      /\ t[n] = m /\ \A i \in DOMAIN s : t[i] = s[i]
  OBVIOUS
<1>2. /\ \A i \in DOMAIN s : w[i] \in Int /\ x[i] = w[i]
      /\ x[n] = IF m.line = k THEN m.qty ELSE 0
      /\ x[n] \in Int
  <2> HIDE DEF t, n
  <2>1. \A i \in DOMAIN s : s[i].qty \in Int
    BY Positions
  <2>2. m.qty \in Int
    BY DEF Moved
  <2> QED BY <1>1, <2>1, <2>2 DEF Weight
<1>3. IsFiniteSet(DOMAIN s)
  BY Positions
<1> HIDE DEF t, w, x, n
<1>4. SumFun(x, DOMAIN s \cup {n}) = SumFun(x, DOMAIN s) + x[n]
  <2>1. \A i \in DOMAIN s \cup {n} : x[i] \in Int
    BY <1>2
  <2> QED BY <1>1, <1>3, <2>1, SumAdd
<1>5. SumFun(x, DOMAIN s) = SumFun(w, DOMAIN s)
  BY <1>2, <1>3, SumSame
<1>6. SumFun(w, DOMAIN s) \in Int
  BY <1>2, <1>3, SumInt
<1> QED BY <1>1, <1>2, <1>4, <1>5, <1>6 DEF Carries, t, w, x

\* A posting to a ledger where nothing stands: what it has made stands, and no more.
LEMMA PostedStands ==
  ASSUME NEW L \in Seq(Moved), StandingIn(L) = {},
         \A k \in DOMAIN L : L[k].reverses # 0 => Undoes(L[k], L),
         NEW s \in Seq(Moved), \A i \in DOMAIN s : s[i].reverses = 0
  PROVE  /\ StandingIn(L \o s) = {Len(L) + i : i \in DOMAIN s}
         /\ \A k : LineSum(L \o s, k) = Carries(s, k)
<1> DEFINE J == L \o s
           n == Len(L)
<1>1. /\ n \in Nat /\ DOMAIN s \subseteq Nat \ {0} /\ DOMAIN L = 1 .. n
      /\ \A k \in DOMAIN L : k \in DOMAIN J /\ J[k] = L[k]
      /\ \A i \in DOMAIN s : n + i \in DOMAIN J /\ J[n + i] = s[i]
      /\ \A k \in DOMAIN J : k \in DOMAIN L \/ \E i \in DOMAIN s : k = n + i
      /\ J \in Seq(Moved)
  BY Joined, Positions
<1> HIDE DEF J, n
<1>2. \A m \in DOMAIN J : J[m].reverses \in DOMAIN L \/ J[m].reverses = 0
  BY <1>1 DEF Undoes
<1>3. StandingIn(J) = {n + i : i \in DOMAIN s}
  <2>1. ASSUME NEW k \in StandingIn(J) PROVE k \in {n + i : i \in DOMAIN s}
    <3>1. k \in DOMAIN J /\ J[k].reverses = 0 /\ \A m \in DOMAIN J : J[m].reverses # k
      BY DEF StandingIn
    <3>2. CASE k \in DOMAIN L
      <4>1. L[k].reverses = 0 /\ \A m \in DOMAIN L : L[m].reverses # k
        BY <1>1, <3>1, <3>2
      <4> QED BY <3>2, <4>1 DEF StandingIn
    <3> QED BY <1>1, <3>1, <3>2
  <2>2. ASSUME NEW i \in DOMAIN s PROVE n + i \in StandingIn(J)
    <3>1. n + i \in DOMAIN J /\ J[n + i].reverses = 0
      BY <1>1
    <3>2. n + i \notin DOMAIN L /\ n + i # 0
      BY <1>1
    <3> QED BY <1>2, <3>1, <3>2 DEF StandingIn
  <2> QED BY <2>1, <2>2
<1>4. ASSUME NEW k PROVE LineSum(J, k) = Carries(s, k)
  <2> DEFINE Q == {i \in DOMAIN s : s[i].line = k}
             f == [i \in DOMAIN s |-> s[i].qty]
             g == [m \in DOMAIN J |-> J[m].qty]
             h == [i \in DOMAIN s |-> n + i]
  <2>1. {m \in StandingIn(J) : J[m].line = k} = {h[i] : i \in Q}
    BY <1>1, <1>3
  <2>2. /\ \A i \in DOMAIN s : f[i] \in Int
        /\ \A i \in Q : i \in DOMAIN s /\ g[h[i]] = f[i]
        /\ \A i, j \in Q : h[i] = h[j] => i = j
    <3>1. \A i \in DOMAIN s : s[i].qty \in Int
      BY Positions
    <3> QED BY <1>1, <3>1
  <2>3. IsFiniteSet(DOMAIN s) /\ IsFiniteSet(Q) /\ DOMAIN s \cap Q = Q
    BY Positions
  <2>4. \A i \in DOMAIN s : Weight(s, k)[i] = IF i \in Q THEN f[i] ELSE 0
    BY DEF Weight
  <2>5. LineSum(J, k) = SumFun(g, {m \in StandingIn(J) : J[m].line = k})
    BY DEF LineSum
  <2> HIDE DEF Q, f, g, h
  <2>6. SumFun(g, {h[i] : i \in Q}) = SumFun(f, Q)
    <3>1. \A i \in Q : f[i] \in Int /\ g[h[i]] = f[i]
      BY <2>2
    <3>2. IsFiniteSet(Q) /\ \A i, j \in Q : h[i] = h[j] => i = j
      BY <2>2, <2>3
    <3> QED BY <3>1, <3>2, SumRenamed
  <2>7. SumFun(f, Q) = SumFun(Weight(s, k), DOMAIN s)
    <3> DEFINE D == DOMAIN s
               w == Weight(s, k)
    <3>1. /\ IsFiniteSet(D) /\ Q \subseteq D
          /\ \A i \in Q : f[i] \in Int /\ w[i] = f[i]
          /\ \A i \in D : i \notin Q => w[i] = 0
      BY <2>2, <2>3, <2>4
    <3> HIDE DEF D, w
    <3>2. SumFun(f, Q) = SumFun(w, D)
      BY <3>1, SumPart
    <3> QED BY <3>2 DEF D, w
  <2> QED BY <2>1, <2>3, <2>4, <2>5, <2>6, <2>7 DEF Carries
<1> QED BY <1>3, <1>4 DEF J, n

\* A void of all that stands.
LEMMA VoidedStands ==
  ASSUME NEW L \in Seq(Moved),
         NEW s \in Seq(Moved), \A i \in DOMAIN s : Undoes(s[i], L),
         StandingIn(L) = {s[i].reverses : i \in DOMAIN s}
  PROVE  StandingIn(L \o s) = {}
<1> DEFINE J == L \o s
           n == Len(L)
<1>1. /\ DOMAIN L \subseteq Nat \ {0}
      /\ \A k \in DOMAIN L : k \in DOMAIN J /\ J[k] = L[k]
      /\ \A i \in DOMAIN s : n + i \in DOMAIN J /\ J[n + i] = s[i]
      /\ \A k \in DOMAIN J : k \in DOMAIN L \/ \E i \in DOMAIN s : k = n + i
  BY Joined, Positions
<1> HIDE DEF J, n
<1>2. SUFFICES ASSUME NEW k \in StandingIn(J) PROVE FALSE
  BY DEF J
<1>3. k \in DOMAIN J /\ J[k].reverses = 0 /\ \A m \in DOMAIN J : J[m].reverses # k
  BY DEF StandingIn
<1>4. k \in DOMAIN L
  <2>1. \A i \in DOMAIN s : s[i].reverses # 0
    BY <1>1 DEF Undoes
  <2> QED BY <1>1, <1>3, <2>1
<1>5. k \in StandingIn(L)
  BY <1>1, <1>3, <1>4 DEF StandingIn
<1>6. PICK i \in DOMAIN s : k = s[i].reverses
  BY <1>5
<1> QED BY <1>1, <1>3, <1>6

\* Reversals of the rows that stand reverse no row a second time.
LEMMA JoinedOnce ==
  ASSUME NEW L \in Seq(Moved), ReversedOnce(L), NEW s \in Seq(Moved),
         \A i \in DOMAIN s : s[i].reverses # 0 => s[i].reverses \in StandingIn(L),
         \A i, j \in DOMAIN s : s[i].reverses = s[j].reverses /\ s[i].reverses # 0 => i = j
  PROVE  ReversedOnce(L \o s)
<1> DEFINE J == L \o s
           n == Len(L)
<1>1. /\ \A k \in DOMAIN L : k \in DOMAIN J /\ J[k] = L[k]
      /\ \A i \in DOMAIN s : n + i \in DOMAIN J /\ J[n + i] = s[i]
      /\ \A k \in DOMAIN J : k \in DOMAIN L \/ \E i \in DOMAIN s : k = n + i
  BY Joined
<1> HIDE DEF J, n
<1>2. SUFFICES ASSUME NEW a \in DOMAIN J, NEW b \in DOMAIN J,
                      J[a].reverses = J[b].reverses, J[a].reverses # 0
               PROVE  a = b
  BY DEF ReversedOnce, J
<1>3. ASSUME NEW k \in DOMAIN L, NEW i \in DOMAIN s, L[k].reverses = s[i].reverses, s[i].reverses # 0
      PROVE  FALSE
  BY <1>3 DEF StandingIn
<1>4. CASE a \in DOMAIN L /\ b \in DOMAIN L
  BY <1>1, <1>2, <1>4 DEF ReversedOnce
<1>5. CASE a \in DOMAIN L /\ b \notin DOMAIN L
  BY <1>1, <1>2, <1>3, <1>5
<1>6. CASE a \notin DOMAIN L /\ b \in DOMAIN L
  BY <1>1, <1>2, <1>3, <1>6
<1>7. CASE a \notin DOMAIN L /\ b \notin DOMAIN L
  BY <1>1, <1>2, <1>7
<1> QED BY <1>4, <1>5, <1>6, <1>7

\* What a movement does to a row.
Change(m, r) == (IF m.to = r THEN m.qty ELSE 0) - (IF m.from = r THEN m.qty ELSE 0)

\* A reversal undoes a movement between rows of one condition.
LEMMA BackChanges ==
  ASSUME NEW L \in Seq(Moved), NEW m \in Moved, Undoes(m, L), NEW r \in Rows,
         L[m.reverses].from[2] = L[m.reverses].to[2]
  PROVE  Change(m, r) = 0 - Change(L[m.reverses], r)
<1> DEFINE a == L[m.reverses]
<1>1. m = Back(L, m.reverses) /\ m.reverses \in DOMAIN L
  BY DEF Undoes
<1>2. m.from = a.to /\ m.to = <<a.from[1], a.from[2]>> /\ m.qty = a.qty
  BY <1>1 DEF Back
<1>3. a \in Moved
  BY <1>1, Positions
<1>4. a.from \in Rows /\ a.qty \in Int
  BY <1>3 DEF Moved
<1>5. \A b \in Rows : b = <<b[1], b[2]>>
  BY RowAssumption
<1> HIDE DEF a
<1>6. m.to = a.from
  BY <1>2, <1>4, <1>5
<1>7. Change(m, r) = 0 - Change(a, r)
  <2>1. Change(m, r) = (IF a.from = r THEN a.qty ELSE 0) - (IF a.to = r THEN a.qty ELSE 0)
    BY <1>2, <1>6, Zenon DEF Change
  <2>2. Change(a, r) = (IF a.to = r THEN a.qty ELSE 0) - (IF a.from = r THEN a.qty ELSE 0)
    BY Zenon DEF Change
  <2> HIDE DEF a
  <2> QED BY <1>4, <2>1, <2>2
<1> QED BY <1>7 DEF a

\* Where nothing stands and no row is reversed twice, the rows undo each other one for one.
LEMMA NothingIsLeft ==
  ASSUME NEW L \in Seq(Moved), StandingIn(L) = {}, ReversedOnce(L),
         \A k \in DOMAIN L : L[k].reverses # 0 => Undoes(L[k], L),
         \A k \in DOMAIN L : L[k].from[2] = L[k].to[2],
         NEW r \in Rows
  PROVE  SumFun([k \in DOMAIN L |-> Change(L[k], r)], DOMAIN L) = 0
<1> DEFINE D == DOMAIN L
           f == [k \in D |-> Change(L[k], r)]
           back == {k \in D : L[k].reverses # 0}
           first == {k \in D : L[k].reverses = 0}
           h == [k \in D |-> L[k].reverses]
           minus == [k \in D |-> 0 - f[k]]
           inBack == [k \in D |-> IF k \in back THEN f[k] ELSE 0]
           inFirst == [k \in D |-> IF k \in first THEN f[k] ELSE 0]
<1>1. /\ IsFiniteSet(D) /\ IsFiniteSet(back) /\ IsFiniteSet(first)
      /\ \A k \in D : k # 0 /\ L[k] \in Moved
  BY Positions
<1>2. ASSUME NEW k \in D PROVE f[k] \in Int
  <2>1. L[k].qty \in Int
    BY Positions
  <2>2. f[k] = Change(L[k], r)
    OBVIOUS
  <2> HIDE DEF f, D
  <2> QED BY <2>1, <2>2 DEF Change
<1>3. /\ \A k \in D : k \in back <=> k \notin first
      /\ back \subseteq D /\ first \subseteq D
  OBVIOUS
<1>4. \A k \in back : h[k] \in first /\ minus[h[k]] = f[k]
  <2> SUFFICES ASSUME NEW k \in back PROVE h[k] \in first /\ minus[h[k]] = f[k]
    OBVIOUS
  <2>1. Undoes(L[k], L) /\ L[k] \in Moved /\ h[k] = L[k].reverses
    BY <1>1
  <2>2. h[k] \in D /\ L[h[k]].reverses = 0
    BY <2>1 DEF Undoes
  <2>3. Change(L[k], r) = 0 - Change(L[h[k]], r)
    BY <2>1, <2>2, BackChanges
  <2> QED BY <2>2, <2>3
<1>5. first = {h[k] : k \in back}
  <2>1. ASSUME NEW k \in first PROVE \E m \in back : h[m] = k
    <3>1. k \notin StandingIn(L)
      OBVIOUS
    <3>2. PICK m \in D : L[m].reverses = k
      BY <3>1 DEF StandingIn
    <3> QED BY <1>1, <3>2
  <2> HIDE DEF h, first, back
  <2> QED BY <1>4, <2>1
<1>6. \A i, j \in back : h[i] = h[j] => i = j
  BY DEF ReversedOnce
<1>7. \A k \in D : minus[k] \in Int /\ minus[k] = 0 - f[k]
  <2> HIDE DEF f
  <2> QED BY <1>2
<1>8. \A k \in D : f[k] = inBack[k] + inFirst[k] /\ inBack[k] \in Int /\ inFirst[k] \in Int
  <2> SUFFICES ASSUME NEW k \in D
               PROVE  f[k] = inBack[k] + inFirst[k] /\ inBack[k] \in Int /\ inFirst[k] \in Int
    OBVIOUS
  <2>1. /\ inBack[k] = IF k \in back THEN f[k] ELSE 0
        /\ inFirst[k] = IF k \in first THEN f[k] ELSE 0
    BY Zenon
  <2> HIDE DEF f, D, back, first, inBack, inFirst
  <2> QED BY <1>2, <1>3, <2>1
<1>9. \A k \in D : inBack[k] = IF k \in back THEN f[k] ELSE 0
  BY Zenon
<1>10. \A k \in D : inFirst[k] = IF k \in first THEN f[k] ELSE 0
  BY Zenon
<1> HIDE DEF D, f, back, first, h, minus, inBack, inFirst
<1>11. SumFun(f, D) = SumFun(inBack, D) + SumFun(inFirst, D)
  BY <1>1, <1>8, SumPlus
<1>12. SumFun(f, back) = SumFun(inBack, D)
  BY <1>1, <1>2, <1>3, <1>9, SumPart
<1>13. SumFun(f, first) = SumFun(inFirst, D)
  BY <1>1, <1>2, <1>3, <1>10, SumPart
<1>14. SumFun(minus, first) = SumFun(f, back)
  <2>1. \A k \in back : f[k] \in Int /\ minus[h[k]] = f[k]
    BY <1>2, <1>3, <1>4
  <2>2. SumFun(minus, {h[k] : k \in back}) = SumFun(f, back)
    BY <1>1, <1>6, <2>1, SumRenamed
  <2> QED BY <1>5, <2>2
<1>15. SumFun(f, first) + SumFun(minus, first) = 0
  <2> DEFINE none == [k \in first |-> 0]
  <2>1. \A k \in first : f[k] \in Int /\ minus[k] \in Int /\ none[k] = f[k] + minus[k] /\ none[k] = 0
    BY <1>2, <1>3, <1>7
  <2> HIDE DEF none
  <2>2. SumFun(none, first) = SumFun(f, first) + SumFun(minus, first)
    BY <1>1, <2>1, SumPlus
  <2>3. SumFun(none, first) = 0
    BY <1>1, <2>1, SumZero
  <2> QED BY <2>2, <2>3
<1>16. SumFun(f, first) \in Int /\ SumFun(minus, first) \in Int
  BY <1>1, <1>2, <1>3, <1>7, SumInt
<1>17. SumFun(f, D) = 0
  BY <1>11, <1>12, <1>13, <1>14, <1>15, <1>16
<1> QED BY <1>17 DEF D, f

USE OrderAssumption, OpeningAssumption, ProcAssumption, SeriesAssumption

-----------------------------------------------------------------------------
(* Rows, and the order of a movement's locks.                              *)

\* A row has a place in the order.
LEMMA RankIsAPlace ==
  ASSUME NEW r \in Rows
  PROVE  Rank(r) \in 1 .. Len(Order) /\ Order[Rank(r)] = r
<1>1. \E k \in DOMAIN Order : Order[k] = r
  BY DEF Rows, ToSet
<1>2. Rank(r) \in DOMAIN Order /\ Order[Rank(r)] = r
  BY <1>1 DEF Rank
<1> QED BY <1>2, LenProperties

\* Rows are above the series of a number.
LEMMA LevelsOfLocks ==
  ASSUME NEW l \in Locks
  PROVE  /\ Level(l) \in 0 .. Len(Order)
         /\ l \in Rows => Level(l) > 0
         /\ l \in AllSeries => Level(l) = 0
<1>1. Len(Order) \in Nat
  BY LenProperties
<1> QED BY <1>1, RankIsAPlace DEF Level, Locks

\* _lock_balances asks for the two rows of a movement upwards.
LEMMA LocksInOrder ==
  ASSUME NEW m \in Moved
  PROVE  /\ LockOrder(m) \in Seq(Locks)
         /\ \A i \in 1 .. Len(LockOrder(m)) : LockOrder(m)[i] \in Rows
         /\ \A i, j \in 1 .. Len(LockOrder(m)) :
               i < j => Level(LockOrder(m)[i]) < Level(LockOrder(m)[j])
<1>1. m.from \in Rows /\ m.to \in Rows
  BY DEF Moved
<1>2. /\ Rank(m.from) \in Nat /\ Rank(m.to) \in Nat
      /\ Rank(m.from) = Rank(m.to) => m.from = m.to
  <2>1. Len(Order) \in Nat
    BY LenProperties
  <2>2. /\ Rank(m.from) \in 1 .. Len(Order) /\ Order[Rank(m.from)] = m.from
        /\ Rank(m.to) \in 1 .. Len(Order) /\ Order[Rank(m.to)] = m.to
    BY <1>1, RankIsAPlace
  <2> QED BY <2>1, <2>2
<1>3. CASE m.from = m.to
  BY <1>1, <1>3 DEF LockOrder, Locks
<1>4. CASE m.from # m.to /\ Rank(m.from) < Rank(m.to)
  BY <1>1, <1>2, <1>4 DEF LockOrder, Locks, Level
<1>5. CASE m.from # m.to /\ ~(Rank(m.from) < Rank(m.to))
  BY <1>1, <1>2, <1>5 DEF LockOrder, Locks, Level
<1> QED BY <1>3, <1>4, <1>5

\* What a transaction that holds nothing above level 0 wants for a sequence of movements.
LEMMA WantedIsUpwards ==
  ASSUME NEW ms \in Seq(Moved)
  PROVE  /\ Wanted(ms) \in Seq(Locks)
         /\ \A i \in 1 .. Len(Wanted(ms)) : Level(Wanted(ms)[i]) > 0
         /\ \A i, j \in 1 .. Len(Wanted(ms)) :
               i < j => Level(Wanted(ms)[i]) < Level(Wanted(ms)[j])
<1>1. CASE ms = << >>
  BY <1>1 DEF Wanted
<1>2. CASE ms # << >>
  <2>1. Head(ms) \in Moved
    BY <1>2, HeadTailProperties
  <2>2. Wanted(ms) = LockOrder(Head(ms))
    BY <1>2 DEF Wanted
  <2>3. \A i \in 1 .. Len(Wanted(ms)) : Wanted(ms)[i] \in Rows
    BY <2>1, <2>2, LocksInOrder
  <2> QED BY <2>1, <2>2, <2>3, LocksInOrder, LevelsOfLocks DEF Locks
<1> QED BY <1>1, <1>2

\* No document takes more than one number.
LEMMA OneSeries ==
  ASSUME NEW d \in Docs
  PROVE  /\ Of(d).series \in Seq(Locks) /\ Len(Of(d).series) <= 1
         /\ \A i \in 1 .. Len(Of(d).series) : Of(d).series[i] \in AllSeries
<1>1. \A k \in Kinds : Protocol[k].series = << >> \/ \E l : Protocol[k].series = <<l>>
  BY DEF Kinds, Protocol, GateIn, Closeout, Handover, Disposition, Disposal, Count, Transfer
<1>2. Sheet[d].kind \in Kinds /\ Of(d) = Protocol[Sheet[d].kind]
  BY SheetAssumption DEF Of
<1>3. CASE Of(d).series = << >>
  BY <1>3
<1>4. CASE \E l : Of(d).series = <<l>>
  <2>1. PICK l : Of(d).series = <<l>>
    BY <1>4
  <2>2. l \in ToSet(Protocol[Sheet[d].kind].series)
    BY <1>2, <2>1 DEF ToSet
  <2>3. l \in AllSeries
    BY <1>2, <2>2 DEF AllSeries
  <2>4. l \in Locks
    BY <2>3 DEF Locks
  <2> QED BY <2>1, <2>3, <2>4
<1> QED BY <1>1, <1>2, <1>3, <1>4

-----------------------------------------------------------------------------
(* The circle.                                                             *)

\* Below a bound, every set of levels has a highest.
LEMMA Highest ==
  ASSUME NEW n \in Nat, NEW T, T \subseteq 0 .. n, T # {}
  PROVE  \E x \in T : \A y \in T : y <= x
<1> DEFINE less == {ss \in Nat \X Nat : ss[1] < ss[2]}
           down == {n - x : x \in T}
<1>1. IsWellFoundedOn(less, Nat)
  BY NatLessThanWellFounded DEF OpToRel
<1>2. down \subseteq Nat /\ down # {}
  <2>1. \A x \in T : n - x \in Nat
    OBVIOUS
  <2>2. PICK x \in T : TRUE
    OBVIOUS
  <2>3. n - x \in down
    OBVIOUS
  <2> QED BY <2>1, <2>3
<1> HIDE DEF less
<1>3. PICK d \in down : \A e \in down : ~ (<<e, d>> \in less)
  BY <1>1, <1>2, WFMin
<1>4. ASSUME NEW e \in down
      PROVE  d <= e
  <2>1. d \in Nat /\ e \in Nat
    BY <1>2, <1>3
  <2>2. ~ (<<e, d>> \in less)
    BY <1>3
  <2>3. ~ (e < d)
    BY <2>1, <2>2 DEF less
  <2> QED BY <2>1, <2>3
<1>5. PICK x \in T : d = n - x
  BY <1>3
<1>6. \A y \in T : n - x <= n - y
  BY <1>4, <1>5
<1> QED BY <1>6

\* Of a set of transactions at their first movement, the one that waits at the highest level
\* waits for nobody in the set.
LEMMA NoCircleAtFirst == IInv => CirclesNeedEarlierLines
<1> SUFFICES ASSUME IInv, NEW S \in Circles, \A p \in S : txn[p].made = << >>
             PROVE  FALSE
  BY DEF CirclesNeedEarlierLines
<1> DEFINE At(p) == Level(Head(txn[p].need))
           levels == {At(p) : p \in S}
<1>1. S \subseteq Procs /\ S # {} /\ \A p \in S : \E q \in S : WaitsFor(p, q)
  BY DEF Circles
<1>2. ASSUME NEW p \in S
      PROVE  /\ Posting(p) /\ txn[p].need \in Seq(Locks) /\ txn[p].need # << >>
             /\ Upwards(p) /\ At(p) \in 0 .. Len(Order)
  <2>1. Waiting(p)
    BY <1>1 DEF WaitsFor
  <2>2. Posting(p) /\ txn[p].need # << >> /\ Busy(p)
    BY <2>1 DEF Waiting, Posting
  <2>3. txn[p].need \in Seq(Locks) /\ Upwards(p)
    BY <1>1, <2>2 DEF IInv, ProcInv, TxnTyped
  <2>4. Head(txn[p].need) \in Locks
    BY <2>2, <2>3, HeadTailProperties
  <2> QED BY <2>2, <2>3, <2>4, LevelsOfLocks
<1>3. levels \subseteq 0 .. Len(Order) /\ levels # {}
  BY <1>1, <1>2
<1>4. Len(Order) \in Nat
  BY LenProperties
<1>5. PICK p \in S : \A q \in S : At(q) <= At(p)
  <2> HIDE DEF At
  <2>1. PICK x \in levels : \A y \in levels : y <= x
    BY <1>3, <1>4, Highest
  <2> QED BY <2>1
<1>6. PICK q \in S : WaitsFor(p, q)
  BY <1>1
<1>7. Head(txn[p].need) \in HeldBy(q)
  <2>1. Head(txn[p].need) \in Locks
    BY <1>2, HeadTailProperties
  <2> QED BY <1>6, <2>1 DEF WaitsFor, HeldBy, IInv, BooksTyped
<1>8. 1 \in 1 .. Len(txn[q].need) /\ Head(txn[q].need) = txn[q].need[1]
  BY <1>2, EmptySeq
<1>9. At(p) < At(q)
  BY <1>2, <1>7, <1>8 DEF Upwards, Rising
<1>10. At(p) \in Int /\ At(q) \in Int /\ At(q) <= At(p)
  BY <1>2, <1>4, <1>5
<1> QED BY <1>9, <1>10

-----------------------------------------------------------------------------
(* Steps.                                                                  *)

\* The invariant holds before the first request.
LEMMA IInvInit == Init => IInv
<1> SUFFICES ASSUME Init PROVE IInv
  OBVIOUS
<1>1. BooksTyped
  <2>1. \A d \in Docs : version[d] \in DOMAIN Sheet[d].versions /\ version[d] \in Nat
    BY SheetAssumption DEF Init
  <2>2. bal \in [Rows -> Int] /\ ledger \in [Docs -> Seq(Moved)]
    BY EmptySeq DEF Init
  <2> QED BY <2>1, <2>2 DEF Init, BooksTyped, Locks
<1>2. \A p \in Procs : ~Busy(p) /\ HeldBy(p) = {}
  BY DEF Init, Busy, HeldBy
<1> QED BY <1>1, <1>2 DEF IInv, ProcInv, Posting

\* A step of one process leaves what holds of the others.
LEMMA OthersKeep ==
  ASSUME NEW q \in Procs, ProcInv(q), txn'[q] = txn[q], HeldBy(q)' = HeldBy(q)
  PROVE  ProcInv(q)'
BY DEF ProcInv, Busy, Posting, Upwards, Rising

\* A transaction that ends gives back its locks and no others.
LEMMA FreedLocks ==
  ASSUME BooksTyped, NEW p \in Procs, held' = Freed(p)
  PROVE  /\ DOMAIN held' = Locks
         /\ HeldBy(p)' = {}
         /\ \A q \in Procs \ {p} : HeldBy(q)' = HeldBy(q)
BY DEF BooksTyped, Freed, Release, HeldBy

\* A transaction that fails leaves nothing behind.
LEMMA RollbackKeeps ==
  ASSUME IInv, NEW p \in Procs, Rollback(p)
  PROVE  IInv'
<1>1. /\ held' = Freed(p) /\ txn' = [txn EXCEPT ![p] = NoTxn]
      /\ UNCHANGED <<version, bal, ledger>>
  BY DEF Rollback, docVars
<1>2. /\ DOMAIN held' = Locks /\ HeldBy(p)' = {}
      /\ \A q \in Procs \ {p} : HeldBy(q)' = HeldBy(q)
  BY <1>1, FreedLocks DEF IInv
<1>3. BooksTyped'
  BY <1>1, <1>2 DEF IInv, BooksTyped
<1>4. txn'[p] = NoTxn /\ \A q \in Procs \ {p} : txn'[q] = txn[q]
  BY <1>1 DEF IInv, BooksTyped
<1>5. ProcInv(p)'
  BY <1>2, <1>4 DEF ProcInv, Busy, Posting
<1> QED BY <1>2, <1>3, <1>4, <1>5, OthersKeep DEF IInv

\* The handlers that post nothing.
LEMMA FinishKeeps ==
  ASSUME IInv, NEW p \in Procs, NEW op, NEW new, Loaded(p, op), Finish(p, new),
         \/ version' = version
         \/ \E v \in DOMAIN Sheet[DocOf(p)].versions : version' = [version EXCEPT ![DocOf(p)] = v]
  PROVE  IInv'
<1>1. /\ txn' = [txn EXCEPT ![p] = NoTxn] /\ UNCHANGED <<bal, ledger, held>>
  BY DEF Finish, bookVars
<1>2. txn[p].doc \in Docs /\ HeldBy(p) = {}
  BY DEF Loaded, IInv, ProcInv, TxnTyped, Posting
<1>3. BooksTyped'
  BY <1>1, <1>2 DEF IInv, BooksTyped, DocOf
<1>4. txn'[p] = NoTxn /\ \A q \in Procs \ {p} : txn'[q] = txn[q]
  BY <1>1 DEF IInv, BooksTyped
<1>5. \A q \in Procs : HeldBy(q)' = HeldBy(q)
  BY <1>1 DEF HeldBy
<1>6. ProcInv(p)'
  BY <1>2, <1>4, <1>5 DEF ProcInv, Busy, Posting
<1> QED BY <1>3, <1>4, <1>5, <1>6, OthersKeep DEF IInv

\* get_object() begins a transaction that holds nothing.
LEMMA LoadKeeps ==
  ASSUME IInv, NEW p \in Procs, Load(p)
  PROVE  IInv'
<1>1. PICK d \in Docs : \E op \in {"POST"} \cup Of(d).also : txn' = [txn EXCEPT ![p] = Opened(d, op)]
  BY DEF Load
<1> PICK op \in {"POST"} \cup Of(d).also : txn' = [txn EXCEPT ![p] = Opened(d, op)]
  BY <1>1
<1> DEFINE t == Opened(d, op)
<1>2. UNCHANGED <<version, bal, ledger, held>>
  BY DEF Load, docVars, bookVars
<1>3. TxnTyped(t) /\ t.begun = FALSE
  BY EmptySeq DEF TxnTyped, Fields, Opened
<1>4. txn'[p] = t /\ DOMAIN txn' = Procs /\ \A q \in Procs \ {p} : txn'[q] = txn[q]
  BY DEF IInv, BooksTyped
<1>5. \A q \in Procs : HeldBy(q)' = HeldBy(q)
  BY <1>2 DEF HeldBy
<1>6. HeldBy(p) = {}
  BY DEF IInv, ProcInv, Load, Posting
<1>7. ProcInv(p)'
  <2>1. t.todo = << >>
    BY DEF Opened
  <2> QED BY <2>1, <1>3, <1>4, <1>5, <1>6 DEF ProcInv, Busy, Posting
<1>8. BooksTyped'
  BY <1>2, <1>4 DEF IInv, BooksTyped
<1> QED BY <1>4, <1>5, <1>7, <1>8, OthersKeep DEF IInv

\* A step of an open transaction that takes no lock and changes no book.
LEMMA StepKeeps ==
  ASSUME IInv, NEW p \in Procs, NEW t,
         txn' = [txn EXCEPT ![p] = t], UNCHANGED <<version, bal, ledger, held>>,
         TxnTyped(t), t.begun, t.made = << >> => Rising(t, HeldBy(p))
  PROVE  IInv'
<1>1. txn'[p] = t /\ DOMAIN txn' = Procs /\ \A q \in Procs \ {p} : txn'[q] = txn[q]
  BY DEF IInv, BooksTyped
<1>2. \A q \in Procs : HeldBy(q)' = HeldBy(q)
  BY DEF HeldBy
<1>3. Posting(p)' /\ Busy(p)'
  <2>1. t # NoTxn
    BY EmptySeq DEF NoTxn, TxnTyped, Fields
  <2> QED BY <1>1, <2>1 DEF Busy, Posting
<1>4. ProcInv(p)'
  <2>1. t.made = << >> => Upwards(p)'
    BY <1>1, <1>2 DEF Upwards, Rising
  <2> QED BY <1>1, <1>3, <2>1 DEF ProcInv
<1>5. BooksTyped'
  BY <1>1 DEF IInv, BooksTyped
<1> QED BY <1>1, <1>2, <1>4, <1>5, OthersKeep DEF IInv

\* What a document says is a sequence of lines.
LEMMA LinesAreTyped ==
  ASSUME NEW d \in Docs, NEW v \in DOMAIN Sheet[d].versions,
         NEW k \in DOMAIN Sheet[d].versions[v]
  PROVE  /\ DOMAIN Sheet[d].versions[v] = 1 .. Len(Sheet[d].versions[v])
         /\ Len(Sheet[d].versions[v]) \in Nat
         /\ Sheet[d].versions[v][k] \in Line
<1>1. Sheet[d].versions[v] \in Seq(Line)
  BY SheetAssumption
<1> QED BY <1>1, LenProperties, ElementOfSeq

\* The number of a document is its first lock.
LEMMA BeginPostKeeps ==
  ASSUME IInv, NEW p \in Procs, BeginPost(p)
  PROVE  IInv'
<1> DEFINE d == DocOf(p)
           t == [txn[p] EXCEPT !.begun = TRUE, !.need = Of(d).series, !.version = version[d],
                               !.todo = [k \in DOMAIN LinesOf(d) |-> k]]
<1>1. /\ txn' = [txn EXCEPT ![p] = t] /\ UNCHANGED <<version, bal, ledger, held>>
  BY DEF BeginPost, docVars, bookVars
<1>2. TxnTyped(txn[p]) /\ HeldBy(p) = {} /\ d \in Docs /\ version[d] \in DOMAIN Sheet[d].versions
  BY DEF BeginPost, Loaded, IInv, BooksTyped, ProcInv, Posting, TxnTyped, DocOf
<1>3. /\ Of(d).series \in Seq(Locks) /\ Len(Of(d).series) <= 1 /\ Len(Of(d).series) \in Nat
      /\ \A i \in 1 .. Len(Of(d).series) : Level(Of(d).series[i]) = 0
  <2>1. /\ Of(d).series \in Seq(Locks) /\ Len(Of(d).series) <= 1
        /\ \A i \in 1 .. Len(Of(d).series) : Of(d).series[i] \in AllSeries
    BY <1>2, OneSeries
  <2> QED BY <2>1, LenProperties, LevelsOfLocks DEF Locks
<1>4. /\ t.todo \in Seq(Nat)
      /\ \A i \in 1 .. Len(t.todo) : t.todo[i] \in DOMAIN Sheet[d].versions[version[d]]
  <2>1. LinesOf(d) \in Seq(Line)
    BY <1>2, SheetAssumption DEF LinesOf
  <2>2. Len(LinesOf(d)) \in Nat /\ DOMAIN LinesOf(d) = 1 .. Len(LinesOf(d))
    BY <2>1, LenProperties
  <2> DEFINE f == [k \in 1 .. Len(LinesOf(d)) |-> k]
  <2>3. f \in Seq(Nat) /\ Len(f) = Len(LinesOf(d)) /\ \A i \in 1 .. Len(f) : f[i] = i
    BY <2>2, IsASeq, LenProperties
  <2>4. t.todo = f
    BY <1>2, <2>2 DEF TxnTyped, Fields
  <2> QED BY <2>2, <2>3, <2>4 DEF LinesOf
<1>5. /\ t.doc = d /\ t.version = version[d] /\ t.moving = txn[p].moving /\ t.made = txn[p].made
      /\ t.need = Of(d).series /\ t.delta = txn[p].delta /\ t.begun /\ DOMAIN t = DOMAIN txn[p]
  BY <1>2 DEF TxnTyped, Fields, DocOf
<1> HIDE DEF t, d
<1>6. TxnTyped(t)
  BY <1>2, <1>3, <1>4, <1>5 DEF TxnTyped
<1>7. Rising(t, HeldBy(p))
  BY <1>2, <1>3, <1>5 DEF Rising
<1> QED BY <1>1, <1>5, <1>6, <1>7, StepKeeps

\* A row of the ledger that was no reversal can be reversed.
LEMMA ReversalsAreMoved ==
  ASSUME BooksTyped, NEW d \in Docs, NEW ms \in Reversals(d)
  PROVE  ms \in Seq(Moved)
<1> DEFINE n == Cardinality(Standing(d))
<1>1. ledger[d] \in Seq(Moved) /\ DOMAIN ledger[d] = 1 .. Len(ledger[d]) /\ Len(ledger[d]) \in Nat
  <2>1. ledger[d] \in Seq(Moved)
    BY DEF BooksTyped
  <2> QED BY <2>1, LenProperties
<1>2. n \in Nat
  <2>1. Standing(d) \subseteq 1 .. Len(ledger[d])
    BY <1>1 DEF Standing
  <2>2. IsFiniteSet(1 .. Len(ledger[d]))
    BY <1>1, FS_Interval
  <2> QED BY <2>1, <2>2, FS_Subset, FS_CardinalityType
<1>3. PICK s \in [1 .. n -> Standing(d)] : ms = [i \in DOMAIN s |-> ReversalOf(d, s[i])]
  BY DEF Reversals
<1>4. ASSUME NEW k \in Standing(d)
      PROVE  ReversalOf(d, k) \in Moved
  <2>1. k \in 1 .. Len(ledger[d]) /\ ledger[d][k].reverses = 0 /\ k \in Nat /\ k > 0
    BY <1>1 DEF Standing
  <2>2. ledger[d][k] \in Moved
    BY <1>1, <2>1, ElementOfSeq
  <2> DEFINE m == ledger[d][k]
             back == [line |-> m.line, from |-> m.to, to |-> <<m.from[1], m.to[2]>>,
                      qty |-> m.qty, reverses |-> k]
  <2>3. /\ m.line \in Nat /\ m.to \in Rows /\ m.qty \in Int
        /\ <<m.from[1], m.to[2]>> \in Rows
    BY <2>1, <2>2 DEF Moved
  <2>4. ReversalOf(d, k) = back
    BY DEF ReversalOf
  <2> HIDE DEF m
  <2>5. back \in [line : Nat, from : Rows, to : Rows, qty : Int, reverses : Nat]
    BY <2>1, <2>3
  <2>6. back.reverses # 0
    BY <2>1
  <2> QED BY <2>4, <2>5, <2>6 DEF Moved
<1> HIDE DEF n
<1>5. ms = [i \in 1 .. n |-> ReversalOf(d, s[i])]
  BY <1>3
<1>6. \A i \in 1 .. n : ReversalOf(d, s[i]) \in Moved
  BY <1>3, <1>4
<1> QED BY <1>2, <1>5, <1>6, IsASeq

\* A void asks for the rows of its first reversal.
LEMMA BeginVoidKeeps ==
  ASSUME IInv, NEW p \in Procs, BeginVoid(p)
  PROVE  IInv'
<1> DEFINE d == DocOf(p)
<1>1. PICK ms \in Reversals(d) :
         txn' = [txn EXCEPT ![p] = [txn[p] EXCEPT !.begun = TRUE, !.version = version[d],
                        !.moving = ms, !.need = Wanted(ms)]]
  BY Zenon DEF BeginVoid
<1> DEFINE t == [txn[p] EXCEPT !.begun = TRUE, !.version = version[d],
                               !.moving = ms, !.need = Wanted(ms)]
<1>2. UNCHANGED <<version, bal, ledger, held>> /\ txn' = [txn EXCEPT ![p] = t]
  BY <1>1 DEF BeginVoid, docVars, bookVars
<1>3. /\ TxnTyped(txn[p]) /\ HeldBy(p) = {} /\ d \in Docs
      /\ txn[p].todo = << >>
  BY DEF BeginVoid, Loaded, IInv, ProcInv, Posting, TxnTyped, DocOf
<1>4. /\ t.doc = d /\ t.version = version[d] /\ t.moving = ms /\ t.made = txn[p].made
      /\ t.need = Wanted(ms) /\ t.delta = txn[p].delta /\ t.begun /\ DOMAIN t = DOMAIN txn[p]
      /\ t.todo = << >>
  BY <1>3 DEF TxnTyped, Fields, DocOf
<1>5. ms \in Seq(Moved)
  BY <1>3, ReversalsAreMoved DEF IInv
<1>6. /\ Wanted(ms) \in Seq(Locks)
      /\ \A i, j \in 1 .. Len(Wanted(ms)) :
               i < j => Level(Wanted(ms)[i]) < Level(Wanted(ms)[j])
  BY <1>5, WantedIsUpwards
<1> HIDE DEF t, d
<1>7. TxnTyped(t)
  <2>1. \A i \in 1 .. Len(t.todo) : FALSE
    BY <1>4
  <2> QED BY <1>3, <1>4, <1>5, <1>6, <2>1, EmptySeq DEF TxnTyped
<1>8. Rising(t, HeldBy(p))
  <2>1. ms = << >> => Wanted(ms) = << >>
    BY DEF Wanted
  <2> QED BY <1>3, <1>4, <1>6, <2>1 DEF Rising
<1> QED BY <1>2, <1>4, <1>7, <1>8, StepKeeps

\* The row a line comes off is one of those it names.
LEMMA HeldRowIsNamed ==
  ASSUME NEW p \in Procs, TxnTyped(txn[p]), bal \in [Rows -> Int], NEW line \in Line
  PROVE  \E i \in DOMAIN line.from : HeldRow(p, line) = line.from[i]
<1>1. line.from \in Seq(Rows) /\ line.from # << >>
  BY DEF Line
<1>2. Len(line.from) \in Nat /\ DOMAIN line.from = 1 .. Len(line.from)
  BY <1>1, LenProperties
<1>3. 1 \in DOMAIN line.from
  BY <1>1, <1>2, EmptySeq
<1> DEFINE others == {k \in 2 .. Len(line.from) : Seen(p, line.from[k]) > 0}
           least == CHOOSE k \in others : \A m \in others : k <= m
<1>4. HeldRow(p, line) = line.from[1] \/ (others # {} /\ HeldRow(p, line) = line.from[least])
  BY DEF HeldRow
<1>5. ASSUME others # {}
      PROVE  least \in others
  <2> DEFINE less == {ss \in Nat \X Nat : ss[1] < ss[2]}
  <2>1. IsWellFoundedOn(less, Nat)
    BY NatLessThanWellFounded DEF OpToRel
  <2>2. others \subseteq Nat
    BY <1>2
  <2> HIDE DEF others, less
  <2>3. PICK k \in others : \A m \in others : ~ (<<m, k>> \in less)
    BY <2>1, <2>2, <1>5, WFMin
  <2>4. ASSUME NEW m \in others
        PROVE  k <= m
    <3>1. k \in Nat /\ m \in Nat
      BY <2>2
    <3>2. ~ (m < k)
      BY <2>3, <3>1 DEF less
    <3> QED BY <3>1, <3>2
  <2> QED BY <2>4
<1>6. others \subseteq DOMAIN line.from
  BY <1>2
<1> HIDE DEF others, least
<1> QED BY <1>3, <1>4, <1>5, <1>6

\* The rows a line may be reversed to exist.
LEMMA RowsOfLines ==
  ASSUME NEW d \in Docs, NEW v \in DOMAIN Sheet[d].versions, NEW k \in DOMAIN Sheet[d].versions[v]
  PROVE  LET line == Sheet[d].versions[v][k]
         IN  /\ <<"external", line.to[2]>> \in Rows
             /\ \A i \in DOMAIN line.from : <<line.from[i][1], line.to[2]>> \in Rows
BY Zenon, SheetAssumption

\* A line becomes movements between rows that exist.
LEMMA SourcesAreMoved ==
  ASSUME NEW p \in Procs, TxnTyped(txn[p]), bal \in [Rows -> Int],
         txn[p].version \in DOMAIN Sheet[DocOf(p)].versions,
         NEW k \in DOMAIN Sheet[DocOf(p)].versions[txn[p].version]
  PROVE  Sources(p, k) \in Seq(Moved)
<1> DEFINE line == Sheet[DocOf(p)].versions[txn[p].version][k]
           row == HeldRow(p, line)
           has == Seen(p, row)
           outside == <<"external", line.to[2]>>
<1>1. DocOf(p) \in Docs
  BY DEF TxnTyped, DocOf
<1>2. /\ line \in Line /\ k \in Nat /\ outside \in Rows
      /\ \A i \in DOMAIN line.from : <<line.from[i][1], line.to[2]>> \in Rows
  <2>1. /\ line \in Line
        /\ DOMAIN Sheet[DocOf(p)].versions[txn[p].version]
             = 1 .. Len(Sheet[DocOf(p)].versions[txn[p].version])
    BY <1>1, LinesAreTyped
  <2>2. k \in Nat
    BY <2>1
  <2>3. /\ outside \in Rows
        /\ \A i \in DOMAIN line.from : <<line.from[i][1], line.to[2]>> \in Rows
    BY Zenon, <1>1, RowsOfLines
  <2> QED BY <2>1, <2>2, <2>3
<1> HIDE DEF line
<1>3. line.from \in Seq(Rows) /\ line.to \in Rows /\ line.qty \in Nat
  BY <1>2 DEF Line
<1>4. PICK i \in DOMAIN line.from : row = line.from[i]
  BY <1>2, HeldRowIsNamed
<1>5. row \in Rows /\ <<row[1], line.to[2]>> \in Rows
  <2>1. line.from[i] \in Rows
    BY <1>3, <1>4, LenProperties, ElementOfSeq
  <2> QED BY <1>2, <1>4, <2>1
<1>6. has \in Int
  <2>1. \A r \in Rows : Seen(p, r) \in Int
    BY DEF Seen, TxnTyped
  <2> HIDE DEF row
  <2> QED BY <1>5, <2>1
<1> HIDE DEF row, has
<1>7. ASSUME NEW from \in Rows, <<from[1], line.to[2]>> \in Rows, NEW qty \in Int
      PROVE  Movement(k, line, from, qty) \in Moved
  <2> DEFINE m == [line |-> k, from |-> from, to |-> line.to, qty |-> qty, reverses |-> 0]
  <2>1. m \in [line : Nat, from : Rows, to : Rows, qty : Int, reverses : Nat]
    BY <1>2, <1>3, <1>7
  <2>2. <<m.from[1], m.to[2]>> \in Rows
    BY <1>7
  <2> QED BY <2>1, <2>2 DEF Movement, Moved
<1>8. <<outside[1], line.to[2]>> = outside
  OBVIOUS
<1> HIDE DEF outside
<1>9. /\ <<Movement(k, line, row, line.qty)>> \in Seq(Moved)
      /\ <<Movement(k, line, row, has)>> \in Seq(Moved)
      /\ <<Movement(k, line, outside, line.qty - has)>> \in Seq(Moved)
  <2>1. line.qty \in Int /\ line.qty - has \in Int
    BY <1>3, <1>6
  <2>2. /\ Movement(k, line, row, line.qty) \in Moved
        /\ Movement(k, line, row, has) \in Moved
        /\ Movement(k, line, outside, line.qty - has) \in Moved
    BY <1>2, <1>5, <1>6, <1>7, <1>8, <2>1
  <2>3. \A m \in Moved : <<m>> \in Seq(Moved)
    OBVIOUS
  <2> QED BY <2>2, <2>3
<1>10. /\ << >> \o <<Movement(k, line, outside, line.qty - has)>> \in Seq(Moved)
       /\ <<Movement(k, line, row, has)>> \o <<Movement(k, line, outside, line.qty - has)>>
            \in Seq(Moved)
  <2>1. << >> \in Seq(Moved)
    BY EmptySeq
  <2> QED BY <1>9, <2>1, ConcatProperties
<1> QED BY <1>9, <1>10 DEF Sources, line, row, has, outside

\* Before its first movement a document holds the series of its number at most.
LEMMA NextLineKeeps ==
  ASSUME IInv, NEW p \in Procs, NextLine(p)
  PROVE  IInv'
<1>0. UNCHANGED <<version, bal, ledger, held>>
  <2>1. UNCHANGED <<docVars, bookVars, overtaken>>
    BY DEF NextLine
  <2> QED BY <2>1 DEF docVars, bookVars
<1> DEFINE ms == Sources(p, Head(txn[p].todo))
           t == [txn[p] EXCEPT !.moving = ms, !.need = Wanted(ms), !.todo = Tail(@)]
<1>1. UNCHANGED <<version, bal, ledger, held>> /\ txn' = [txn EXCEPT ![p] = t]
  <2>1. txn' = [txn EXCEPT ![p] = t]
    BY DEF NextLine
  <2> QED BY <1>0, <2>1
<1>2. /\ TxnTyped(txn[p]) /\ txn[p].begun /\ txn[p].todo # << >>
      /\ txn[p].need = << >> /\ txn[p].moving = << >>
      /\ bal \in [Rows -> Int]
      /\ txn[p].made = << >> => Rising(txn[p], HeldBy(p))
  BY DEF NextLine, Posting, IInv, BooksTyped, ProcInv, Upwards
<1>3. /\ txn[p].todo \in Seq(Nat) /\ Tail(txn[p].todo) \in Seq(Nat)
      /\ Len(txn[p].todo) \in Nat \ {0} /\ Len(Tail(txn[p].todo)) = Len(txn[p].todo) - 1
      /\ Head(txn[p].todo) = txn[p].todo[1]
      /\ \A i \in 1 .. Len(Tail(txn[p].todo)) : Tail(txn[p].todo)[i] = txn[p].todo[i + 1]
  <2>1. txn[p].todo \in Seq(Nat)
    BY <1>2 DEF TxnTyped
  <2> QED BY <1>2, <2>1, HeadTailProperties, LenProperties, EmptySeq
<1>4. /\ txn[p].version \in DOMAIN Sheet[DocOf(p)].versions
      /\ \A i \in 1 .. Len(txn[p].todo) :
            txn[p].todo[i] \in DOMAIN Sheet[DocOf(p)].versions[txn[p].version]
  <2>1. 1 \in 1 .. Len(txn[p].todo)
    BY <1>3
  <2> QED BY <1>2, <2>1 DEF TxnTyped, DocOf
<1>5. ms \in Seq(Moved)
  <2>1. Head(txn[p].todo) \in DOMAIN Sheet[DocOf(p)].versions[txn[p].version]
    BY <1>3, <1>4
  <2> QED BY <1>2, <1>4, <2>1, SourcesAreMoved
<1>6. /\ Wanted(ms) \in Seq(Locks)
      /\ \A i \in 1 .. Len(Wanted(ms)) : Level(Wanted(ms)[i]) > 0
      /\ \A i, j \in 1 .. Len(Wanted(ms)) :
               i < j => Level(Wanted(ms)[i]) < Level(Wanted(ms)[j])
  BY <1>5, WantedIsUpwards
<1>7. ms = << >> => Wanted(ms) = << >>
  BY DEF Wanted
<1> HIDE DEF ms
<1>8. /\ t.doc = txn[p].doc /\ t.version = txn[p].version /\ t.moving = ms
      /\ t.made = txn[p].made /\ t.need = Wanted(ms) /\ t.delta = txn[p].delta
      /\ t.begun = txn[p].begun /\ DOMAIN t = DOMAIN txn[p] /\ t.todo = Tail(txn[p].todo)
  BY <1>2 DEF TxnTyped, Fields
<1> HIDE DEF t
<1>9. TxnTyped(t)
  <2>1. \A i \in 1 .. Len(t.todo) :
           /\ t.version \in DOMAIN Sheet[t.doc].versions
           /\ t.todo[i] \in DOMAIN Sheet[t.doc].versions[t.version]
    BY <1>3, <1>4, <1>8 DEF DocOf
  <2> QED BY <1>2, <1>3, <1>5, <1>6, <1>8, <2>1 DEF TxnTyped
<1>10. t.made = << >> => Rising(t, HeldBy(p))
  BY <1>2, <1>6, <1>7, <1>8 DEF Rising
<1> QED BY <1>1, <1>2, <1>8, <1>9, <1>10, StepKeeps

\* The lock that is taken is below those still wanted.
LEMMA LockKeeps ==
  ASSUME IInv, NEW p \in Procs, Lock(p)
  PROVE  IInv'
<1> DEFINE l == Head(txn[p].need)
           t == [txn[p] EXCEPT !.need = Tail(@)]
<1>1. /\ UNCHANGED <<version, bal, ledger>> /\ held' = [held EXCEPT ![l] = p]
      /\ txn' = [txn EXCEPT ![p] = t] /\ held[l] \in {Nobody, p}
  BY DEF Lock, docVars
<1>2. /\ TxnTyped(txn[p]) /\ txn[p].begun /\ txn[p].need # << >> /\ DOMAIN held = Locks
      /\ DOMAIN txn = Procs
      /\ txn[p].made = << >> => Rising(txn[p], HeldBy(p))
  BY DEF Lock, Waiting, Posting, IInv, BooksTyped, ProcInv, Upwards
<1>3. /\ txn[p].need \in Seq(Locks) /\ l \in Locks /\ Tail(txn[p].need) \in Seq(Locks)
      /\ Len(txn[p].need) \in Nat \ {0} /\ Len(Tail(txn[p].need)) = Len(txn[p].need) - 1
      /\ l = txn[p].need[1]
      /\ \A i \in 1 .. Len(Tail(txn[p].need)) : Tail(txn[p].need)[i] = txn[p].need[i + 1]
  <2>1. txn[p].need \in Seq(Locks)
    BY <1>2 DEF TxnTyped
  <2> QED BY <1>2, <2>1, HeadTailProperties, LenProperties, EmptySeq
<1>4. /\ t.doc = txn[p].doc /\ t.version = txn[p].version /\ t.moving = txn[p].moving
      /\ t.made = txn[p].made /\ t.need = Tail(txn[p].need) /\ t.delta = txn[p].delta
      /\ t.begun = txn[p].begun /\ DOMAIN t = DOMAIN txn[p] /\ t.todo = txn[p].todo
  BY <1>2 DEF TxnTyped, Fields
<1> HIDE DEF t, l
<1>5. TxnTyped(t)
  BY <1>2, <1>3, <1>4 DEF TxnTyped
<1>6. /\ HeldBy(p)' = HeldBy(p) \cup {l} /\ DOMAIN held' = Locks
      /\ \A q \in Procs \ {p} : HeldBy(q)' = HeldBy(q)
  BY <1>1, <1>2, <1>3 DEF HeldBy
<1>7. ASSUME t.made = << >>
      PROVE  Rising(t, HeldBy(p) \cup {l})
  <2>1. Rising(txn[p], HeldBy(p))
    BY <1>2, <1>4, <1>7
  <2>2. \A i \in 1 .. Len(t.need) :
           /\ i + 1 \in 1 .. Len(txn[p].need) /\ t.need[i] = txn[p].need[i + 1]
    BY <1>3, <1>4
  <2>3. 1 \in 1 .. Len(txn[p].need)
    BY <1>3
  <2>4. \A i, j \in 1 .. Len(t.need) : i < j => Level(t.need[i]) < Level(t.need[j])
    <3>1. \A i, j \in 1 .. Len(t.need) : i < j => i + 1 < j + 1
      OBVIOUS
    <3> QED BY <2>1, <2>2, <3>1 DEF Rising
  <2>5. \A i \in 1 .. Len(t.need) : Level(l) < Level(t.need[i])
    <3>1. \A i \in 1 .. Len(t.need) : 1 < i + 1
      OBVIOUS
    <3> QED BY <1>3, <2>1, <2>2, <2>3, <3>1 DEF Rising
  <2>6. \A h \in HeldBy(p), i \in 1 .. Len(t.need) : Level(h) < Level(t.need[i])
    BY <2>1, <2>2 DEF Rising
  <2>7. t.moving = << >> => /\ \A h \in HeldBy(p) \cup {l} : Level(h) = 0
                            /\ \A i \in 1 .. Len(t.need) : Level(t.need[i]) = 0
    BY <1>3, <1>4, <2>1, <2>2, <2>3 DEF Rising
  <2> QED BY <2>4, <2>5, <2>6, <2>7 DEF Rising
<1>8. txn'[p] = t /\ DOMAIN txn' = Procs /\ \A q \in Procs \ {p} : txn'[q] = txn[q]
  BY <1>1, <1>2
<1>9. t # NoTxn
  BY <1>5, EmptySeq DEF NoTxn, TxnTyped, Fields
<1>10. ProcInv(p)'
  <2>1. t.made = << >> => Upwards(p)'
    BY <1>6, <1>7, <1>8 DEF Upwards, Rising
  <2> QED BY <1>2, <1>4, <1>5, <1>8, <1>9, <2>1 DEF ProcInv, Busy, Posting
<1>11. BooksTyped'
  BY <1>1, <1>6, <1>8 DEF IInv, BooksTyped
<1> QED BY <1>6, <1>8, <1>10, <1>11, OthersKeep DEF IInv

\* Who has moved something is out of the argument.
LEMMA MoveKeeps ==
  ASSUME IInv, NEW p \in Procs, Move(p)
  PROVE  IInv'
<1>0. UNCHANGED <<version, bal, ledger, held>>
  <2>1. UNCHANGED <<docVars, bookVars, overtaken>>
    BY DEF Move
  <2> QED BY <2>1 DEF docVars, bookVars
<1> DEFINE m == Head(txn[p].moving)
           rest == Tail(txn[p].moving)
           t == [txn[p] EXCEPT !.delta = Shift(@, m), !.moving = Tail(@),
                               !.need = Wanted(rest), !.made = Append(@, m)]
<1>1. UNCHANGED <<version, bal, ledger, held>> /\ txn' = [txn EXCEPT ![p] = t]
  <2>1. txn' = [txn EXCEPT ![p] = t]
    BY DEF Move
  <2> QED BY <1>0, <2>1
<1>2. TxnTyped(txn[p]) /\ txn[p].begun /\ txn[p].moving # << >>
  BY DEF Move, Ready, Posting, IInv, ProcInv
<1>3. m \in Moved /\ rest \in Seq(Moved)
  <2>1. txn[p].moving \in Seq(Moved)
    BY <1>2 DEF TxnTyped
  <2> QED BY <1>2, <2>1, HeadTailProperties
<1>4. Wanted(rest) \in Seq(Locks)
  BY <1>3, WantedIsUpwards
<1> HIDE DEF m
<1>5. Append(txn[p].made, m) \in Seq(Moved) /\ Append(txn[p].made, m) # << >>
  <2>1. txn[p].made \in Seq(Moved)
    BY <1>2 DEF TxnTyped
  <2> QED BY <1>3, <2>1, AppendProperties
<1>6. Shift(txn[p].delta, m) \in [Rows -> Int]
  <2>1. m.qty \in Int
    BY <1>3 DEF Moved
  <2> QED BY <1>2, <2>1 DEF Shift, TxnTyped
<1>7. /\ t.doc = txn[p].doc /\ t.version = txn[p].version /\ t.moving = rest
      /\ t.made = Append(txn[p].made, m) /\ t.need = Wanted(rest)
      /\ t.delta = Shift(txn[p].delta, m)
      /\ t.begun = txn[p].begun /\ DOMAIN t = DOMAIN txn[p] /\ t.todo = txn[p].todo
  BY <1>2 DEF TxnTyped, Fields
<1> HIDE DEF t, rest
<1>8. TxnTyped(t)
  BY <1>2, <1>3, <1>4, <1>5, <1>6, <1>7 DEF TxnTyped
<1> QED BY <1>1, <1>2, <1>5, <1>7, <1>8, StepKeeps

\* A commit gives its locks back.
LEMMA CommitKeeps ==
  ASSUME IInv, NEW p \in Procs, Commit(p)
  PROVE  IInv'
<1> DEFINE d == DocOf(p)
<1>1. /\ bal' = [r \in Rows |-> Seen(p, r)] /\ ledger' = [ledger EXCEPT ![d] = @ \o txn[p].made]
      /\ held' = Freed(p) /\ txn' = [txn EXCEPT ![p] = NoTxn] /\ version' = version
  BY DEF Commit
<1>2. TxnTyped(txn[p]) /\ d \in Docs /\ BooksTyped
  BY DEF Commit, Done, Posting, IInv, ProcInv, TxnTyped, DocOf
<1>3. bal' \in [Rows -> Int]
  BY <1>1, <1>2 DEF Seen, BooksTyped, TxnTyped
<1>4. ledger' \in [Docs -> Seq(Moved)]
  <2>1. ledger[d] \in Seq(Moved) /\ txn[p].made \in Seq(Moved)
    BY <1>2 DEF BooksTyped, TxnTyped
  <2>2. ledger[d] \o txn[p].made \in Seq(Moved)
    BY <2>1, ConcatProperties
  <2> HIDE DEF d
  <2> QED BY <1>1, <1>2, <2>2 DEF BooksTyped
<1>5. /\ DOMAIN held' = Locks /\ HeldBy(p)' = {}
      /\ \A q \in Procs \ {p} : HeldBy(q)' = HeldBy(q)
  BY <1>1, <1>2, FreedLocks
<1>6. txn'[p] = NoTxn /\ DOMAIN txn' = Procs /\ \A q \in Procs \ {p} : txn'[q] = txn[q]
  BY <1>1, <1>2 DEF BooksTyped
<1>7. BooksTyped'
  BY <1>1, <1>2, <1>3, <1>4, <1>5, <1>6 DEF BooksTyped
<1>8. ProcInv(p)'
  BY <1>5, <1>6 DEF ProcInv, Busy, Posting
<1> QED BY <1>5, <1>6, <1>7, <1>8, OthersKeep DEF IInv

\* Every step keeps the invariant.
LEMMA IInvNext == IInv /\ [Next]_vars => IInv'
<1> SUFFICES ASSUME IInv, [Next]_vars
             PROVE  IInv'
  OBVIOUS
<1>1. CASE UNCHANGED vars
  BY <1>1 DEF vars, IInv, BooksTyped, ProcInv, Busy, Posting, HeldBy, Upwards, Rising
<1>2. CASE Next
  <2>1. PICK p \in Procs : Load(p) \/ Goes(p) \/ Lock(p) \/ Abort(p) \/ Victim(p)
    BY <1>2 DEF Next
  <2>2. CASE Load(p)
    BY <2>2, LoadKeeps
  <2>3. CASE BeginPost(p)
    BY <2>3, BeginPostKeeps
  <2>4. CASE BeginVoid(p)
    BY <2>4, BeginVoidKeeps
  <2>5. CASE NextLine(p)
    BY <2>5, NextLineKeeps
  <2>6. CASE Lock(p)
    BY <2>6, LockKeeps
  <2>7. CASE Move(p)
    BY <2>7, MoveKeeps
  <2>8. CASE Commit(p)
    BY <2>8, CommitKeeps
  <2>9. CASE RefusePost(p) \/ RefuseVoid(p) \/ Short(p) \/ CommitFails(p) \/ Abort(p) \/ Victim(p)
    BY <2>9, RollbackKeeps DEF RefusePost, RefuseVoid, Short, CommitFails, Abort, Victim
  <2>10. CASE Edit(p)
    <3>1. PICK v \in DOMAIN Sheet[DocOf(p)].versions : version' = [version EXCEPT ![DocOf(p)] = v]
      BY <2>10 DEF Edit
    <3>2. Loaded(p, "EDIT") /\ Finish(p, txn[p].status)
      BY <2>10 DEF Edit
    <3> QED BY <3>1, <3>2, FinishKeeps
  <2>11. CASE AddLine(p)
    <3>1. PICK v \in DOMAIN Sheet[DocOf(p)].versions : version' = [version EXCEPT ![DocOf(p)] = v]
      BY <2>11 DEF AddLine
    <3>2. Loaded(p, "ADD_LINE") /\ Finish(p, status[DocOf(p)])
      BY <2>11 DEF AddLine
    <3> QED BY <3>1, <3>2, FinishKeeps
  <2>12. CASE Discard(p)
    BY <2>12, FinishKeeps DEF Discard
  <2>13. CASE Submit(p)
    <3>1. Loaded(p, "SUBMIT") /\ version' = version
      BY <2>13 DEF Submit
    <3>2. PICK routed \in Asks(DocOf(p)) : Finish(p, IF routed THEN "PENDING_APPROVAL" ELSE "APPROVED")
      BY <2>13 DEF Submit
    <3> QED BY <3>1, <3>2, FinishKeeps
  <2>14. CASE Approve(p)
    BY <2>14, FinishKeeps DEF Approve, Decide
  <2>15. CASE Reject(p)
    BY <2>15, FinishKeeps DEF Reject, Decide
  <2>16. CASE Decline(p)
    BY <2>16, FinishKeeps DEF Decline
  <2> QED BY <2>1, <2>2, <2>3, <2>4, <2>5, <2>6, <2>7, <2>8, <2>9, <2>10, <2>11, <2>12,
             <2>13, <2>14, <2>15, <2>16 DEF Goes
<1> QED BY <1>1, <1>2

\* What _lock_balances promises, for any documents, rows and workers (stock/services.py:528):
\* transactions that have moved nothing yet never wait in a circle.
THEOREM OrderedLocks == Spec => []CirclesNeedEarlierLines
BY IInvInit, IInvNext, NoCircleAtFirst, PTL DEF Spec
-----------------------------------------------------------------------------
(* Stock.                                                                  *)

\* Rows that may not go below nothing.
Guarded(r) == r[1] \notin Outside

\* The movements of s bring something, or nothing.
Amounts(s) == \A i \in DOMAIN s : s[i].qty >= 0

\* What transaction t of p may count on: it has locked what it has changed, it sees no
\* balance below nothing, and the rows of its next movement are locked or asked for.
Holds(p, t) ==
    /\ Amounts(t.made) /\ Amounts(t.moving)
    /\ ~t.begun => /\ t.made = << >> /\ t.moving = << >>
                   /\ \A r \in Rows : t.delta[r] = 0
    /\ \A r \in Rows : t.delta[r] # 0 => held[r] = p
    /\ \A r \in Rows : Guarded(r) => bal[r] + t.delta[r] >= 0
    /\ t.moving # << >> =>
          \A r \in {Head(t.moving).from, Head(t.moving).to} :
             held[r] = p \/ \E i \in DOMAIN t.need : t.need[i] = r

Holding(p) == Busy(p) => Holds(p, txn[p])

StockInv ==
    /\ \A r \in Rows : Guarded(r) => bal[r] >= 0
    /\ \A d \in Docs : Amounts(ledger[d])
    /\ \A p \in Procs : Holding(p)

\* Nothing is moved yet.
LEMMA StockInit == Init => StockInv
<1> SUFFICES ASSUME Init PROVE StockInv
  OBVIOUS
<1>1. \A p \in Procs : ~Busy(p)
  BY DEF Init, Busy
<1>2. \A r \in Rows : bal[r] \in Nat
  BY DEF Init
<1>3. \A d \in Docs : Amounts(ledger[d])
  BY DEF Init, Amounts
<1> QED BY <1>1, <1>2, <1>3 DEF StockInv, Holding

\* The rows of the first movement are among those wanted.
LEMMA WantedNamesBoth ==
  ASSUME NEW ms \in Seq(Moved), ms # << >>,
         NEW r \in {Head(ms).from, Head(ms).to}
  PROVE  \E i \in DOMAIN Wanted(ms) : Wanted(ms)[i] = r
<1> DEFINE m == Head(ms)
           w == Wanted(ms)
<1>1. w = LockOrder(m)
  BY DEF Wanted
<1>2. r = m.from \/ r = m.to
  OBVIOUS
<1> HIDE DEF m, w
<1>3. CASE m.from = m.to
  <2>1. w = <<m.from>>
    BY <1>1, <1>3 DEF LockOrder
  <2>2. 1 \in DOMAIN w /\ w[1] = r
    BY <1>2, <1>3, <2>1
  <2> QED BY <2>2 DEF w
<1>4. CASE m.from # m.to /\ Rank(m.from) < Rank(m.to)
  <2>1. w = <<m.from, m.to>>
    BY <1>1, <1>4 DEF LockOrder
  <2>2. 1 \in DOMAIN w /\ 2 \in DOMAIN w /\ w[1] = m.from /\ w[2] = m.to
    BY <2>1
  <2> QED BY <1>2, <2>2 DEF w
<1>5. CASE m.from # m.to /\ ~ (Rank(m.from) < Rank(m.to))
  <2>1. w = <<m.to, m.from>>
    BY <1>1, <1>5 DEF LockOrder
  <2>2. 1 \in DOMAIN w /\ 2 \in DOMAIN w /\ w[1] = m.to /\ w[2] = m.from
    BY <2>1
  <2> QED BY <1>2, <2>2 DEF w
<1> QED BY <1>3, <1>4, <1>5

\* A step of another process that leaves the balances and its locks alone.
LEMMA OthersHold ==
  ASSUME NEW q \in Procs, Holding(q), txn'[q] = txn[q], bal' = bal,
         \A r \in Rows : held[r] = q => held'[r] = q,
         Busy(q) => TxnTyped(txn[q])
  PROVE  Holding(q)'
<1> SUFFICES ASSUME Busy(q) PROVE Holds(q, txn[q])'
  BY DEF Holding, Busy
<1> DEFINE t == txn[q]
<1>1. Holds(q, t) /\ TxnTyped(t) /\ txn'[q] = t
  BY DEF Holding
<1> HIDE DEF t
<1>2. t.moving # << >> => Head(t.moving).from \in Rows /\ Head(t.moving).to \in Rows
  <2> SUFFICES ASSUME t.moving # << >> PROVE Head(t.moving) \in Moved
    BY DEF Moved
  <2> QED BY <1>1, HeadTailProperties DEF TxnTyped
<1>3. \A r \in Rows : t.delta[r] # 0 => held'[r] = q
  BY <1>1 DEF Holds
<1>4. t.moving # << >> =>
          \A r \in {Head(t.moving).from, Head(t.moving).to} :
             held'[r] = q \/ \E i \in DOMAIN t.need : t.need[i] = r
  BY <1>1, <1>2 DEF Holds
<1>5. \A r \in Rows : Guarded(r) => bal'[r] + t.delta[r] >= 0
  BY <1>1 DEF Holds
<1> QED BY <1>1, <1>3, <1>4, <1>5 DEF Holds, Guarded, Amounts

\* A step of p in its own transaction.
LEMMA StepHolds ==
  ASSUME IInv, StockInv, NEW p \in Procs, NEW t,
         txn' = [txn EXCEPT ![p] = t], UNCHANGED <<bal, ledger, held>>, Holds(p, t)
  PROVE  StockInv'
<1>1. txn'[p] = t /\ \A q \in Procs \ {p} : txn'[q] = txn[q]
  BY DEF IInv, BooksTyped
<1>2. Holding(p)'
  BY <1>1 DEF Holding, Holds, Guarded, Amounts
<1>3. \A q \in Procs \ {p} : Holding(q)'
  BY <1>1, OthersHold DEF StockInv, IInv, ProcInv
<1> QED BY <1>2, <1>3 DEF StockInv, Guarded, Amounts

\* A transaction that ends without a trace.
LEMMA EndHolds ==
  ASSUME IInv, StockInv, NEW p \in Procs,
         txn' = [txn EXCEPT ![p] = NoTxn], UNCHANGED <<bal, ledger>>,
         held' = held \/ held' = Freed(p)
  PROVE  StockInv'
<1>1. txn'[p] = NoTxn /\ \A q \in Procs \ {p} : txn'[q] = txn[q]
  BY DEF IInv, BooksTyped
<1>2. Holding(p)'
  BY <1>1 DEF Holding, Busy
<1>3. ASSUME NEW q \in Procs \ {p} PROVE Holding(q)'
  <2>1. \A r \in Rows : held[r] = q => held'[r] = q
    BY DEF Freed, Release, IInv, BooksTyped, Locks
  <2> QED BY <1>1, <2>1, OthersHold DEF StockInv, IInv, ProcInv
<1> QED BY <1>2, <1>3 DEF StockInv, Guarded, Amounts
\* get_object() begins with nothing changed.
LEMMA LoadHolds ==
  ASSUME IInv, StockInv, NEW p \in Procs, Load(p)
  PROVE  StockInv'
<1>1. PICK d \in Docs : \E op \in {"POST"} \cup Of(d).also : txn' = [txn EXCEPT ![p] = Opened(d, op)]
  BY DEF Load
<1> PICK op \in {"POST"} \cup Of(d).also : txn' = [txn EXCEPT ![p] = Opened(d, op)]
  BY <1>1
<1> DEFINE t == Opened(d, op)
<1>2. UNCHANGED <<bal, ledger, held>>
  BY DEF Load, bookVars
<1>3. /\ t.made = << >> /\ t.moving = << >> /\ \A r \in Rows : t.delta[r] = 0
  BY DEF Opened
<1> HIDE DEF t
<1>4. \A r \in Rows : Guarded(r) => bal[r] + t.delta[r] >= 0
  BY <1>3 DEF StockInv, IInv, BooksTyped
<1>5. Holds(p, t)
  BY <1>3, <1>4 DEF Holds, Amounts
<1> QED BY <1>2, <1>5, StepHolds DEF t

\* A line, or what is to be voided, becomes the movements of an open transaction.
LEMMA NewMovements ==
  ASSUME NEW p, NEW t, NEW u, Holds(p, t), NEW ms \in Seq(Moved), Amounts(ms),
         u.made = t.made, u.delta = t.delta, u.begun = TRUE,
         u.moving = ms, u.need = Wanted(ms)
  PROVE  Holds(p, u)
<1>1. ms # << >> => \A r \in {Head(ms).from, Head(ms).to} :
                      \E i \in DOMAIN Wanted(ms) : Wanted(ms)[i] = r
  BY WantedNamesBoth
<1> QED BY <1>1 DEF Holds

\* The copy is found fit, and its lines are to do.
LEMMA BeginPostHolds ==
  ASSUME IInv, StockInv, NEW p \in Procs, BeginPost(p)
  PROVE  StockInv'
<1> DEFINE d == DocOf(p)
           t == txn[p]
           u == [t EXCEPT !.begun = TRUE, !.need = Of(d).series, !.version = version[d],
                          !.todo = [k \in DOMAIN LinesOf(d) |-> k]]
<1>1. txn' = [txn EXCEPT ![p] = u] /\ UNCHANGED <<bal, ledger, held>>
  BY DEF BeginPost, bookVars
<1>2. TxnTyped(t) /\ Holds(p, t) /\ ~t.begun
  BY DEF BeginPost, Loaded, IInv, ProcInv, StockInv, Holding
<1>3. u.made = t.made /\ u.moving = t.moving /\ u.delta = t.delta /\ u.begun = TRUE
  BY <1>2 DEF TxnTyped, Fields
<1>4. t.moving = << >>
  BY <1>2 DEF Holds
<1> HIDE DEF t, u
<1>5. Holds(p, u)
  BY <1>2, <1>3, <1>4 DEF Holds
<1> QED BY <1>1, <1>5, StepHolds

\* What stands is reversed for what it was.
LEMMA BeginVoidHolds ==
  ASSUME IInv, StockInv, NEW p \in Procs, BeginVoid(p)
  PROVE  StockInv'
<1> DEFINE d == DocOf(p)
           t == txn[p]
<1>1. PICK ms \in Reversals(d) :
         txn' = [txn EXCEPT ![p] = [t EXCEPT !.begun = TRUE, !.version = version[d],
                        !.moving = ms, !.need = Wanted(ms)]]
  BY Zenon DEF BeginVoid
<1> DEFINE u == [t EXCEPT !.begun = TRUE, !.version = version[d], !.moving = ms, !.need = Wanted(ms)]
<1>2. txn' = [txn EXCEPT ![p] = u] /\ UNCHANGED <<bal, ledger, held>>
  BY <1>1 DEF BeginVoid, bookVars
<1>3. TxnTyped(t) /\ Holds(p, t) /\ d \in Docs
  BY DEF BeginVoid, Loaded, IInv, ProcInv, StockInv, Holding, TxnTyped, DocOf
<1>4. /\ u.made = t.made /\ u.delta = t.delta /\ u.begun = TRUE
      /\ u.moving = ms /\ u.need = Wanted(ms)
  BY <1>3 DEF TxnTyped, Fields
<1>5. ms \in Seq(Moved)
  BY <1>3, ReversalsAreMoved DEF IInv
<1>6. Amounts(ms)
  <2>1. PICK s \in [1 .. Cardinality(Standing(d)) -> Standing(d)] :
                ms = [i \in DOMAIN s |-> ReversalOf(d, s[i])]
    BY DEF Reversals
  <2>2. \A i \in DOMAIN s : s[i] \in DOMAIN ledger[d]
    BY DEF Standing
  <2>3. \A i \in DOMAIN ms : i \in DOMAIN s /\ ms[i].qty = ledger[d][s[i]].qty
    BY <2>1 DEF ReversalOf
  <2> HIDE DEF d
  <2> QED BY <1>3, <2>2, <2>3 DEF Amounts, StockInv
<1> HIDE DEF t, u, d
<1>7. Holds(p, u)
  BY <1>3, <1>4, <1>5, <1>6, NewMovements
<1> QED BY <1>2, <1>7, StepHolds

\* ms brings qty for line k: one movement of it all, two that share it, or one of all that p
\* does not see in some row where it sees nothing.
Brings(p, ms, k, qty) ==
    \/ \E m : /\ ms = <<m>> /\ m \in Moved
             /\ m.line = k /\ m.reverses = 0 /\ m.qty = qty
    \/ \E m, n : /\ ms = <<m, n>> /\ m \in Moved /\ n \in Moved
                /\ m.line = k /\ n.line = k /\ m.reverses = 0 /\ n.reverses = 0
                /\ m.qty > 0 /\ n.qty > 0 /\ m.qty + n.qty = qty
    \/ \E m, r : /\ ms = <<m>> /\ m \in Moved
                /\ m.line = k /\ m.reverses = 0 /\ m.qty >= qty
                /\ r \in Rows /\ Guarded(r) /\ m.qty = qty - Seen(p, r)
                /\ Seen(p, r) <= 0

\* What a line becomes brings what it says, from rows that exist: the held row for all of
\* it, or the held row for what it has and the outside for the rest.
LEMMA SourcesAre ==
  ASSUME NEW p \in Procs, TxnTyped(txn[p]), bal \in [Rows -> Int],
         txn[p].version \in DOMAIN Sheet[DocOf(p)].versions,
         NEW k \in DOMAIN Sheet[DocOf(p)].versions[txn[p].version],
         NEW qty, qty = Sheet[DocOf(p)].versions[txn[p].version][k].qty
  PROVE  /\ qty \in Nat /\ Sources(p, k) \in Seq(Moved) /\ Amounts(Sources(p, k))
         /\ Brings(p, Sources(p, k), k, qty)
<1> DEFINE line == Sheet[DocOf(p)].versions[txn[p].version][k]
           row == HeldRow(p, line)
           has == Seen(p, row)
           outside == <<"external", line.to[2]>>
<1>1. DocOf(p) \in Docs
  BY DEF TxnTyped, DocOf
<1>2. line \in Line
  BY <1>1, LinesAreTyped
<1>3. qty = line.qty /\ line.qty \in Nat /\ line.from \in Seq(Rows)
  BY <1>2 DEF Line
<1>4. Sources(p, k) \in Seq(Moved)
  BY SourcesAreMoved
<1>5. PICK i \in DOMAIN line.from : row = line.from[i]
  BY <1>2, HeldRowIsNamed
<1>6. row \in Rows /\ (KindOf(p) = "RETURN" => Guarded(row))
  <2>1. KindOf(p) = "RETURN" => line.from[i][1] \notin Outside
    <3>1. KindOf(p) = "RETURN" => \A j \in DOMAIN line.from : line.from[j][1] \notin Outside
      BY <1>1, HolderAssumption DEF KindOf
    <3> HIDE DEF line
    <3> QED BY <1>5, <3>1
  <2> HIDE DEF row, line
  <2>2. line.from[i] \in Rows
    BY <1>3, <1>5, LenProperties, ElementOfSeq
  <2> QED BY <1>5, <2>1, <2>2 DEF Guarded
<1>7. has \in Int
  <2>1. \A r \in Rows : Seen(p, r) \in Int
    BY DEF Seen, TxnTyped
  <2> HIDE DEF row
  <2> QED BY <1>6, <2>1
<1> DEFINE one == Movement(k, line, row, line.qty)
           part == Movement(k, line, row, has)
           rest == Movement(k, line, outside, line.qty - has)
<1>8. /\ one.line = k /\ part.line = k /\ rest.line = k
      /\ one.reverses = 0 /\ part.reverses = 0 /\ rest.reverses = 0
      /\ one.qty = line.qty /\ part.qty = has /\ rest.qty = line.qty - has
  BY DEF Movement
<1>9. Sources(p, k) = IF KindOf(p) # "RETURN" \/ has >= line.qty THEN <<one>>
                      ELSE (IF has > 0 THEN <<part>> ELSE << >>) \o <<rest>>
  BY DEF Sources
<1>10. has = Seen(p, row)
  OBVIOUS
<1> HIDE DEF line, row, has, outside, one, part, rest
<1>11. CASE KindOf(p) # "RETURN" \/ has >= line.qty
  <2>1. Sources(p, k) = <<one>>
    BY <1>9, <1>11
  <2>2. one \in Moved
    BY <1>4, <2>1
  <2>3. Amounts(Sources(p, k))
    BY <1>3, <1>8, <2>1 DEF Amounts
  <2> QED BY <1>3, <1>4, <1>8, <2>1, <2>2, <2>3 DEF Brings
<1>12. CASE KindOf(p) = "RETURN" /\ ~ (has >= line.qty) /\ has > 0
  <2>1. Sources(p, k) = <<part, rest>>
    <3>1. Sources(p, k) = <<part>> \o <<rest>>
      BY <1>9, <1>12
    <3>2. <<part>> \o <<rest>> = <<part, rest>>
      BY PairsJoin
    <3> QED BY <3>1, <3>2
  <2>2. part \in Moved /\ rest \in Moved
    BY <1>4, <2>1, BothOfPair
  <2>3. part.qty > 0 /\ rest.qty > 0 /\ part.qty + rest.qty = qty
    <3>1. has > 0 /\ line.qty - has > 0 /\ has + (line.qty - has) = line.qty
      BY <1>3, <1>7, <1>12
    <3> QED BY <1>3, <1>8, <3>1
  <2>4. Amounts(Sources(p, k))
    <3>1. part.qty >= 0 /\ rest.qty >= 0
      BY <2>2, <2>3 DEF Moved
    <3> QED BY <2>1, <3>1 DEF Amounts
  <2> QED BY <1>3, <1>4, <1>8, <2>1, <2>2, <2>3, <2>4 DEF Brings
<1>13. CASE KindOf(p) = "RETURN" /\ ~ (has >= line.qty) /\ ~ (has > 0)
  <2>1. Sources(p, k) = << >> \o <<rest>>
    BY <1>9, <1>13
  <2>2. Sources(p, k) = <<rest>>
    BY <2>1
  <2>3. rest \in Moved
    BY <1>4, <2>2
  <2>4. rest.qty = qty - Seen(p, row) /\ Seen(p, row) <= 0 /\ rest.qty >= qty
    BY <1>3, <1>7, <1>8, <1>10, <1>13
  <2>5. Amounts(Sources(p, k))
    <3>1. rest.qty >= 0
      BY <1>3, <1>7, <1>8, <1>13
    <3> QED BY <2>2, <3>1 DEF Amounts
  <2> QED BY <1>3, <1>4, <1>6, <1>8, <1>13, <2>2, <2>3, <2>4, <2>5 DEF Brings
<1> QED BY <1>3, <1>11, <1>12, <1>13

\* The movements of a line bring something, or nothing.
LEMMA NextLineHolds ==
  ASSUME IInv, StockInv, NEW p \in Procs, NextLine(p)
  PROVE  StockInv'
<1> DEFINE t == txn[p]
           k == Head(t.todo)
           ms == Sources(p, k)
           u == [t EXCEPT !.moving = ms, !.need = Wanted(ms), !.todo = Tail(@)]
<1>1. txn' = [txn EXCEPT ![p] = u] /\ UNCHANGED <<bal, ledger, held>>
  <2>1. txn' = [txn EXCEPT ![p] = u]
    BY DEF NextLine
  <2>2. UNCHANGED bookVars
    BY DEF NextLine
  <2> QED BY <2>1, <2>2 DEF bookVars
<1>2. TxnTyped(t) /\ Holds(p, t) /\ t.begun /\ bal \in [Rows -> Int] /\ t.todo # << >>
  BY DEF NextLine, Posting, IInv, BooksTyped, ProcInv, StockInv, Holding
<1>4. /\ t.version \in DOMAIN Sheet[DocOf(p)].versions
      /\ k \in DOMAIN Sheet[DocOf(p)].versions[t.version]
  <2>1. t.todo \in Seq(Nat)
    BY <1>2 DEF TxnTyped
  <2>2. 1 \in 1 .. Len(t.todo) /\ k = t.todo[1]
    BY <1>2, <2>1, HeadTailProperties, LenProperties, EmptySeq
  <2> HIDE DEF k
  <2> QED BY <1>2, <2>2 DEF TxnTyped, DocOf
<1>5. ms \in Seq(Moved) /\ Amounts(ms)
  <2> HIDE DEF k
  <2> QED BY <1>2, <1>4, SourcesAre
<1>7. /\ u.made = t.made /\ u.delta = t.delta /\ u.begun = t.begun
      /\ u.moving = ms /\ u.need = Wanted(ms)
  BY <1>2 DEF TxnTyped, Fields
<1> HIDE DEF ms, t, u
<1>8. ms # << >> => \A r \in {Head(ms).from, Head(ms).to} :
                      \E i \in DOMAIN Wanted(ms) : Wanted(ms)[i] = r
  BY <1>5, WantedNamesBoth
<1>9. Holds(p, u)
  BY <1>2, <1>5, <1>7, <1>8 DEF Holds
<1> QED BY <1>1, <1>9, StepHolds

\* A lock that is taken is wanted no more.
LEMMA LockHolds ==
  ASSUME IInv, StockInv, NEW p \in Procs, Lock(p)
  PROVE  StockInv'
<1> DEFINE t == txn[p]
           l == Head(t.need)
           u == [t EXCEPT !.need = Tail(@)]
<1>1. /\ UNCHANGED <<bal, ledger>> /\ held' = [held EXCEPT ![l] = p] /\ held[l] \in {Nobody, p}
      /\ txn' = [txn EXCEPT ![p] = u]
  BY DEF Lock
<1>2. TxnTyped(t) /\ Holds(p, t) /\ t.need # << >> /\ DOMAIN held = Locks
  BY DEF Lock, Waiting, Posting, IInv, BooksTyped, ProcInv, StockInv, Holding
<1>3. /\ t.need \in Seq(Locks) /\ l = t.need[1] /\ l \in Locks /\ Len(Tail(t.need)) = Len(t.need) - 1
      /\ Len(t.need) \in Nat \ {0} /\ DOMAIN t.need = 1 .. Len(t.need)
      /\ Tail(t.need) \in Seq(Locks) /\ DOMAIN Tail(t.need) = 1 .. Len(Tail(t.need))
      /\ \A i \in 1 .. Len(t.need) - 1 : Tail(t.need)[i] = t.need[i + 1]
  <2>1. t.need \in Seq(Locks)
    BY <1>2 DEF TxnTyped
  <2> QED BY <1>2, <2>1, HeadTailProperties, LenProperties, EmptySeq
<1>4. /\ u.made = t.made /\ u.delta = t.delta /\ u.begun = t.begun
      /\ u.moving = t.moving /\ u.need = Tail(t.need)
  BY <1>2 DEF TxnTyped, Fields
<1>5. txn'[p] = u /\ \A q \in Procs \ {p} : txn'[q] = txn[q]
  BY <1>1 DEF IInv, BooksTyped
<1> HIDE DEF t, u, l
<1>6. \A r \in Locks : held'[r] = IF r = l THEN p ELSE held[r]
  BY <1>1, <1>2
<1>7. t.moving # << >> =>
          \A r \in {Head(t.moving).from, Head(t.moving).to} :
             held'[r] = p \/ \E i \in DOMAIN u.need : u.need[i] = r
  <2> SUFFICES ASSUME t.moving # << >>, NEW r \in {Head(t.moving).from, Head(t.moving).to},
                      held'[r] # p
               PROVE  \E i \in DOMAIN u.need : u.need[i] = r
    OBVIOUS
  <2>1. r \in Locks
    <3>1. Head(t.moving) \in Moved
      BY <1>2, HeadTailProperties DEF TxnTyped
    <3> QED BY <3>1 DEF Moved, Locks
  <2>2. held[r] # p /\ r # l
    BY <1>6, <2>1
  <2>3. PICK i \in DOMAIN t.need : t.need[i] = r
    BY <1>2, <2>2 DEF Holds
  <2>4. i - 1 \in 1 .. Len(t.need) - 1 /\ i - 1 + 1 = i
    BY <1>3, <2>2, <2>3
  <2>5. i - 1 \in DOMAIN u.need /\ u.need[i - 1] = t.need[i]
    BY <1>3, <1>4, <2>4
  <2> QED BY <2>3, <2>5
<1>8. \A r \in Rows : t.delta[r] # 0 => held'[r] = p
  BY <1>2, <1>6 DEF Holds, Locks
<1>9. Holding(p)'
  <2>1. /\ Amounts(t.made) /\ Amounts(t.moving)
        /\ ~t.begun => t.made = << >> /\ t.moving = << >> /\ \A r \in Rows : t.delta[r] = 0
        /\ \A r \in Rows : Guarded(r) => bal'[r] + t.delta[r] >= 0
    BY <1>1, <1>2 DEF Holds
  <2> DEFINE v == txn'[p]
  <2>2. /\ v.made = t.made /\ v.delta = t.delta /\ v.begun = t.begun
        /\ v.moving = t.moving /\ v.need = u.need
    BY <1>4, <1>5
  <2>3. /\ Amounts(v.made) /\ Amounts(v.moving)
        /\ ~v.begun => v.made = << >> /\ v.moving = << >> /\ \A r \in Rows : v.delta[r] = 0
        /\ \A r \in Rows : v.delta[r] # 0 => held'[r] = p
        /\ \A r \in Rows : Guarded(r) => bal'[r] + v.delta[r] >= 0
        /\ v.moving # << >> =>
             \A r \in {Head(v.moving).from, Head(v.moving).to} :
                held'[r] = p \/ \E i \in DOMAIN v.need : v.need[i] = r
    BY <1>7, <1>8, <2>1, <2>2
  <2> HIDE DEF v
  <2> QED BY <2>3 DEF Holding, Holds, Amounts, Guarded, v
<1>10. ASSUME NEW q \in Procs \ {p} PROVE Holding(q)'
  <2>1. \A r \in Rows : held[r] = q => held'[r] = q
    BY <1>1, <1>6 DEF Locks
  <2> QED BY <1>1, <1>5, <2>1, OthersHold DEF StockInv, IInv, ProcInv
<1> QED BY <1>1, <1>9, <1>10 DEF StockInv, Guarded, Amounts

\* What is taken was there: the two rows of a movement are locked when it is made.
LEMMA MoveHolds ==
  ASSUME IInv, StockInv, NEW p \in Procs, Move(p)
  PROVE  StockInv'
<1> DEFINE t == txn[p]
           m == Head(t.moving)
           rest == Tail(t.moving)
           u == [t EXCEPT !.delta = Shift(@, m), !.moving = Tail(@),
                          !.need = Wanted(rest), !.made = Append(@, m)]
<1>1. txn' = [txn EXCEPT ![p] = u] /\ UNCHANGED <<bal, ledger, held>>
  <2>1. txn' = [txn EXCEPT ![p] = u]
    BY DEF Move
  <2>2. UNCHANGED bookVars
    BY DEF Move
  <2> QED BY <2>1, <2>2 DEF bookVars
<1>2. /\ TxnTyped(t) /\ Holds(p, t) /\ t.begun /\ t.need = << >> /\ t.moving # << >>
      /\ bal \in [Rows -> Int] /\ Covers(p, m)
  BY DEF Move, Ready, Posting, IInv, BooksTyped, ProcInv, StockInv, Holding
<1>3. /\ t.moving \in Seq(Moved) /\ t.made \in Seq(Moved) /\ t.delta \in [Rows -> Int]
  BY <1>2 DEF TxnTyped
<1>4. /\ m \in Moved /\ rest \in Seq(Moved) /\ m = t.moving[1] /\ Len(t.moving) \in Nat \ {0}
      /\ Len(rest) = Len(t.moving) - 1
      /\ \A i \in 1 .. Len(t.moving) - 1 : rest[i] = t.moving[i + 1]
  BY <1>2, <1>3, HeadTailProperties, LenProperties, EmptySeq
<1>5. /\ u.made = Append(t.made, m) /\ u.delta = Shift(t.delta, m) /\ u.begun = t.begun
      /\ u.moving = rest /\ u.need = Wanted(rest)
  BY <1>2 DEF TxnTyped, Fields
<1>6. Covers(p, m) => m.from[1] \in Outside \/ bal[m.from] + t.delta[m.from] >= m.qty
  BY DEF Covers, Seen
<1>7. held[m.from] = p /\ held[m.to] = p
  <2>1. DOMAIN t.need = {}
    BY <1>2
  <2> QED BY <1>2, <2>1 DEF Holds
<1> HIDE DEF t, m, rest, u
<1>8. m.from \in Rows /\ m.to \in Rows /\ m.qty \in Int /\ m.qty >= 0
  <2>1. m.qty >= 0
    BY <1>2, <1>3, <1>4, LenProperties DEF Holds, Amounts
  <2> QED BY <1>4, <2>1 DEF Moved
<1>9. \A r \in Rows : u.delta[r] = t.delta[r] + (IF r = m.to THEN m.qty ELSE 0)
                                             - (IF r = m.from THEN m.qty ELSE 0)
  BY <1>5 DEF Shift
<1>10. \A r \in Rows : u.delta[r] # 0 => held[r] = p
  <2> SUFFICES ASSUME NEW r \in Rows, u.delta[r] # 0, r # m.to, r # m.from PROVE held[r] = p
    BY <1>7
  <2>1. u.delta[r] = t.delta[r] + 0 - 0
    BY <1>9
  <2>2. t.delta[r] \in Int
    BY <1>3
  <2>3. t.delta[r] # 0
    BY <2>1, <2>2
  <2> QED BY <1>2, <2>3 DEF Holds
<1>11. \A r \in Rows : Guarded(r) => bal[r] + u.delta[r] >= 0
  <2> SUFFICES ASSUME NEW r \in Rows, Guarded(r) PROVE bal[r] + u.delta[r] >= 0
    OBVIOUS
  <2>1. /\ bal[r] \in Int /\ t.delta[r] \in Int /\ bal[r] + t.delta[r] >= 0
    BY <1>2, <1>3 DEF Holds
  <2>2. r = m.from => bal[r] + t.delta[r] >= m.qty
    BY <1>2, <1>6 DEF Guarded
  <2>3. u.delta[r] = t.delta[r] + (IF r = m.to THEN m.qty ELSE 0)
                                - (IF r = m.from THEN m.qty ELSE 0)
    BY <1>9
  <2> QED BY <1>8, <2>1, <2>2, <2>3
<1>12. Amounts(u.made)
  <2>1. /\ DOMAIN u.made = 1 .. Len(t.made) + 1 /\ Len(t.made) \in Nat
        /\ DOMAIN t.made = 1 .. Len(t.made)
        /\ u.made[Len(t.made) + 1] = m /\ \A i \in 1 .. Len(t.made) : u.made[i] = t.made[i]
    BY <1>3, <1>4, <1>5, AppendProperties, LenProperties
  <2>2. \A i \in 1 .. Len(t.made) : t.made[i].qty >= 0
    BY <1>2, <2>1 DEF Holds, Amounts
  <2>3. \A i \in 1 .. Len(t.made) + 1 : i \in 1 .. Len(t.made) \/ i = Len(t.made) + 1
    BY <2>1
  <2> QED BY <1>8, <2>1, <2>2, <2>3 DEF Amounts
<1>13. Amounts(rest)
  <2>1. /\ DOMAIN rest = 1 .. Len(t.moving) - 1
        /\ \A i \in 1 .. Len(t.moving) : t.moving[i].qty >= 0
    BY <1>2, <1>3, <1>4, LenProperties DEF Holds, Amounts
  <2>2. \A i \in 1 .. Len(t.moving) - 1 : i + 1 \in 1 .. Len(t.moving)
    BY <1>4
  <2> QED BY <1>4, <2>1, <2>2 DEF Amounts
<1>14. rest # << >> => \A r \in {Head(rest).from, Head(rest).to} :
                         \E i \in DOMAIN Wanted(rest) : Wanted(rest)[i] = r
  BY <1>4, WantedNamesBoth
<1>15. Holds(p, u)
  BY <1>2, <1>5, <1>10, <1>11, <1>12, <1>13, <1>14 DEF Holds
<1> QED BY <1>1, <1>15, StepHolds

\* What p has changed it holds, so nobody else has changed it.
LEMMA CommitHolds ==
  ASSUME IInv, StockInv, NEW p \in Procs, Commit(p)
  PROVE  StockInv'
<1> DEFINE t == txn[p]
           d == DocOf(p)
<1>1. /\ bal' = [r \in Rows |-> bal[r] + t.delta[r]] /\ held' = Freed(p)
      /\ ledger' = [ledger EXCEPT ![d] = @ \o t.made] /\ txn' = [txn EXCEPT ![p] = NoTxn]
  BY DEF Commit, Seen
<1>2. /\ TxnTyped(t) /\ Holds(p, t) /\ d \in Docs /\ BooksTyped
  BY DEF Commit, Done, Posting, IInv, ProcInv, StockInv, Holding, TxnTyped, DocOf
<1>3. /\ ledger[d] \in Seq(Moved) /\ t.made \in Seq(Moved) /\ t.delta \in [Rows -> Int]
      /\ bal \in [Rows -> Int] /\ ledger \in [Docs -> Seq(Moved)]
  BY <1>2 DEF TxnTyped, BooksTyped
<1>4. txn'[p] = NoTxn /\ \A q \in Procs \ {p} : txn'[q] = txn[q]
  BY <1>1, <1>2 DEF BooksTyped
<1>5. Busy(p) /\ t = txn[p]
  BY DEF Commit, Done, Posting
<1> HIDE DEF t, d
<1>6. \A r \in Rows : Guarded(r) => bal'[r] >= 0
  BY <1>1, <1>2 DEF Holds
<1>7. \A e \in Docs : Amounts(ledger'[e])
  <2> SUFFICES ASSUME NEW e \in Docs PROVE Amounts(ledger'[e])
    OBVIOUS
  <2>1. CASE e # d
    BY <1>1, <1>2, <1>3, <2>1 DEF StockInv
  <2>2. CASE e = d
    <3> DEFINE a == ledger[d]
               b == t.made
    <3>1. a \in Seq(Moved) /\ b \in Seq(Moved) /\ Amounts(a) /\ Amounts(b) /\ ledger'[e] = a \o b
      BY <1>1, <1>2, <1>3, <2>2 DEF StockInv, Holds
    <3> HIDE DEF a, b
    <3>2. /\ DOMAIN a = 1 .. Len(a) /\ DOMAIN b = 1 .. Len(b) /\ Len(a) \in Nat /\ Len(b) \in Nat
          /\ DOMAIN (a \o b) = 1 .. Len(a) + Len(b)
          /\ \A i \in 1 .. Len(a) + Len(b) : (a \o b)[i] = IF i <= Len(a) THEN a[i] ELSE b[i - Len(a)]
      BY <3>1, ConcatProperties, LenProperties
    <3>3. \A i \in 1 .. Len(a) + Len(b) : i \in 1 .. Len(a) \/ i - Len(a) \in 1 .. Len(b)
      BY <3>2
    <3>4. ASSUME NEW i \in 1 .. Len(a) + Len(b) PROVE (a \o b)[i].qty >= 0
      <4>1. CASE i \in 1 .. Len(a)
        <5>1. (a \o b)[i] = a[i]
          BY <3>2, <4>1
        <5> QED BY <3>1, <3>2, <4>1, <5>1 DEF Amounts
      <4>2. CASE i \notin 1 .. Len(a)
        <5>1. (a \o b)[i] = b[i - Len(a)] /\ i - Len(a) \in 1 .. Len(b)
          BY <3>2, <3>3, <4>2
        <5> QED BY <3>1, <3>2, <5>1 DEF Amounts
      <4> QED BY <4>1, <4>2
    <3> QED BY <3>1, <3>2, <3>4 DEF Amounts
  <2> QED BY <2>1, <2>2
<1>8. Holding(p)'
  BY <1>4 DEF Holding, Busy
<1>9. ASSUME NEW q \in Procs \ {p} PROVE Holding(q)'
  <2> SUFFICES ASSUME Busy(q) PROVE Holds(q, txn[q])'
    BY <1>4 DEF Holding, Busy
  <2> DEFINE v == txn[q]
  <2>1. Holds(q, v) /\ TxnTyped(v) /\ v.delta \in [Rows -> Int] /\ txn'[q] = v
    BY <1>4 DEF StockInv, Holding, IInv, ProcInv, TxnTyped
  <2> HIDE DEF v
  <2>2. \A r \in Locks : held[r] = q => held'[r] = q
    BY <1>1, <1>2 DEF Freed, Release, BooksTyped
  <2>3. \A r \in Rows : v.delta[r] # 0 => held'[r] = q
    BY <2>1, <2>2 DEF Holds, Locks
  <2>4. ASSUME NEW r \in Rows, Guarded(r) PROVE bal'[r] + v.delta[r] >= 0
    <3>1. bal'[r] = bal[r] + t.delta[r] /\ bal'[r] >= 0 /\ bal[r] + v.delta[r] >= 0
          /\ bal[r] \in Int /\ t.delta[r] \in Int /\ v.delta[r] \in Int
      BY <1>1, <1>3, <1>6, <2>1, <2>4 DEF Holds
    <3>2. t.delta[r] = 0 \/ v.delta[r] = 0
      BY <1>2, <2>1 DEF Holds
    <3> QED BY <3>1, <3>2
  <2>5. v.moving # << >> =>
          \A r \in {Head(v.moving).from, Head(v.moving).to} :
             held'[r] = q \/ \E i \in DOMAIN v.need : v.need[i] = r
    <3> SUFFICES ASSUME v.moving # << >>, NEW r \in {Head(v.moving).from, Head(v.moving).to}
                 PROVE  held'[r] = q \/ \E i \in DOMAIN v.need : v.need[i] = r
      OBVIOUS
    <3>1. r \in Locks
      <4>1. Head(v.moving) \in Moved
        BY <2>1, HeadTailProperties DEF TxnTyped
      <4> QED BY <4>1 DEF Moved, Locks
    <3> QED BY <2>1, <2>2, <3>1 DEF Holds
  <2> QED BY <2>1, <2>3, <2>4, <2>5 DEF Holds, Guarded, Amounts
<1> QED BY <1>6, <1>7, <1>8, <1>9 DEF StockInv, Guarded, Amounts

\* Every step keeps the stock.
LEMMA StockNext == IInv /\ StockInv /\ [Next]_vars => StockInv'
<1> SUFFICES ASSUME IInv, StockInv, [Next]_vars
             PROVE  StockInv'
  OBVIOUS
<1>1. CASE UNCHANGED vars
  BY <1>1 DEF vars, StockInv, Holding, Busy, Holds, Guarded, Amounts
<1>2. CASE Next
  <2>1. PICK p \in Procs : Load(p) \/ Goes(p) \/ Lock(p) \/ Abort(p) \/ Victim(p)
    BY <1>2 DEF Next
  <2>2. ASSUME NEW new, Finish(p, new) PROVE StockInv'
    BY <2>2, EndHolds DEF Finish, bookVars
  <2>3. CASE Load(p) \/ BeginPost(p) \/ BeginVoid(p) \/ NextLine(p) \/ Lock(p) \/ Move(p) \/ Commit(p)
    BY <2>3, LoadHolds, BeginPostHolds, BeginVoidHolds, NextLineHolds, LockHolds, MoveHolds,
       CommitHolds
  <2>4. CASE RefusePost(p) \/ RefuseVoid(p) \/ Short(p) \/ CommitFails(p) \/ Abort(p) \/ Victim(p)
    BY <2>4, EndHolds DEF RefusePost, RefuseVoid, Short, CommitFails, Abort, Victim, Rollback
  <2>5. CASE Edit(p) \/ AddLine(p) \/ Discard(p) \/ Decline(p) \/ Submit(p) \/ Approve(p) \/ Reject(p)
    <3>1. \E new : Finish(p, new)
      <4>1. CASE Edit(p) \/ AddLine(p)
        <5>1. CASE Edit(p)
          BY <5>1 DEF Edit
        <5>2. CASE AddLine(p)
          BY <5>2 DEF AddLine
        <5> QED BY <4>1, <5>1, <5>2
      <4>2. CASE Discard(p) \/ Decline(p)
        BY <4>2 DEF Discard, Decline
      <4>3. CASE Submit(p)
        BY <4>3 DEF Submit
      <4>4. CASE Approve(p) \/ Reject(p)
        BY <4>4 DEF Approve, Reject, Decide
      <4> QED BY <2>5, <4>1, <4>2, <4>3, <4>4
    <3> QED BY <2>2, <3>1
  <2> QED BY <2>1, <2>3, <2>4, <2>5 DEF Goes
<1> QED BY <1>1, <1>2

\* No balance inside the books is ever below nothing, as committed and as anybody sees it.
LEMMA StockAlways == Spec => [](IInv /\ StockInv)
BY IInvInit, IInvNext, StockInit, StockNext, PTL DEF Spec

-----------------------------------------------------------------------------
(* The books.                                                              *)

\* A document of one of these statuses has nothing in its ledger.
Unposted == {"ABSENT", "DRAFT", "PENDING", "REJECTED", "PENDING_APPROVAL", "APPROVED", "DECLINED"}

\* What a posting or a void will have written to the ledger of what it has taken up.
Path(t) == t.made \o t.moving

\* The lines a posting took up, and how many of them it has done.
LinesIn(t) == Sheet[t.doc].versions[t.version]
Did(t) == Len(LinesIn(t)) - Len(t.todo)

\* A posting has made movements for its first lines, each in full, and has the others to do.
Posts(t) ==
    /\ t.version \in DOMAIN Sheet[t.doc].versions /\ Did(t) >= 0
    /\ \A i \in DOMAIN t.todo : t.todo[i] = Did(t) + i
    /\ \A i \in DOMAIN Path(t) : Path(t)[i].reverses = 0
    /\ \A k \in DOMAIN LinesIn(t) :
          Carries(Path(t), k) = IF k <= Did(t) THEN LinesIn(t)[k].qty ELSE 0

\* A void reverses what stands, unless the document was overtaken or another has voided it.
Voids(t, st, over, L) ==
    /\ t.todo = << >>
    /\ \A i \in DOMAIN Path(t) : Undoes(Path(t)[i], L)
    /\ \A i, j \in DOMAIN Path(t) : Path(t)[i].reverses = Path(t)[j].reverses => i = j
    /\ ~over => \/ st = "VOID"
                \/ st = "POSTED" /\ StandingIn(L) = {Path(t)[i].reverses : i \in DOMAIN Path(t)}

\* A transaction against its document as that is now.
TxnSound(t, st, over, L) ==
    /\ t.op \in {"POST"} \cup Of(t.doc).also
    /\ "VOID" \in Of(t.doc).also /\ t.status = "POSTED" /\ ~over => st \in {"POSTED", "VOID"}
    /\ t.begun => \/ t.op = "POST" /\ t.status \in Of(t.doc).postable /\ Posts(t)
                  \/ t.op = "VOID" /\ t.status = "POSTED" /\ Voids(t, st, over, L)

DocIsSound(d) == DocSound(d, status[d], version[d], overtaken[d], ledger[d])
TxnIsSound(p) ==
    Busy(p) => TxnSound(txn[p], status[DocOf(p)], overtaken[DocOf(p)], ledger[DocOf(p)])

BooksInv ==
    /\ DOMAIN status = Docs /\ overtaken \in [Docs -> BOOLEAN]
    /\ \A d \in Docs : DocIsSound(d)
    /\ \A p \in Procs : TxnIsSound(p)

\* What the kinds of document have in common.
LEMMA ProtocolFacts ==
  ASSUME NEW d \in Docs
  PROVE  /\ Of(d).posted \notin Unposted /\ Of(d).posted # "VOID"
         /\ Of(d).postable \subseteq Unposted /\ Of(d).first \in Unposted
         /\ "POST" \notin Of(d).also
         /\ "VOID" \in Of(d).also => Of(d).posted = "POSTED" /\ Sheet[d].kind \in {"GATE_IN", "RETURN"}
<1> DEFINE k == Sheet[d].kind
           P == Of(d)
<1>1. k \in Kinds /\ P = Protocol[k]
  BY SheetAssumption DEF Of
<1> HIDE DEF k, P
<1>2. CASE k \in {"GATE_IN", "RETURN"}
  <2>1. P = GateIn
    BY <1>1, <1>2 DEF Protocol
  <2>2. P.posted = "POSTED" /\ P.postable = {"DRAFT"} /\ P.first = "DRAFT" /\ "POST" \notin P.also
    BY <2>1 DEF GateIn
  <2> QED BY <1>2, <2>2 DEF P, k, Unposted
<1>3. CASE k = "CLOSEOUT"
  <2>1. P = Closeout
    BY <1>1, <1>3 DEF Protocol
  <2>2. P.posted = "SUBMITTED" /\ P.postable = {"DRAFT"} /\ P.first = "DRAFT"
        /\ "POST" \notin P.also /\ "VOID" \notin P.also
    BY <2>1 DEF Closeout
  <2> QED BY <2>2 DEF P, Unposted
<1>4. CASE k = "HANDOVER"
  <2>1. P = Handover
    BY <1>1, <1>4 DEF Protocol
  <2>2. P.posted = "ACKNOWLEDGED" /\ P.postable = {"PENDING"} /\ P.first = "PENDING"
        /\ "POST" \notin P.also /\ "VOID" \notin P.also
    BY <2>1 DEF Handover
  <2> QED BY <2>2 DEF P, Unposted
<1>5. CASE k = "DISPOSITION"
  <2>1. P = Disposition
    BY <1>1, <1>5 DEF Protocol
  <2>2. P.posted = "POSTED" /\ P.postable = {"APPROVED"} /\ P.first = "DRAFT"
        /\ "POST" \notin P.also /\ "VOID" \notin P.also
    BY <2>1 DEF Disposition
  <2> QED BY <2>2 DEF P, Unposted
<1>6. CASE k = "DISPOSAL"
  <2>1. P = Disposal
    BY <1>1, <1>6 DEF Protocol
  <2>2. P.posted = "DISPOSED" /\ P.postable = {"APPROVED"} /\ P.first = "DRAFT"
        /\ "POST" \notin P.also /\ "VOID" \notin P.also
    BY <2>1 DEF Disposal, Disposition
  <2> QED BY <2>2 DEF P, Unposted
<1>7. CASE k = "COUNT"
  <2>1. P = Count
    BY <1>1, <1>7 DEF Protocol
  <2>2. P.posted = "POSTED" /\ P.postable = {"DRAFT"} /\ P.first = "DRAFT"
        /\ "POST" \notin P.also /\ "VOID" \notin P.also
    BY <2>1 DEF Count
  <2> QED BY <2>2 DEF P, Unposted
<1>8. CASE k = "TRANSFER"
  <2>1. P = Transfer
    BY <1>1, <1>8 DEF Protocol
  <2>2. P.posted = "POSTED" /\ P.postable = {"DRAFT"} /\ P.first = "DRAFT"
        /\ "POST" \notin P.also /\ "VOID" \notin P.also
    BY <2>1 DEF Transfer
  <2> QED BY <2>2 DEF P, Unposted
<1> QED BY <1>1, <1>2, <1>3, <1>4, <1>5, <1>6, <1>7, <1>8 DEF Kinds

\* Of an unposted document nothing is told but that nothing stands.
LEMMA TellsNothing ==
  ASSUME NEW d \in Docs, NEW st \in Unposted, NEW v, NEW L
  PROVE  Tells(d, st, v, L) <=> StandingIn(L) = {}
<1>1. st # Of(d).posted
  BY ProtocolFacts
<1> QED BY <1>1 DEF Tells

\* There is nothing to tell at first.
LEMMA BooksInit == Init => BooksInv
<1> SUFFICES ASSUME Init PROVE BooksInv
  OBVIOUS
<1>1. \A p \in Procs : ~Busy(p)
  BY DEF Init, Busy
<1>2. /\ DOMAIN status = Docs /\ overtaken \in [Docs -> BOOLEAN]
      /\ \A d \in Docs : status[d] \in Unposted
  <2>1. PICK there \in Present : status = [d \in Docs |-> IF d \in there THEN Of(d).first ELSE "ABSENT"]
    BY DEF Init
  <2>2. \A d \in Docs : Of(d).first \in Unposted
    BY ProtocolFacts
  <2>3. "ABSENT" \in Unposted
    BY DEF Unposted
  <2>4. overtaken \in [Docs -> BOOLEAN]
    BY DEF Init
  <2> QED BY <2>1, <2>2, <2>3, <2>4
<1>3. ASSUME NEW d \in Docs PROVE DocIsSound(d)
  <2>1. ledger[d] = << >>
    BY DEF Init
  <2>2. StandingIn(ledger[d]) = {} /\ ReversedOnce(ledger[d])
    BY <2>1 DEF StandingIn, ReversedOnce
  <2>3. Tells(d, status[d], version[d], ledger[d])
    BY <1>2, <2>2, TellsNothing
  <2>4. \A k \in DOMAIN ledger[d] : ledger[d][k].reverses # 0 => Undoes(ledger[d][k], ledger[d])
    BY <2>1
  <2> QED BY <2>2, <2>3, <2>4 DEF DocIsSound, DocSound
<1> QED BY <1>1, <1>2, <1>3 DEF BooksInv, TxnIsSound

\* A step of p on document d that leaves the other documents alone.
LEMMA BooksStep ==
  ASSUME IInv, BooksInv, NEW p \in Procs, NEW d \in Docs,
         \A q \in Procs \ {p} : txn'[q] = txn[q],
         DOMAIN status' = Docs, overtaken' \in [Docs -> BOOLEAN],
         \A e \in Docs \ {d} : /\ status'[e] = status[e] /\ version'[e] = version[e]
                               /\ overtaken'[e] = overtaken[e] /\ ledger'[e] = ledger[e],
         DocSound(d, status'[d], version'[d], overtaken'[d], ledger'[d]),
         \A q \in Procs \ {p} : Busy(q) /\ txn[q].doc = d =>
              TxnSound(txn[q], status'[d], overtaken'[d], ledger'[d]),
         txn'[p] # NoTxn => /\ txn'[p].doc = d
                            /\ TxnSound(txn'[p], status'[d], overtaken'[d], ledger'[d])
  PROVE  BooksInv'
<1>1. ASSUME NEW e \in Docs PROVE DocIsSound(e)'
  <2>1. CASE e = d
    BY <2>1 DEF DocIsSound
  <2>2. CASE e # d
    BY <2>2 DEF BooksInv, DocIsSound
  <2> QED BY <2>1, <2>2
<1>2. ASSUME NEW q \in Procs PROVE TxnIsSound(q)'
  <2>1. CASE q = p
    BY <2>1 DEF TxnIsSound, DocOf, Busy
  <2>2. CASE q # p
    <3> SUFFICES ASSUME Busy(q)
                 PROVE  LET e == txn[q].doc
                        IN  TxnSound(txn[q], status'[e], overtaken'[e], ledger'[e])
      BY <2>2 DEF TxnIsSound, DocOf, Busy
    <3>1. txn[q].doc \in Docs
      BY DEF IInv, ProcInv, TxnTyped
    <3>2. CASE txn[q].doc = d
      BY <2>2, <3>2
    <3>3. CASE txn[q].doc # d
      BY <2>2, <3>1, <3>3 DEF BooksInv, TxnIsSound, DocOf
    <3> QED BY <3>2, <3>3
  <2> QED BY <2>1, <2>2
<1> QED BY <1>1, <1>2 DEF BooksInv

\* A step of p in its own transaction.
LEMMA BooksWithin ==
  ASSUME IInv, BooksInv, NEW p \in Procs, NEW t, txn' = [txn EXCEPT ![p] = t],
         UNCHANGED <<status, version, ledger, overtaken>>,
         t.doc \in Docs, TxnSound(t, status[t.doc], overtaken[t.doc], ledger[t.doc])
  PROVE  BooksInv'
<1> DEFINE d == t.doc
<1>1. txn'[p] = t /\ \A q \in Procs \ {p} : txn'[q] = txn[q]
  BY DEF IInv, BooksTyped
<1>2. DocSound(d, status[d], version[d], overtaken[d], ledger[d])
  BY DEF BooksInv, DocIsSound
<1>3. \A q \in Procs \ {p} : Busy(q) /\ txn[q].doc = d =>
              TxnSound(txn[q], status[d], overtaken[d], ledger[d])
  BY DEF BooksInv, TxnIsSound, DocOf
<1>4. DOMAIN status = Docs /\ overtaken \in [Docs -> BOOLEAN]
  BY DEF BooksInv
<1> QED BY <1>1, <1>2, <1>3, <1>4, BooksStep

\* A transaction that ends without a trace.
LEMMA BooksEnd ==
  ASSUME IInv, BooksInv, NEW p \in Procs, Rollback(p)
  PROVE  BooksInv'
<1>1. /\ txn'[p] = NoTxn /\ \A q \in Procs \ {p} : txn'[q] = txn[q]
      /\ UNCHANGED <<status, version, ledger, overtaken>>
  BY DEF IInv, BooksTyped, Rollback, docVars
<1>2. \A d \in Docs : DocIsSound(d)'
  BY <1>1 DEF BooksInv, DocIsSound
<1>3. \A q \in Procs : TxnIsSound(q)'
  BY <1>1 DEF BooksInv, TxnIsSound, DocOf, Busy
<1> QED BY <1>1, <1>2, <1>3 DEF BooksInv

\* get_object() reads the document as it is.
LEMMA BooksLoad ==
  ASSUME IInv, BooksInv, NEW p \in Procs, Load(p)
  PROVE  BooksInv'
<1>1. PICK d \in Docs : \E op \in {"POST"} \cup Of(d).also : txn' = [txn EXCEPT ![p] = Opened(d, op)]
  BY DEF Load
<1> PICK op \in {"POST"} \cup Of(d).also : txn' = [txn EXCEPT ![p] = Opened(d, op)]
  BY <1>1
<1> DEFINE t == Opened(d, op)
<1>2. UNCHANGED <<status, version, ledger, overtaken>>
  BY DEF Load, docVars, bookVars
<1>3. t.doc = d /\ t.op = op /\ t.status = status[d] /\ t.begun = FALSE
  BY DEF Opened
<1> HIDE DEF t
<1>4. TxnSound(t, status[d], overtaken[d], ledger[d])
  BY <1>3 DEF TxnSound
<1> QED BY <1>2, <1>3, <1>4, BooksWithin DEF t

\* What is the same to the books.
Alike(u, t) ==
    /\ u.doc = t.doc /\ u.op = t.op /\ u.status = t.status /\ u.begun = t.begun
    /\ u.version = t.version /\ u.todo = t.todo /\ Path(u) = Path(t)

\* It is as sound.
LEMMA AlikeIsSound ==
  ASSUME NEW t, NEW u, Alike(u, t), NEW st, NEW over, NEW L, TxnSound(t, st, over, L)
  PROVE  TxnSound(u, st, over, L)
<1>1. Posts(t) => Posts(u)
  BY DEF Alike, Posts, Did, LinesIn
<1>2. Voids(t, st, over, L) => Voids(u, st, over, L)
  BY DEF Alike, Voids
<1> QED BY <1>1, <1>2 DEF Alike, TxnSound

\* A posting has all of its lines to do, and has made nothing for any.
LEMMA BooksBeginPost ==
  ASSUME IInv, StockInv, BooksInv, NEW p \in Procs, BeginPost(p)
  PROVE  BooksInv'
<1> DEFINE d == DocOf(p)
           t == txn[p]
           v == version[d]
           lines == Sheet[d].versions[v]
           u == [t EXCEPT !.begun = TRUE, !.need = Of(d).series, !.version = v,
                          !.todo = [k \in DOMAIN LinesOf(d) |-> k]]
<1>1. txn' = [txn EXCEPT ![p] = u] /\ UNCHANGED <<status, version, ledger, overtaken>>
  BY DEF BeginPost, docVars, bookVars
<1>2. /\ Busy(p) /\ TxnTyped(t) /\ Holds(p, t) /\ ~t.begun /\ t.op = "POST" /\ d \in Docs
      /\ t.status \in Of(d).postable /\ d = t.doc
  BY DEF BeginPost, MayBegin, Loaded, IInv, ProcInv, StockInv, Holding, TxnTyped, DocOf
<1>3. TxnSound(t, status[d], overtaken[d], ledger[d])
  BY <1>2 DEF BooksInv, TxnIsSound
<1>4. v \in DOMAIN Sheet[d].versions /\ lines \in Seq(Line) /\ LinesOf(d) = lines
  BY <1>2, SheetAssumption DEF IInv, BooksTyped, LinesOf
<1>5. /\ u.doc = d /\ u.op = t.op /\ u.status = t.status /\ u.begun = TRUE /\ u.version = v
      /\ u.todo = [k \in DOMAIN lines |-> k] /\ u.made = t.made /\ u.moving = t.moving
  BY <1>2, <1>4 DEF TxnTyped, Fields
<1>6. Path(u) = << >>
  BY <1>2, <1>5 DEF Holds, Path
<1> HIDE DEF t, u, d, v, lines
<1>7. /\ Len(lines) \in Nat /\ DOMAIN lines = 1 .. Len(lines)
      /\ Len(u.todo) = Len(lines) /\ DOMAIN u.todo = DOMAIN lines
      /\ \A i \in DOMAIN u.todo : u.todo[i] = i
  <2>1. Len(lines) \in Nat /\ DOMAIN lines = 1 .. Len(lines)
    BY <1>4, LenProperties
  <2>2. u.todo \in Seq(Nat) /\ DOMAIN u.todo = 1 .. Len(lines)
    BY <1>5, <2>1
  <2> QED BY <1>5, <2>1, <2>2
<1>8. Posts(u)
  <2>1. LinesIn(u) = lines
    BY <1>5 DEF lines, LinesIn
  <2>2. Did(u) = 0
    BY <1>7, <2>1 DEF Did
  <2>3. \A i \in DOMAIN u.todo : u.todo[i] = 0 + i
    BY <1>7
  <2>4. \A i \in DOMAIN Path(u) : Path(u)[i].reverses = 0
    BY <1>6
  <2>5. \A k \in DOMAIN lines : Carries(Path(u), k) = IF k <= 0 THEN lines[k].qty ELSE 0
    <3>1. \A k \in DOMAIN lines : ~ (k <= 0)
      BY <1>7
    <3> QED BY <1>6, <3>1, CarriesNothing
  <2> QED BY <1>4, <1>5, <2>1, <2>2, <2>3, <2>4, <2>5 DEF Posts
<1>9. TxnSound(u, status[d], overtaken[d], ledger[d])
  BY <1>2, <1>3, <1>5, <1>8 DEF TxnSound
<1> QED BY <1>1, <1>2, <1>5, <1>9, BooksWithin

\* The movements of ms reverse each row that stands in L, once.
Empties(ms, L) ==
    /\ \A i \in DOMAIN ms : Undoes(ms[i], L)
    /\ \A i, j \in DOMAIN ms : ms[i].reverses = ms[j].reverses => i = j
    /\ StandingIn(L) = {ms[i].reverses : i \in DOMAIN ms}

\* That is what a void has to do.
LEMMA ReversalsAre ==
  ASSUME IInv, NEW d \in Docs, NEW ms \in Reversals(d)
  PROVE  Empties(ms, ledger[d])
<1> DEFINE L == ledger[d]
           S == Standing(d)
           n == Cardinality(S)
<1>1. PICK s \in [1 .. n -> S] :
        /\ \A i, j \in DOMAIN s : i < j => s[i] < s[j]
        /\ ms = [i \in DOMAIN s |-> ReversalOf(d, s[i])]
  BY DEF Reversals
<1>2. S = StandingIn(L) /\ S \subseteq DOMAIN L /\ \A k \in S : L[k].reverses = 0
  BY DEF Standing, StandingIn
<1>3. \A k : ReversalOf(d, k) = Back(L, k)
  BY DEF ReversalOf, Back
<1>4. L \in Seq(Moved)
  BY DEF IInv, BooksTyped
<1>5. IsFiniteSet(S) /\ n \in Nat /\ DOMAIN L \subseteq Nat \ {0}
  BY <1>2, <1>4, Positions, FS_CardinalityType
<1> HIDE DEF L, S, n
<1>6. DOMAIN ms = 1 .. n /\ \A i \in 1 .. n : s[i] \in S /\ ms[i] = Back(L, s[i]) /\ ms[i].reverses = s[i]
  <2>1. DOMAIN ms = 1 .. n /\ \A i \in 1 .. n : s[i] \in S /\ ms[i] = Back(L, s[i])
    BY <1>1, <1>3
  <2> QED BY <2>1 DEF Back
<1>7. \A i, j \in 1 .. n : s[i] = s[j] => i = j
  <2> SUFFICES ASSUME NEW i \in 1 .. n, NEW j \in 1 .. n, s[i] = s[j], i # j PROVE FALSE
    OBVIOUS
  <2>1. s[i] \in Nat /\ s[j] \in Nat
    BY <1>2, <1>5
  <2>2. CASE i < j
    <3>1. s[i] < s[j]
      BY <1>1, <2>2
    <3> QED BY <2>1, <3>1
  <2>3. CASE j < i
    <3>1. s[j] < s[i]
      BY <1>1, <2>3
    <3> QED BY <2>1, <3>1
  <2> QED BY <1>5, <2>2, <2>3
<1>8. \A k \in S : \E i \in 1 .. n : s[i] = k
  <2>1. s \in Injection(1 .. n, S)
    BY <1>1, <1>7 DEF Injection, IsInjective
  <2>2. Cardinality(1 .. n) = Cardinality(S)
    <3>1. Cardinality(1 .. n) = n
      BY <1>5, FS_Interval
    <3> QED BY <3>1 DEF n
  <2>3. s \in Surjection(1 .. n, S)
    BY <1>5, <2>1, <2>2, FS_Injection
  <2> QED BY <2>3 DEF Surjection
<1>9. \A i \in DOMAIN ms : Undoes(ms[i], L)
  BY <1>2, <1>6 DEF Undoes
<1>10. \A i, j \in DOMAIN ms : ms[i].reverses = ms[j].reverses => i = j
  BY <1>6, <1>7
<1>11. StandingIn(L) = {ms[i].reverses : i \in DOMAIN ms}
  BY <1>2, <1>6, <1>8
<1>12. Empties(ms, L)
  BY <1>9, <1>10, <1>11 DEF Empties
<1> QED BY <1>12 DEF L

\* A void has all that stands to reverse.
LEMMA BooksBeginVoid ==
  ASSUME IInv, StockInv, BooksInv, NEW p \in Procs, BeginVoid(p)
  PROVE  BooksInv'
<1> DEFINE d == DocOf(p)
           t == txn[p]
           L == ledger[d]
<1>1. PICK ms \in Reversals(d) :
         txn' = [txn EXCEPT ![p] = [t EXCEPT !.begun = TRUE, !.version = version[d],
                        !.moving = ms, !.need = Wanted(ms)]]
  BY Zenon DEF BeginVoid
<1> DEFINE u == [t EXCEPT !.begun = TRUE, !.version = version[d], !.moving = ms, !.need = Wanted(ms)]
<1>2. txn' = [txn EXCEPT ![p] = u] /\ UNCHANGED <<status, version, ledger, overtaken>>
  BY <1>1 DEF BeginVoid, docVars, bookVars
<1>3. /\ Busy(p) /\ TxnTyped(t) /\ Holds(p, t) /\ ~t.begun /\ t.op = "VOID" /\ d \in Docs
      /\ t.status = "POSTED" /\ d = t.doc /\ t.todo = << >>
  BY DEF BeginVoid, Loaded, IInv, ProcInv, StockInv, Holding, TxnTyped, DocOf
<1>4. TxnSound(t, status[d], overtaken[d], L)
  BY <1>3 DEF BooksInv, TxnIsSound
<1>5. /\ u.doc = d /\ u.op = t.op /\ u.status = t.status /\ u.begun = TRUE
      /\ u.todo = t.todo /\ u.made = t.made /\ u.moving = ms
  BY <1>3 DEF TxnTyped, Fields
<1>6. Path(u) = ms
  <2>1. ms \in Seq(Moved)
    BY <1>3, ReversalsAreMoved DEF IInv
  <2>2. u.made = << >>
    BY <1>3, <1>5 DEF Holds
  <2> HIDE DEF u
  <2> QED BY <1>5, <2>1, <2>2 DEF Path
<1>7. Empties(ms, L)
  BY <1>3, ReversalsAre
<1> HIDE DEF t, u, d, L
<1>8. ~overtaken[d] => status[d] \in {"POSTED", "VOID"}
  <2>1. "VOID" \in Of(d).also
    BY <1>3, <1>4 DEF TxnSound
  <2> QED BY <1>3, <1>4, <2>1 DEF TxnSound
<1>9. Voids(u, status[d], overtaken[d], L)
  BY <1>3, <1>5, <1>6, <1>7, <1>8 DEF Voids, Empties
<1>10. TxnSound(u, status[d], overtaken[d], L)
  BY <1>3, <1>4, <1>5, <1>9 DEF TxnSound
<1> QED BY <1>2, <1>3, <1>5, <1>10, BooksWithin DEF L

\* ms adds qty for line k to what s carries, and reverses nothing.
Adds(s, ms, k, qty) ==
    /\ \A i \in DOMAIN ms : ms[i].reverses = 0
    /\ \A j : Carries(s \o ms, j) = Carries(s, j) + (IF j = k THEN qty ELSE 0)

\* Where no row is below nothing, that is what a line becomes.
LEMMA LineCarries ==
  ASSUME NEW p \in Procs, TxnTyped(txn[p]), Holds(p, txn[p]), bal \in [Rows -> Int],
         NEW k, NEW qty \in Nat, NEW ms \in Seq(Moved), Brings(p, ms, k, qty),
         NEW s \in Seq(Moved)
  PROVE  Adds(s, ms, k, qty)
<1>2. \A r \in Rows : Seen(p, r) \in Int /\ (Guarded(r) => Seen(p, r) >= 0)
  <2>1. \A r \in Rows : bal[r] \in Int /\ txn[p].delta[r] \in Int
    BY DEF TxnTyped
  <2>2. \A r \in Rows : Guarded(r) => bal[r] + txn[p].delta[r] >= 0
    BY DEF Holds
  <2> QED BY <2>1, <2>2 DEF Seen
<1>3. \A m \in Moved : m.qty \in Int
  BY DEF Moved
<1>4. CASE \E m : /\ ms = <<m>> /\ m \in Moved /\ m.line = k /\ m.reverses = 0 /\ m.qty = qty
  <2>1. PICK m \in Moved : ms = <<m>> /\ m.line = k /\ m.reverses = 0 /\ m.qty = qty
    BY <1>4
  <2>2. s \o ms = Append(s, m) /\ \A i \in DOMAIN ms : ms[i] = m
    BY <2>1
  <2>3. \A j : Carries(Append(s, m), j) = Carries(s, j) + (IF m.line = j THEN m.qty ELSE 0)
    BY CarriesMore
  <2> QED BY <2>1, <2>2, <2>3 DEF Adds
<1>5. CASE \E m, n : /\ ms = <<m, n>> /\ m \in Moved /\ n \in Moved
                     /\ m.line = k /\ n.line = k /\ m.reverses = 0 /\ n.reverses = 0
                     /\ m.qty > 0 /\ n.qty > 0 /\ m.qty + n.qty = qty
  <2>1. PICK m \in Moved, n \in Moved : /\ ms = <<m, n>> /\ m.line = k /\ n.line = k
                                       /\ m.reverses = 0 /\ n.reverses = 0 /\ m.qty + n.qty = qty
    BY <1>5
  <2> DEFINE u == Append(s, m)
  <2>2. s \o ms = Append(u, n) /\ u \in Seq(Moved)
    BY <2>1, PairAdded
  <2>3. \A i \in DOMAIN ms : ms[i].reverses = 0
    BY <2>1
  <2>4. ASSUME NEW j PROVE Carries(s \o ms, j) = Carries(s, j) + (IF j = k THEN qty ELSE 0)
    <3>1. Carries(s, j) \in Int /\ Carries(u, j) = Carries(s, j) + (IF m.line = j THEN m.qty ELSE 0)
      BY CarriesMore
    <3> HIDE DEF u
    <3>2. Carries(Append(u, n), j) = Carries(u, j) + (IF n.line = j THEN n.qty ELSE 0)
      BY <2>2, CarriesMore
    <3>3. CASE j = k
      <4>1. Carries(u, j) = Carries(s, j) + m.qty /\ Carries(s \o ms, j) = Carries(u, j) + n.qty
        BY <2>1, <2>2, <3>1, <3>2, <3>3
      <4> QED BY <1>3, <2>1, <3>1, <3>3, <4>1
    <3>4. CASE j # k
      <4>1. Carries(u, j) = Carries(s, j) + 0 /\ Carries(s \o ms, j) = Carries(u, j) + 0
        BY <2>1, <2>2, <3>1, <3>2, <3>4
      <4> QED BY <3>1, <3>4, <4>1
    <3> QED BY <3>3, <3>4
  <2> QED BY <2>3, <2>4 DEF Adds
<1>6. CASE \E m, r : /\ ms = <<m>> /\ m \in Moved /\ m.line = k /\ m.reverses = 0 /\ m.qty >= qty
                     /\ r \in Rows /\ Guarded(r) /\ m.qty = qty - Seen(p, r) /\ Seen(p, r) <= 0
  <2>1. PICK m \in Moved, r \in Rows :
               /\ ms = <<m>> /\ m.line = k /\ m.reverses = 0
               /\ Guarded(r) /\ m.qty = qty - Seen(p, r) /\ Seen(p, r) <= 0
    BY <1>6
  <2>2. m.qty = qty
    BY <1>2, <2>1
  <2> QED BY <1>4, <2>1, <2>2
<1> QED BY <1>4, <1>5, <1>6 DEF Brings

\* The next line is done in full.
LEMMA BooksNextLine ==
  ASSUME IInv, StockInv, BooksInv, NEW p \in Procs, NextLine(p)
  PROVE  BooksInv'
<1> DEFINE d == DocOf(p)
           t == txn[p]
           k == Head(t.todo)
           ms == Sources(p, k)
           lines == Sheet[d].versions[t.version]
           u == [t EXCEPT !.moving = ms, !.need = Wanted(ms), !.todo = Tail(@)]
<1>1. txn' = [txn EXCEPT ![p] = u] /\ UNCHANGED <<status, version, ledger, overtaken>>
  <2>1. txn' = [txn EXCEPT ![p] = u]
    BY DEF NextLine
  <2>2. UNCHANGED <<docVars, bookVars, overtaken>>
    BY DEF NextLine
  <2> QED BY <2>1, <2>2 DEF docVars, bookVars
<1>2. /\ Busy(p) /\ TxnTyped(t) /\ Holds(p, t) /\ t.begun /\ bal \in [Rows -> Int]
      /\ t.todo # << >> /\ t.moving = << >> /\ d \in Docs /\ d = t.doc
  BY DEF NextLine, Posting, IInv, BooksTyped, ProcInv, StockInv, Holding, TxnTyped, DocOf
<1>3. TxnSound(t, status[d], overtaken[d], ledger[d])
  BY <1>2 DEF BooksInv, TxnIsSound
<1>4. t.op = "POST" /\ t.status \in Of(d).postable /\ Posts(t)
  BY <1>2, <1>3 DEF TxnSound, Voids
<1>5. /\ t.version \in DOMAIN Sheet[d].versions /\ lines \in Seq(Line)
      /\ Len(lines) \in Nat /\ DOMAIN lines = 1 .. Len(lines)
  BY <1>2, <1>4, LenProperties, SheetAssumption DEF Posts
<1>6. /\ t.todo \in Seq(Nat) /\ Len(t.todo) \in Nat \ {0} /\ DOMAIN t.todo = 1 .. Len(t.todo)
      /\ k = t.todo[1] /\ Tail(t.todo) \in Seq(Nat) /\ Len(Tail(t.todo)) = Len(t.todo) - 1
      /\ DOMAIN Tail(t.todo) = 1 .. Len(t.todo) - 1
      /\ \A i \in 1 .. Len(t.todo) - 1 : Tail(t.todo)[i] = t.todo[i + 1]
  <2>1. t.todo \in Seq(Nat)
    BY <1>2 DEF TxnTyped
  <2> QED BY <1>2, <2>1, HeadTailProperties, LenProperties, EmptySeq
<1>7. k \in DOMAIN lines
  <2>1. t.todo[1] \in DOMAIN lines
    BY <1>2, <1>6 DEF TxnTyped
  <2> QED BY <1>6, <2>1
<1>8. t.made \in Seq(Moved) /\ ms \in Seq(Moved) /\ Path(t) = t.made
  <2>1. t.made \in Seq(Moved)
    BY <1>2 DEF TxnTyped
  <2>2. ms \in Seq(Moved)
    <3> HIDE DEF k
    <3> QED BY <1>2, <1>5, <1>7, SourcesAre
  <2> HIDE DEF ms, t
  <2>3. t.made \o << >> = t.made
    BY <2>1
  <2> QED BY <1>2, <2>1, <2>2, <2>3 DEF Path
<1>9. Adds(t.made, ms, k, lines[k].qty)
  <2> DEFINE qty == lines[k].qty
  <2>1. qty = Sheet[DocOf(p)].versions[txn[p].version][k].qty
    OBVIOUS
  <2> HIDE DEF k, qty
  <2>2. qty \in Nat /\ Brings(p, ms, k, qty)
    BY <1>2, <1>5, <1>7, <2>1, SourcesAre
  <2> HIDE DEF ms
  <2>3. Adds(t.made, ms, k, qty)
    BY <1>2, <1>8, <2>2, LineCarries
  <2> QED BY <2>3 DEF qty
<1>10. /\ u.doc = t.doc /\ u.op = t.op /\ u.status = t.status /\ u.begun = t.begun
       /\ u.version = t.version /\ u.todo = Tail(t.todo) /\ u.made = t.made /\ u.moving = ms
  BY <1>2 DEF TxnTyped, Fields
<1>11. lines[k].qty \in Int
  <2>1. lines[k] \in Line
    BY <1>5, <1>7, ElementOfSeq
  <2> QED BY <2>1 DEF Line
<1>12. LinesIn(t) = lines
  BY <1>2 DEF LinesIn
<1> HIDE DEF t, u, d, k, ms, lines
<1>13. /\ Did(t) = Len(lines) - Len(t.todo) /\ Did(t) \in Nat
       /\ k = Did(t) + 1 /\ LinesIn(u) = lines /\ Did(u) = Did(t) + 1
  <2>1. Did(t) = Len(lines) - Len(t.todo) /\ Did(t) >= 0 /\ k = Did(t) + 1
    <3>1. Did(t) >= 0 /\ \A i \in DOMAIN t.todo : t.todo[i] = Did(t) + i
      BY <1>4 DEF Posts
    <3>2. 1 \in DOMAIN t.todo
      BY <1>6
    <3>3. k = Did(t) + 1
      BY <1>6, <3>1, <3>2
    <3>4. Did(t) = Len(lines) - Len(t.todo)
      BY <1>12 DEF Did
    <3> QED BY <3>1, <3>3, <3>4
  <2>2. LinesIn(u) = lines
    BY <1>10, <1>12 DEF LinesIn
  <2>3. Did(u) = Len(lines) - Len(u.todo)
    BY <2>2 DEF Did
  <2>4. Len(lines) \in Nat /\ Len(t.todo) \in Nat /\ Len(u.todo) = Len(t.todo) - 1
    BY <1>5, <1>6, <1>10
  <2> QED BY <2>1, <2>2, <2>3, <2>4
<1>14. Path(u) = t.made \o ms
  BY <1>10 DEF Path
<1>15. Posts(u)
  <2>2. Did(u) >= 0 /\ \A i \in DOMAIN u.todo : u.todo[i] = Did(u) + i
    <3>1. ASSUME NEW i \in 1 .. Len(t.todo) - 1 PROVE Tail(t.todo)[i] = Did(u) + i
      <4>1. i + 1 \in DOMAIN t.todo
        BY <1>6
      <4>2. t.todo[i + 1] = Did(t) + (i + 1)
        BY <1>4, <4>1 DEF Posts
      <4>3. Tail(t.todo)[i] = t.todo[i + 1]
        BY <1>6
      <4>4. i \in Int /\ Did(t) \in Int /\ Did(u) = Did(t) + 1
        BY <1>6, <1>13
      <4> QED BY <4>2, <4>3, <4>4
    <3>2. u.todo = Tail(t.todo) /\ DOMAIN u.todo = 1 .. Len(t.todo) - 1
      BY <1>6, <1>10
    <3>3. Did(u) >= 0
      BY <1>13
    <3> HIDE DEF Did
    <3> QED BY <3>1, <3>2, <3>3
  <2>3. \A i \in DOMAIN Path(u) : Path(u)[i].reverses = 0
    <3>1. /\ DOMAIN (t.made \o ms) = 1 .. Len(t.made) + Len(ms)
          /\ \A i \in DOMAIN (t.made \o ms) : i \in DOMAIN t.made \/ \E j \in DOMAIN ms : i = Len(t.made) + j
          /\ \A i \in DOMAIN t.made : (t.made \o ms)[i] = t.made[i]
          /\ \A i \in DOMAIN ms : (t.made \o ms)[Len(t.made) + i] = ms[i]
      BY <1>8, Joined
    <3>2. \A i \in DOMAIN t.made : t.made[i].reverses = 0
      BY <1>4, <1>8 DEF Posts
    <3>3. \A i \in DOMAIN ms : ms[i].reverses = 0
      BY <1>9 DEF Adds
    <3> DEFINE J == t.made \o ms
    <3> HIDE DEF J
    <3>4. ASSUME NEW i \in DOMAIN J PROVE J[i].reverses = 0
      <4>1. CASE i \in DOMAIN t.made
        BY <3>1, <3>2, <4>1 DEF J
      <4>2. CASE i \notin DOMAIN t.made
        <5>1. PICK j \in DOMAIN ms : i = Len(t.made) + j
          BY <3>1, <4>2 DEF J
        <5>2. J[i] = ms[j]
          BY <3>1, <5>1 DEF J
        <5> QED BY <3>3, <5>2
      <4> QED BY <4>1, <4>2
    <3> QED BY <1>14, <3>4 DEF J
  <2>4. ASSUME NEW j \in DOMAIN lines
        PROVE  Carries(Path(u), j) = IF j <= Did(t) + 1 THEN lines[j].qty ELSE 0
    <3>1. Carries(Path(u), j) = Carries(t.made, j) + (IF j = k THEN lines[k].qty ELSE 0)
      BY <1>9, <1>14 DEF Adds
    <3>2. Carries(t.made, j) = IF j <= Did(t) THEN lines[j].qty ELSE 0
      BY <1>4, <1>8, <1>12 DEF Posts
    <3>3. j \in Int /\ lines[j].qty \in Int
      <4>1. lines[j] \in Line
        BY <1>5, ElementOfSeq
      <4> QED BY <1>5, <4>1 DEF Line
    <3>4. k = Did(t) + 1 /\ Did(t) \in Nat /\ lines[k].qty \in Int
      BY <1>11, <1>13
    <3>5. CASE j = k
      BY <3>1, <3>2, <3>3, <3>4, <3>5
    <3>6. CASE j # k
      BY <3>1, <3>2, <3>3, <3>4, <3>6
    <3> QED BY <3>5, <3>6
  <2>5. u.version \in DOMAIN Sheet[u.doc].versions
    BY <1>2, <1>5, <1>10
  <2> QED BY <1>13, <2>2, <2>3, <2>4, <2>5 DEF Posts
<1>16. TxnSound(u, status[d], overtaken[d], ledger[d])
  BY <1>2, <1>3, <1>4, <1>10, <1>15 DEF TxnSound
<1> QED BY <1>1, <1>2, <1>10, <1>16, BooksWithin

\* A lock changes nothing of the books.
LEMMA BooksLock ==
  ASSUME IInv, BooksInv, NEW p \in Procs, Lock(p)
  PROVE  BooksInv'
<1> DEFINE t == txn[p]
           u == [t EXCEPT !.need = Tail(@)]
<1>1. txn' = [txn EXCEPT ![p] = u] /\ UNCHANGED <<status, version, ledger, overtaken>>
  BY DEF Lock, docVars
<1>2. Busy(p) /\ TxnTyped(t) /\ t.doc \in Docs /\ DocOf(p) = t.doc
  BY DEF Lock, Waiting, Posting, IInv, ProcInv, TxnTyped, DocOf
<1>3. Alike(u, t)
  BY <1>2 DEF TxnTyped, Fields, Alike, Path
<1>4. TxnSound(t, status[t.doc], overtaken[t.doc], ledger[t.doc])
  BY <1>2 DEF BooksInv, TxnIsSound
<1> HIDE DEF t, u
<1>5. TxnSound(u, status[t.doc], overtaken[t.doc], ledger[t.doc]) /\ u.doc = t.doc
  BY <1>3, <1>4, AlikeIsSound DEF Alike
<1> QED BY <1>1, <1>2, <1>5, BooksWithin

\* What is made was to be made.
LEMMA BooksMove ==
  ASSUME IInv, BooksInv, NEW p \in Procs, Move(p)
  PROVE  BooksInv'
<1> DEFINE t == txn[p]
           m == Head(t.moving)
           rest == Tail(t.moving)
           u == [t EXCEPT !.delta = Shift(@, m), !.moving = Tail(@),
                          !.need = Wanted(rest), !.made = Append(@, m)]
<1>1. txn' = [txn EXCEPT ![p] = u] /\ UNCHANGED <<status, version, ledger, overtaken>>
  <2>1. txn' = [txn EXCEPT ![p] = u]
    BY DEF Move
  <2>2. UNCHANGED <<docVars, bookVars, overtaken>>
    BY DEF Move
  <2> QED BY <2>1, <2>2 DEF docVars, bookVars
<1>2. Busy(p) /\ TxnTyped(t) /\ t.doc \in Docs /\ DocOf(p) = t.doc /\ t.moving # << >>
  BY DEF Move, Ready, Posting, IInv, ProcInv, TxnTyped, DocOf
<1>3. /\ u.doc = t.doc /\ u.op = t.op /\ u.status = t.status /\ u.begun = t.begun
      /\ u.version = t.version /\ u.todo = t.todo
      /\ u.made = Append(t.made, m) /\ u.moving = rest
  BY <1>2 DEF TxnTyped, Fields
<1>4. TxnSound(t, status[t.doc], overtaken[t.doc], ledger[t.doc])
  BY <1>2 DEF BooksInv, TxnIsSound
<1>5. t.made \in Seq(Moved) /\ t.moving \in Seq(Moved)
  BY <1>2 DEF TxnTyped
<1>6. Append(t.made, m) \o rest = t.made \o t.moving
  <2> HIDE DEF t
  <2> QED BY <1>2, <1>5, TwoInTurn
<1> HIDE DEF t, u, m, rest
<1>7. Alike(u, t)
  BY <1>3, <1>6 DEF Alike, Path
<1>8. TxnSound(u, status[t.doc], overtaken[t.doc], ledger[t.doc]) /\ u.doc = t.doc
  BY <1>4, <1>7, AlikeIsSound DEF Alike
<1> QED BY <1>1, <1>2, <1>8, BooksWithin

\* What a transaction knows of its document stays true while others write to its ledger, or
\* the document is marked as overtaken; a void of another is told by the status.
LEMMA StaysSound ==
  ASSUME NEW v, NEW st, NEW over \in BOOLEAN, NEW L, TxnSound(v, st, over, L),
         NEW st2, NEW over2 \in BOOLEAN, NEW L2, over => over2,
         \A m : Undoes(m, L) => Undoes(m, L2),
         "VOID" \in Of(v.doc).also /\ ~over2 => st2 = "VOID" \/ st \notin {"POSTED", "VOID"}
  PROVE  TxnSound(v, st2, over2, L2)
<1>1. v.op = "VOID" => "VOID" \in Of(v.doc).also
  BY DEF TxnSound
<1>2. "VOID" \in Of(v.doc).also /\ v.status = "POSTED" /\ ~over2 => st2 \in {"POSTED", "VOID"}
  BY DEF TxnSound
<1>3. v.op = "VOID" /\ Voids(v, st, over, L) => Voids(v, st2, over2, L2)
  BY <1>1 DEF Voids
<1> QED BY <1>1, <1>2, <1>3 DEF TxnSound

\* What one commit does to its document.
LEMMA BooksCommit ==
  ASSUME IInv, BooksInv, NEW p \in Procs, Commit(p)
  PROVE  BooksInv'
<1> DEFINE d == DocOf(p)
           t == txn[p]
           L == ledger[d]
           J == L \o t.made
           st == status[d]
           new == StatusAfter(p)
           over == overtaken[d]
           late == over \/ st # t.status \/ version[d] # t.version
<1>1. /\ status' = [status EXCEPT ![d] = new]
      /\ ledger' = [ledger EXCEPT ![d] = J]
      /\ overtaken' = [overtaken EXCEPT ![d] = late]
      /\ txn' = [txn EXCEPT ![p] = NoTxn] /\ version' = version
  BY DEF Commit
<1>2. /\ Busy(p) /\ TxnTyped(t) /\ t.begun /\ t.moving = << >> /\ t.todo = << >>
      /\ d \in Docs /\ d = t.doc
  BY DEF Commit, Done, Posting, IInv, ProcInv, TxnTyped, DocOf
<1>3. /\ DOMAIN status = Docs /\ overtaken \in [Docs -> BOOLEAN]
      /\ DocSound(d, st, version[d], over, L) /\ TxnSound(t, st, over, L)
  BY <1>2 DEF BooksInv, DocIsSound, TxnIsSound
<1>4. /\ L \in Seq(Moved) /\ t.made \in Seq(Moved) /\ DOMAIN ledger = Docs /\ DOMAIN txn = Procs
  BY <1>2 DEF IInv, BooksTyped, TxnTyped
<1>5. new = IF t.op = "VOID" THEN "VOID" ELSE Of(d).posted
  BY DEF StatusAfter
<1>6. ASSUME NEW q \in Procs \ {p}, Busy(q), txn[q].doc = d PROVE TxnSound(txn[q], st, over, L)
  BY <1>6 DEF BooksInv, TxnIsSound, DocOf
<1> DEFINE made == t.made
<1>7. Path(t) = made
  <2> HIDE DEF t
  <2>1. made \o << >> = made
    BY <1>4
  <2> QED BY <1>2, <2>1 DEF Path
<1>8. over \in BOOLEAN /\ late \in BOOLEAN /\ (over => late)
  BY <1>2, <1>3
<1>9. ~late => ~over /\ st = t.status /\ version[d] = t.version
  OBVIOUS
<1>10. J = L \o made
  OBVIOUS
<1> HIDE DEF t, L, J, st, new, over, late, made, d
<1>11. \A m : Undoes(m, L) => Undoes(m, J)
  BY <1>4, <1>10, UndoesStays DEF made
<1>12. made \in Seq(Moved)
  BY <1>4 DEF made
<1>13. /\ DOMAIN J = 1 .. Len(L) + Len(made)
       /\ \A k \in DOMAIN L : k \in DOMAIN J /\ J[k] = L[k]
       /\ \A i \in DOMAIN made : Len(L) + i \in DOMAIN J /\ J[Len(L) + i] = made[i]
       /\ \A k \in DOMAIN J : k \in DOMAIN L \/ \E i \in DOMAIN made : k = Len(L) + i
  BY <1>4, <1>10, <1>12, Joined
<1>14. \A k \in DOMAIN L : L[k].reverses # 0 => Undoes(L[k], L)
  BY <1>3 DEF DocSound
<1>15. ASSUME t.op = "POST"
       PROVE  /\ DocSound(d, new, version[d], late, J)
              /\ "VOID" \in Of(d).also /\ ~late => new = "VOID" \/ st \notin {"POSTED", "VOID"}
  <2>1. new = Of(d).posted /\ t.status \in Of(d).postable /\ Posts(t)
    BY <1>2, <1>3, <1>5, <1>15 DEF TxnSound
  <2>2. \A i \in DOMAIN made : made[i].reverses = 0
    BY <1>7, <2>1 DEF Posts
  <2>3. t.status \in Unposted /\ t.status \notin {"POSTED", "VOID"}
    BY <1>2, <2>1, ProtocolFacts DEF Unposted
  <2>4. \A k \in DOMAIN J : J[k].reverses # 0 => Undoes(J[k], J)
    <3> SUFFICES ASSUME NEW k \in DOMAIN J, J[k].reverses # 0 PROVE Undoes(J[k], J)
      OBVIOUS
    <3>1. k \in DOMAIN L
      BY <1>13, <2>2
    <3> QED BY <1>11, <1>13, <1>14, <3>1
  <2>5. ASSUME ~late PROVE Tells(d, new, version[d], J) /\ ReversedOnce(J)
    <3>1. ~over /\ st = t.status /\ version[d] = t.version
      BY <1>9, <2>5
    <3>2. StandingIn(L) = {} /\ ReversedOnce(L)
      <4>1. Tells(d, st, version[d], L) /\ ReversedOnce(L)
        BY <1>3, <3>1 DEF DocSound
      <4> QED BY <1>2, <2>3, <3>1, <4>1, TellsNothing
    <3>3. \A k : LineSum(J, k) = Carries(made, k)
      BY <1>4, <1>10, <1>12, <1>14, <2>2, <3>2, PostedStands
    <3>4. ReversedOnce(J)
      <4>1. /\ \A i \in DOMAIN made : made[i].reverses # 0 => made[i].reverses \in StandingIn(L)
            /\ \A i, j \in DOMAIN made :
                  made[i].reverses = made[j].reverses /\ made[i].reverses # 0 => i = j
        BY <2>2
      <4> QED BY <1>4, <1>10, <1>12, <3>2, <4>1, JoinedOnce
    <3>5. ASSUME NEW k \in DOMAIN Sheet[d].versions[version[d]]
          PROVE  LineSum(J, k) = Sheet[d].versions[version[d]][k].qty
      <4>1. LinesIn(t) = Sheet[d].versions[version[d]] /\ Len(LinesIn(t)) \in Nat
            /\ DOMAIN LinesIn(t) = 1 .. Len(LinesIn(t))
        <5>1. LinesIn(t) = Sheet[d].versions[version[d]]
          BY <1>2, <3>1 DEF LinesIn
        <5>2. LinesIn(t) \in Seq(Line)
          BY <1>2, <2>1, SheetAssumption DEF Posts, LinesIn
        <5> QED BY <5>1, <5>2, LenProperties
      <4>2. k <= Did(t)
        <5>1. Len(t.todo) = 0
          BY <1>2
        <5> QED BY <4>1, <5>1 DEF Did
      <4>3. Carries(made, k) = LinesIn(t)[k].qty
        BY <1>7, <2>1, <4>1, <4>2 DEF Posts
      <4> QED BY <3>3, <4>1, <4>3
    <3> QED BY <2>1, <3>4, <3>5 DEF Tells
  <2>6. "VOID" \in Of(d).also /\ ~late => new = "VOID" \/ st \notin {"POSTED", "VOID"}
    BY <1>9, <2>3
  <2>7. DocSound(d, new, version[d], late, J)
    BY <2>4, <2>5 DEF DocSound
  <2> QED BY <2>6, <2>7
<1>16. ASSUME t.op = "VOID"
       PROVE  /\ DocSound(d, new, version[d], late, J)
              /\ "VOID" \in Of(d).also /\ ~late => new = "VOID" \/ st \notin {"POSTED", "VOID"}
  <2>1. new = "VOID" /\ t.status = "POSTED" /\ Voids(t, st, over, L)
    BY <1>2, <1>3, <1>5, <1>16 DEF TxnSound
  <2>2. /\ \A i \in DOMAIN made : Undoes(made[i], L)
        /\ \A i, j \in DOMAIN made : made[i].reverses = made[j].reverses => i = j
    BY <1>7, <2>1 DEF Voids
  <2>3. \A k \in DOMAIN J : J[k].reverses # 0 => Undoes(J[k], J)
    <3> SUFFICES ASSUME NEW k \in DOMAIN J, J[k].reverses # 0 PROVE Undoes(J[k], J)
      OBVIOUS
    <3>1. CASE k \in DOMAIN L
      BY <1>11, <1>13, <1>14, <3>1
    <3>2. CASE k \notin DOMAIN L
      BY <1>11, <1>13, <2>2, <3>2
    <3> QED BY <3>1, <3>2
  <2>4. ASSUME ~late PROVE Tells(d, new, version[d], J) /\ ReversedOnce(J)
    <3>1. ~over /\ st = "POSTED"
      BY <1>9, <2>1, <2>4
    <3>2. StandingIn(L) = {made[i].reverses : i \in DOMAIN made}
      BY <1>7, <2>1, <3>1 DEF Voids
    <3>3. ReversedOnce(L)
      BY <1>3, <3>1 DEF DocSound
    <3>4. StandingIn(J) = {}
      BY <1>4, <1>10, <1>12, <2>2, <3>2, VoidedStands
    <3>5. ReversedOnce(J)
      <4>1. /\ \A i \in DOMAIN made : made[i].reverses # 0 => made[i].reverses \in StandingIn(L)
            /\ \A i, j \in DOMAIN made :
                  made[i].reverses = made[j].reverses /\ made[i].reverses # 0 => i = j
        BY <2>2, <3>2
      <4> QED BY <1>4, <1>10, <1>12, <3>3, <4>1, JoinedOnce
    <3>6. new # Of(d).posted
      BY <1>2, <2>1, ProtocolFacts
    <3> QED BY <3>4, <3>5, <3>6 DEF Tells
  <2>5. DocSound(d, new, version[d], late, J)
    BY <2>3, <2>4 DEF DocSound
  <2> QED BY <2>1, <2>5
<1>17. /\ DocSound(d, new, version[d], late, J)
       /\ "VOID" \in Of(d).also /\ ~late => new = "VOID" \/ st \notin {"POSTED", "VOID"}
  <2>1. t.op = "POST" \/ t.op = "VOID"
    BY <1>2, <1>3 DEF TxnSound
  <2> QED BY <1>15, <1>16, <2>1
<1>18. /\ status'[d] = new /\ version'[d] = version[d] /\ overtaken'[d] = late /\ ledger'[d] = J
       /\ DOMAIN status' = Docs /\ overtaken' \in [Docs -> BOOLEAN]
       /\ \A e \in Docs \ {d} : /\ status'[e] = status[e] /\ version'[e] = version[e]
                                /\ overtaken'[e] = overtaken[e] /\ ledger'[e] = ledger[e]
       /\ txn'[p] = NoTxn /\ \A q \in Procs \ {p} : txn'[q] = txn[q]
  BY <1>1, <1>2, <1>3, <1>4, <1>8
<1>19. ASSUME NEW q \in Procs \ {p}, Busy(q), txn[q].doc = d
       PROVE  TxnSound(txn[q], status'[d], overtaken'[d], ledger'[d])
  <2> DEFINE v == txn[q]
  <2>1. TxnSound(v, st, over, L) /\ v.doc = d
    BY <1>6, <1>19
  <2> HIDE DEF v
  <2>2. TxnSound(v, new, late, J)
    BY <1>8, <1>11, <1>17, <2>1, StaysSound
  <2> QED BY <1>18, <2>2 DEF v
<1> QED BY <1>2, <1>17, <1>18, <1>19, BooksStep

\* A handler that posts nothing: it leaves a document as it is, or unposted as it was.
LEMMA BooksFinish ==
  ASSUME IInv, BooksInv, NEW p \in Procs, Busy(p), NEW new, Finish(p, new),
         \A e \in Docs \ {DocOf(p)} : version'[e] = version[e],
         status[DocOf(p)] = txn[p].status =>
             \/ /\ new = txn[p].status /\ version'[DocOf(p)] = version[DocOf(p)]
                /\ "VOID" \notin Of(DocOf(p)).also
             \/ txn[p].status \in Unposted /\ new \in Unposted
  PROVE  BooksInv'
<1> DEFINE d == DocOf(p)
           t == txn[p]
           L == ledger[d]
           st == status[d]
           v == version[d]
           v2 == version'[d]
           over == overtaken[d]
           late == over \/ st # t.status
<1>1. /\ status' = [status EXCEPT ![d] = new]
      /\ overtaken' = [overtaken EXCEPT ![d] = late]
      /\ txn' = [txn EXCEPT ![p] = NoTxn] /\ ledger' = ledger
  BY DEF Finish, bookVars
<1>2. d \in Docs /\ d = t.doc /\ DOMAIN txn = Procs
  BY DEF IInv, BooksTyped, ProcInv, TxnTyped, DocOf
<1>3. /\ DOMAIN status = Docs /\ overtaken \in [Docs -> BOOLEAN]
      /\ DocSound(d, st, v, over, L)
  BY <1>2 DEF BooksInv, DocIsSound
<1>4. ASSUME NEW q \in Procs \ {p}, Busy(q), txn[q].doc = d PROVE TxnSound(txn[q], st, over, L)
  BY <1>4 DEF BooksInv, TxnIsSound, DocOf
<1>5. over \in BOOLEAN /\ late \in BOOLEAN /\ (over => late)
  BY <1>2, <1>3
<1>6. ~late => ~over /\ st = t.status
  OBVIOUS
<1>7. /\ status'[d] = new /\ overtaken'[d] = late /\ ledger'[d] = L
      /\ DOMAIN status' = Docs /\ overtaken' \in [Docs -> BOOLEAN]
      /\ \A e \in Docs \ {d} : /\ status'[e] = status[e] /\ version'[e] = version[e]
                               /\ overtaken'[e] = overtaken[e] /\ ledger'[e] = ledger[e]
      /\ txn'[p] = NoTxn /\ \A q \in Procs \ {p} : txn'[q] = txn[q]
  BY <1>1, <1>2, <1>3, <1>5
<1>8. st = t.status => \/ new = t.status /\ v2 = v /\ "VOID" \notin Of(d).also
                       \/ t.status \in Unposted /\ new \in Unposted
  OBVIOUS
<1> HIDE DEF d, t, L, st, v, v2, over, late
<1>9. ~late => Tells(d, new, v2, L) /\ ReversedOnce(L)
  <2> SUFFICES ASSUME ~late PROVE Tells(d, new, v2, L) /\ ReversedOnce(L)
    OBVIOUS
  <2>1. Tells(d, st, v, L) /\ ReversedOnce(L) /\ st = t.status
    BY <1>3, <1>6 DEF DocSound
  <2>2. CASE new = t.status /\ v2 = v
    BY <2>1, <2>2
  <2>3. CASE t.status \in Unposted /\ new \in Unposted
    <3>1. StandingIn(L) = {}
      BY <1>2, <2>1, <2>3, TellsNothing
    <3>2. Tells(d, new, v2, L)
      BY <1>2, <2>3, <3>1, TellsNothing
    <3> QED BY <2>1, <3>2
  <2> QED BY <1>8, <2>1, <2>2, <2>3
<1>10. DocSound(d, new, v2, late, L)
  BY <1>3, <1>9 DEF DocSound
<1>11. "VOID" \in Of(d).also /\ ~late => new = "VOID" \/ st \notin {"POSTED", "VOID"}
  BY <1>6, <1>8 DEF Unposted
<1>12. ASSUME NEW q \in Procs \ {p}, Busy(q), txn[q].doc = d
       PROVE  TxnSound(txn[q], status'[d], overtaken'[d], ledger'[d])
  <2> DEFINE u == txn[q]
  <2>1. TxnSound(u, st, over, L) /\ u.doc = d
    BY <1>4, <1>12
  <2> HIDE DEF u
  <2>2. TxnSound(u, new, late, L)
    BY <1>5, <1>11, <2>1, StaysSound
  <2> QED BY <1>7, <2>2 DEF u
<1> QED BY <1>2, <1>7, <1>10, <1>12, BooksStep DEF v2

\* Each of the handlers that post nothing.
LEMMA BooksHandlers ==
  ASSUME IInv, BooksInv, NEW p \in Procs,
         Edit(p) \/ AddLine(p) \/ Discard(p) \/ Submit(p) \/ Approve(p) \/ Reject(p) \/ Decline(p)
  PROVE  BooksInv'
<1> DEFINE d == DocOf(p)
           t == txn[p]
<1>1. Unposted = {"ABSENT", "DRAFT", "PENDING", "REJECTED", "PENDING_APPROVAL", "APPROVED", "DECLINED"}
  BY DEF Unposted
<1>2. \A v : version' = [version EXCEPT ![d] = v] => \A e \in Docs \ {d} : version'[e] = version[e]
  BY DEF IInv, BooksTyped
<1>3. CASE Edit(p)
  <2>1. PICK v \in DOMAIN Sheet[d].versions :
               /\ v # version[d] => t.status = "DRAFT"
               /\ version' = [version EXCEPT ![d] = v]
    BY <1>3 DEF Edit
  <2>2. /\ Busy(p) /\ Finish(p, t.status)
        /\ Sheet[d].kind \in {"GATE_IN", "RETURN"} => t.status = "DRAFT"
    BY <1>3 DEF Edit, Loaded, KindOf
  <2>3. d \in Docs /\ DOMAIN version = Docs
    BY <2>2 DEF IInv, BooksTyped, ProcInv, TxnTyped, DocOf
  <2>4. "VOID" \in Of(d).also => t.status = "DRAFT"
    BY <2>2, <2>3, ProtocolFacts
  <2>5. \/ t.status \in Unposted
        \/ version'[d] = version[d] /\ "VOID" \notin Of(d).also
    BY <1>1, <2>1, <2>3, <2>4
  <2> QED BY <1>2, <2>1, <2>2, <2>5, BooksFinish
<1>4. CASE AddLine(p)
  <2>1. PICK v : version' = [version EXCEPT ![d] = v]
    BY <1>4, Zenon DEF AddLine
  <2>2. Busy(p) /\ Finish(p, status[d]) /\ t.status = "DRAFT"
    BY <1>4, Zenon DEF AddLine, Loaded
  <2> QED BY <1>1, <1>2, <2>1, <2>2, BooksFinish
<1>5. CASE Discard(p)
  <2>1. Busy(p) /\ Finish(p, "ABSENT") /\ t.status = "DRAFT" /\ version' = version
    BY <1>5 DEF Discard, Loaded
  <2> QED BY <1>1, <2>1, BooksFinish
<1>6. CASE Decline(p)
  <2>1. Busy(p) /\ Finish(p, "DECLINED") /\ t.status = "PENDING" /\ version' = version
    BY <1>6 DEF Decline, Loaded
  <2> QED BY <1>1, <2>1, BooksFinish
<1>7. CASE Approve(p) \/ Reject(p)
  <2>1. PICK new \in {"APPROVED", "REJECTED"} : Finish(p, new)
    BY <1>7 DEF Approve, Reject, Decide
  <2>2. Busy(p) /\ t.status = "PENDING_APPROVAL" /\ version' = version
    BY <1>7 DEF Approve, Reject, Decide, Loaded
  <2> QED BY <1>1, <2>1, <2>2, BooksFinish
<1>8. CASE Submit(p)
  <2>1. PICK new \in {"PENDING_APPROVAL", "APPROVED"} : Finish(p, new)
    BY <1>8 DEF Submit
  <2>2. Busy(p) /\ t.status \in {"DRAFT", "REJECTED"} /\ version' = version
    BY <1>8 DEF Submit, Loaded
  <2> QED BY <1>1, <2>1, <2>2, BooksFinish
<1> QED BY <1>3, <1>4, <1>5, <1>6, <1>7, <1>8

\* Every step keeps the books.
LEMMA BooksNext == IInv /\ StockInv /\ BooksInv /\ [Next]_vars => BooksInv'
<1> SUFFICES ASSUME IInv, StockInv, BooksInv, [Next]_vars
             PROVE  BooksInv'
  OBVIOUS
<1>1. CASE UNCHANGED vars
  BY <1>1 DEF vars, BooksInv, DocIsSound, TxnIsSound, DocOf, Busy
<1>2. CASE Next
  <2>1. PICK p \in Procs : Load(p) \/ Goes(p) \/ Lock(p) \/ Abort(p) \/ Victim(p)
    BY <1>2 DEF Next
  <2>2. CASE Load(p) \/ BeginPost(p) \/ BeginVoid(p) \/ NextLine(p) \/ Lock(p) \/ Move(p) \/ Commit(p)
    BY <2>2, BooksLoad, BooksBeginPost, BooksBeginVoid, BooksNextLine, BooksLock, BooksMove,
       BooksCommit
  <2>3. CASE RefusePost(p) \/ RefuseVoid(p) \/ Short(p) \/ CommitFails(p) \/ Abort(p) \/ Victim(p)
    BY <2>3, BooksEnd DEF RefusePost, RefuseVoid, Short, CommitFails, Abort, Victim
  <2>4. CASE Edit(p) \/ AddLine(p) \/ Discard(p) \/ Submit(p) \/ Approve(p) \/ Reject(p) \/ Decline(p)
    BY <2>4, BooksHandlers
  <2> QED BY <2>1, <2>2, <2>3, <2>4 DEF Goes
<1> QED BY <1>1, <1>2

\* The whole of it, always.
LEMMA BooksAlways == Spec => [](IInv /\ StockInv /\ BooksInv)
BY IInvInit, IInvNext, StockInit, StockNext, BooksInit, BooksNext, PTL DEF Spec

\* The sums of the properties are those of this module.
LEMMA TotalsAreSums ==
  ASSUME NEW d \in Docs, NEW k
  PROVE  Standing(d) = StandingIn(ledger[d]) /\ LineTotal(d, k) = LineSum(ledger[d], k)
<1> DEFINE S == {m \in Standing(d) : ledger[d][m].line = k}
           f == [m \in DOMAIN ledger[d] |-> ledger[d][m].qty]
<1>1. Standing(d) = StandingIn(ledger[d])
  BY DEF Standing, StandingIn
<1>2. LineSum(ledger[d], k) = SumFun(f, S)
  BY <1>1 DEF LineSum
<1>3. LineTotal(d, k) = FoldFunctionOnSet(+, 0, f, S)
  BY Zenon DEF LineTotal
<1> HIDE DEF S, f
<1>4. FoldFunctionOnSet(+, 0, f, S) = SumFun(f, S)
  BY Zenon DEF SumFun, FoldFunctionOnSet, MapThenSumSet, MapThenFoldSet
<1> QED BY Zenon, <1>1, <1>2, <1>3, <1>4

\* The books tell the documents that were not overtaken.
LEMMA BooksTell == BooksInv => BooksTellTheDocuments
<1> SUFFICES ASSUME BooksInv, NEW d \in Docs, ~overtaken[d] PROVE TellsTheLedger(d)
  BY DEF BooksTellTheDocuments
<1>1. Tells(d, status[d], version[d], ledger[d])
  BY DEF BooksInv, DocIsSound, DocSound
<1> QED BY <1>1, TotalsAreSums DEF Tells, TellsTheLedger, LinesOf

\* Whatever the documents and their lines, the rows, the balances and the number of workers:
\* a document that says it is posted has every line in the ledger once, and any other has
\* nothing standing there, unless a handler saved a copy that was out of date
\* (receiving/services.py:496, disposition/services.py:275).
THEOREM BooksAreTold == Spec => []BooksTellTheDocuments
BY BooksAlways, BooksTell, PTL

\* A void that nothing overtook has put back what it could.
LEMMA VoidPutsBack == IInv /\ BooksInv => VoidPutsBackUnlessReassessed
<1> SUFFICES ASSUME IInv, BooksInv, NEW d \in Docs, status[d] = "VOID", ~overtaken[d],
                    \A k \in DOMAIN ledger[d] : ledger[d][k].from[2] = ledger[d][k].to[2],
                    NEW r \in Rows
             PROVE  NetOf(d, r) = 0
  BY DEF VoidPutsBackUnlessReassessed
<1> DEFINE L == ledger[d]
           f == [k \in DOMAIN L |-> Change(L[k], r)]
<1>1. L \in Seq(Moved)
  BY DEF IInv, BooksTyped
<1>2. /\ \A k \in DOMAIN L : L[k].reverses # 0 => Undoes(L[k], L)
      /\ Tells(d, "VOID", version[d], L) /\ ReversedOnce(L)
  BY DEF BooksInv, DocIsSound, DocSound
<1>3. StandingIn(L) = {}
  BY <1>2, ProtocolFacts DEF Tells
<1>4. NetOf(d, r) = FoldFunction(+, 0, f)
  BY Zenon DEF NetOf, Change
<1>5. \A k \in DOMAIN L : L[k].from[2] = L[k].to[2]
  OBVIOUS
<1>6. f = [k \in DOMAIN L |-> Change(L[k], r)] /\ DOMAIN f = DOMAIN L
  OBVIOUS
<1> HIDE DEF L
<1>7. SumFun(f, DOMAIN L) = 0
  BY <1>1, <1>2, <1>3, <1>5, NothingIsLeft
<1> HIDE DEF f
<1>8. FoldFunction(+, 0, f) = SumFun(f, DOMAIN f)
  BY Zenon DEF SumFun, FoldFunction, FoldFunctionOnSet, MapThenSumSet, MapThenFoldSet
<1> QED BY Zenon, <1>4, <1>6, <1>7, <1>8

\* Whatever the documents, a void that nothing overtook leaves every balance as it was
\* before the document, unless the gate took material in at another condition than it was
\* held in (void_gate_in, receiving/services.py:1002).
THEOREM VoidsPutBack == Spec => []VoidPutsBackUnlessReassessed
BY BooksAlways, VoidPutsBack, PTL

\* Whatever the documents and the number of workers, no balance of a place of stock goes
\* below nothing (apply_movement refuses it under the lock, stock/services.py:301).
THEOREM StockIsNeverOwed == Spec => [](\A r \in Rows : Guarded(r) => bal[r] >= 0)
BY StockAlways, PTL DEF StockInv

-----------------------------------------------------------------------------
(***************************************************************************)
(* Numbers.                                                                *)
(***************************************************************************)

\* An uncommitted document holds the row, and has taken the numbers from the committed
\* counter up to its own.
PostsHoldTheRow ==
    \A p \in Writers : writing[p] # NoWriting /\ writing[p].kind = "post" =>
        /\ lock = p
        /\ series.next < writing[p].row.next
        /\ writing[p].taken = series.next .. writing[p].row.next - 1
        /\ writing[p].row.highest = Raised(series.highest, writing[p].row.next - 1)

\* An open setting moves past what it read, and what it read only grows.
SettingsMoveForward ==
    \A p \in Writers : writing[p] # NoWriting /\ writing[p].kind = "patch" =>
        /\ writing[p].row.highest <= series.highest
        /\ writing[p].row.highest < writing[p].to

\* Every number below the counter is accounted for, and the counter is ahead of them all
\* unless a stale setting was saved.
CounterAhead ==
    /\ \A n \in 1 .. series.next - 1 : n \in issued \cup skipped
    /\ ~stale => series.highest < series.next

SeriesInv ==
    /\ NumberingTypeOK /\ PostsHoldTheRow /\ SettingsMoveForward /\ CounterAhead
    /\ NoGaps /\ HighestIsIssued /\ NeverTwiceUnlessStale

USE NumberAssumption, WriterAssumption DEF Numbers

\* The inductive invariant holds of a series nobody has used.
LEMMA SeriesInvInit == NumberingInit => SeriesInv
<1> SUFFICES ASSUME NumberingInit PROVE SeriesInv
  OBVIOUS
<1>1. series \in Row /\ series.next = 1 /\ series.highest = 0
  BY DEF NumberingInit, Row
<1>2. NumberingTypeOK
  BY <1>1 DEF NumberingInit, NumberingTypeOK
<1>3. PostsHoldTheRow /\ SettingsMoveForward
  BY DEF NumberingInit, PostsHoldTheRow, SettingsMoveForward
<1>4. CounterAhead /\ NoGaps /\ HighestIsIssued /\ NeverTwiceUnlessStale
  BY <1>1 DEF NumberingInit, CounterAhead, NoGaps, HighestIsIssued, NeverTwiceUnlessStale, NeverTwice
<1> QED BY <1>2, <1>3, <1>4 DEF SeriesInv

\* One call of allocate_number touches only its own transaction.
LEMMA AllocateKeeps ==
  ASSUME SeriesInv, NEW p \in Writers, Allocate(p)
  PROVE  SeriesInv'
<1> DEFINE row == SeriesSeen(p)
           mine == [kind  |-> "post",
                    row   |-> [exists |-> TRUE, next |-> row.next + 1,
                               highest |-> Raised(row.highest, row.next)],
                    taken |-> {row.next} \cup IF writing[p] = NoWriting THEN {} ELSE writing[p].taken,
                    to    |-> 1]
<1>1. /\ writing' = [writing EXCEPT ![p] = mine] /\ lock' = p /\ row.next + 1 <= MaxNumber
      /\ UNCHANGED <<series, issued, twice, skipped, stale>>
  BY DEF Allocate, Fits
<1>2. row \in Row /\ series.next <= row.next
  BY DEF SeriesInv, NumberingTypeOK, Writing, SeriesSeen, PostsHoldTheRow, Allocate, Row
<1>3. Raised(row.highest, row.next) = Raised(series.highest, row.next)
  <2>1. CASE writing[p] = NoWriting
    BY <2>1 DEF SeriesSeen
  <2>2. CASE writing[p] # NoWriting
    <3>1. /\ row = writing[p].row /\ series.next < row.next
          /\ row.highest = Raised(series.highest, row.next - 1)
      BY <2>2 DEF SeriesSeen, SeriesInv, PostsHoldTheRow, Allocate
    <3>2. series.highest \in Nat /\ row.next \in Nat
      BY <1>2 DEF SeriesInv, NumberingTypeOK, Row
    <3> QED BY <3>1, <3>2 DEF Raised
  <2> QED BY <2>1, <2>2
<1>4. {row.next} \cup (IF writing[p] = NoWriting THEN {} ELSE writing[p].taken) = series.next .. row.next
  <2>1. CASE writing[p] = NoWriting
    <3>1. row = series
      BY <2>1 DEF SeriesSeen
    <3>2. series.next \in Nat
      BY DEF SeriesInv, NumberingTypeOK, Row
    <3> QED BY <2>1, <3>1, <3>2
  <2>2. CASE writing[p] # NoWriting
    <3>1. /\ row = writing[p].row /\ series.next < row.next
          /\ writing[p].taken = series.next .. row.next - 1
      BY <2>2 DEF SeriesSeen, SeriesInv, PostsHoldTheRow, Allocate
    <3>2. series.next \in Nat /\ row.next \in Nat
      BY <1>2 DEF SeriesInv, NumberingTypeOK, Row
    <3> QED BY <2>2, <3>1, <3>2
  <2> QED BY <2>1, <2>2
<1>5. mine \in Writing
  <2>1. mine.row \in Row
    BY <1>1, <1>2 DEF Row, Raised
  <2>2. mine.taken \in SUBSET Numbers
    BY <1>1, <1>2, <1>4 DEF SeriesInv, NumberingTypeOK, Row
  <2> QED BY <2>1, <2>2 DEF Writing
<1>6. NumberingTypeOK'
  BY <1>1, <1>5 DEF SeriesInv, NumberingTypeOK
<1>7. PostsHoldTheRow'
  <2> SUFFICES ASSUME NEW q \in Writers, writing'[q] # NoWriting, writing'[q].kind = "post"
               PROVE  /\ lock' = q
                      /\ series'.next < writing'[q].row.next
                      /\ writing'[q].taken = series'.next .. writing'[q].row.next - 1
                      /\ writing'[q].row.highest = Raised(series'.highest, writing'[q].row.next - 1)
    BY Zenon DEF PostsHoldTheRow, Raised
  <2>1. CASE q = p
    <3>1. writing'[q] = mine
      BY <1>1, <2>1 DEF SeriesInv, NumberingTypeOK
    <3>2. row.next \in Nat /\ series.next \in Nat
      BY <1>2 DEF SeriesInv, NumberingTypeOK, Row
    <3>3. mine.row.next - 1 = row.next
      BY <3>2
    <3>4. mine.row.highest = Raised(series.highest, row.next) /\ mine.taken = series.next .. row.next
      BY <1>3, <1>4
    <3>5. series.next < mine.row.next
      BY <1>2, <3>2
    <3> HIDE DEF mine, row
    <3> QED BY <1>1, <2>1, <3>1, <3>3, <3>4, <3>5
  <2>2. CASE q # p
    <3>1. writing'[q] = writing[q]
      BY <1>1, <2>2 DEF SeriesInv, NumberingTypeOK
    <3>2. lock = q
      BY <3>1 DEF SeriesInv, PostsHoldTheRow
    <3> QED BY <2>2, <3>2 DEF Allocate, MayLock
  <2> QED BY <2>1, <2>2
<1>8. SettingsMoveForward'
  BY <1>1 DEF SeriesInv, NumberingTypeOK, SettingsMoveForward
<1> QED
  BY <1>1, <1>6, <1>7, <1>8 DEF SeriesInv, CounterAhead, NoGaps, HighestIsIssued,
     NeverTwiceUnlessStale, NeverTwice

\* The commit of a document publishes numbers nobody had.
LEMMA CommitNumberKeeps ==
  ASSUME SeriesInv, NEW p \in Writers, CommitNumber(p)
  PROVE  /\ SeriesInv'
         /\ ~stale => \A n \in issued' \ issued, m \in issued : m < n
<1> DEFINE row == writing[p].row
<1>1. /\ series' = row /\ issued' = issued \cup writing[p].taken
      /\ twice' = twice \cup (issued \cap writing[p].taken) /\ lock' = NoOne
      /\ writing' = [writing EXCEPT ![p] = NoWriting] /\ UNCHANGED <<skipped, stale>>
  BY DEF CommitNumber
<1>2. /\ lock = p /\ series.next < row.next
      /\ writing[p].taken = series.next .. row.next - 1
      /\ row.highest = Raised(series.highest, row.next - 1)
  BY DEF CommitNumber, SeriesInv, PostsHoldTheRow
<1>3. row \in Row /\ series \in Row /\ writing[p] \in Writing
  BY DEF CommitNumber, SeriesInv, NumberingTypeOK, Writing
<1>4. /\ row.next \in Nat /\ series.next \in Nat \ {0} /\ series.highest \in Nat
      /\ row.highest \in Nat
  BY <1>3 DEF Row
<1>5. /\ series.highest <= row.highest /\ row.next - 1 <= row.highest
      /\ row.highest = series.highest \/ row.highest = row.next - 1
  BY <1>2, <1>4 DEF Raised
<1>6. NumberingTypeOK'
  BY <1>1, <1>3 DEF SeriesInv, NumberingTypeOK, Writing
<1>7. PostsHoldTheRow'
  BY <1>1, <1>2 DEF SeriesInv, NumberingTypeOK, PostsHoldTheRow
<1>8. SettingsMoveForward'
  <2> SUFFICES ASSUME NEW q \in Writers, writing'[q] # NoWriting, writing'[q].kind = "patch"
               PROVE  writing'[q].row.highest <= row.highest /\ writing'[q].row.highest < writing'[q].to
    BY <1>1 DEF SettingsMoveForward
  <2>1. writing'[q] = writing[q] /\ writing[q] \in Writing
    BY <1>1 DEF SeriesInv, NumberingTypeOK
  <2>2. writing[q].row.highest <= series.highest /\ writing[q].row.highest < writing[q].to
    BY <2>1 DEF SeriesInv, SettingsMoveForward
  <2>3. writing[q].row.highest \in Nat
    BY <2>1 DEF Writing, Row
  <2> QED BY <1>4, <1>5, <2>1, <2>2, <2>3
<1>9. CounterAhead'
  <2>1. ASSUME NEW n \in 1 .. row.next - 1 PROVE n \in issued' \cup skipped
    <3>1. CASE n < series.next
      BY <1>1, <1>4, <3>1 DEF SeriesInv, CounterAhead
    <3>2. CASE n >= series.next
      BY <1>1, <1>2, <1>4, <3>2
    <3> QED BY <1>4, <3>1, <3>2
  <2>2. ~stale => row.highest < row.next
    BY <1>2, <1>4, <1>5 DEF SeriesInv, CounterAhead
  <2> QED BY <1>1, <2>1, <2>2 DEF CounterAhead
<1>10. NoGaps'
  <2>1. ASSUME NEW n \in 1 .. row.highest PROVE n \in issued' \cup skipped
    <3>1. n \in 1 .. series.highest \/ n \in 1 .. row.next - 1
      BY <1>4, <1>5
    <3>2. CASE n \in 1 .. series.highest
      BY <1>1, <3>2 DEF SeriesInv, NoGaps
    <3>3. CASE n \in 1 .. row.next - 1
      BY <1>1, <1>9, <3>3 DEF CounterAhead
    <3> QED BY <3>1, <3>2, <3>3
  <2> QED BY <1>1, <2>1 DEF NoGaps
<1>11. HighestIsIssued'
  <2>1. ASSUME NEW n \in issued' PROVE n <= row.highest
    <3>1. CASE n \in issued
      <4>1. n <= series.highest
        BY <3>1 DEF SeriesInv, HighestIsIssued
      <4>2. n \in Nat
        <5>1. issued \subseteq 1 .. MaxNumber
          BY DEF SeriesInv, NumberingTypeOK
        <5> QED BY <3>1, <5>1
      <4> QED BY <1>4, <1>5, <4>1, <4>2
    <3>2. CASE n \in writing[p].taken
      <4>1. n \in series.next .. row.next - 1
        BY <1>2, <3>2
      <4>2. n \in Int /\ n <= row.next - 1
        BY <1>4, <4>1
      <4> QED BY <1>4, <1>5, <4>2
    <3> QED BY <1>1, <2>1, <3>1, <3>2
  <2>2. ASSUME row.highest # 0 PROVE row.highest \in issued'
    <3>1. CASE row.highest = series.highest
      BY <1>1, <2>2, <3>1 DEF SeriesInv, HighestIsIssued
    <3>2. CASE row.highest = row.next - 1
      BY <1>1, <1>2, <1>4, <3>2
    <3> QED BY <1>5, <3>1, <3>2
  <2> QED BY <1>1, <2>1, <2>2 DEF HighestIsIssued
<1>12. ASSUME ~stale, NEW n \in writing[p].taken, NEW m \in issued PROVE m < n
  <2>1. m <= series.highest /\ m \in Nat
    BY DEF SeriesInv, HighestIsIssued, NumberingTypeOK
  <2>2. series.highest < series.next
    BY <1>12 DEF SeriesInv, CounterAhead
  <2>3. n \in Nat /\ series.next <= n
    BY <1>2, <1>4
  <2> QED BY <1>4, <2>1, <2>2, <2>3
<1>13. NeverTwiceUnlessStale'
  <2>1. ~stale => issued \cap writing[p].taken = {}
    <3> SUFFICES ASSUME ~stale, NEW n \in issued, n \in writing[p].taken PROVE FALSE
      OBVIOUS
    <3>1. n < n /\ n \in Nat
      BY <1>12 DEF SeriesInv, NumberingTypeOK
    <3> QED BY <3>1
  <2> QED BY <1>1, <2>1 DEF SeriesInv, NeverTwiceUnlessStale, NeverTwice
<1> QED
  BY <1>1, <1>6, <1>7, <1>8, <1>9, <1>10, <1>11, <1>12, <1>13 DEF SeriesInv

\* A rollback returns the numbers its transaction took.
LEMMA ReturnNumberKeeps ==
  ASSUME SeriesInv, NEW p \in Writers, ReturnNumber(p)
  PROVE  SeriesInv'
<1>1. /\ series' = series /\ writing' = [writing EXCEPT ![p] = NoWriting]
      /\ lock' = (IF lock = p THEN NoOne ELSE lock)
      /\ UNCHANGED <<issued, twice, skipped, stale>>
  BY DEF ReturnNumber, Returned
<1>2. NumberingTypeOK'
  BY <1>1 DEF SeriesInv, NumberingTypeOK
<1>3. PostsHoldTheRow'
  BY <1>1 DEF SeriesInv, NumberingTypeOK, PostsHoldTheRow, Raised
<1>4. SettingsMoveForward'
  BY <1>1 DEF SeriesInv, NumberingTypeOK, SettingsMoveForward
<1> QED
  BY <1>1, <1>2, <1>3, <1>4 DEF SeriesInv, CounterAhead, NoGaps, HighestIsIssued,
     NeverTwiceUnlessStale, NeverTwice

\* Opening the settings screen reads the row.
LEMMA OpenKeeps ==
  ASSUME SeriesInv, NEW p \in Writers, OpenSettings(p)
  PROVE  SeriesInv'
<1>1. PICK n \in Numbers :
        /\ n >= Floor(series)
        /\ writing' = [writing EXCEPT ![p] =
             [kind |-> "patch", row |-> series, taken |-> {}, to |-> n]]
  BY DEF OpenSettings
<1>2. /\ UNCHANGED <<series, issued, twice, skipped, stale>>
      /\ lock' = lock \/ (lock \in {NoOne, p} /\ lock' = p)
  BY DEF OpenSettings, MayLock
<1>3. NumberingTypeOK'
  BY <1>1, <1>2 DEF SeriesInv, NumberingTypeOK, Writing
<1>4. PostsHoldTheRow'
  BY <1>1, <1>2 DEF SeriesInv, NumberingTypeOK, PostsHoldTheRow, Raised
<1>5. SettingsMoveForward'
  BY <1>1, <1>2 DEF SeriesInv, NumberingTypeOK, Row, SettingsMoveForward, Floor
<1> QED
  BY <1>2, <1>3, <1>4, <1>5 DEF SeriesInv, CounterAhead, NoGaps, HighestIsIssued,
     NeverTwiceUnlessStale, NeverTwice

\* Saving a setting moves the counter, and nothing else that counts.
LEMMA SaveKeeps ==
  ASSUME SeriesInv, NEW p \in Writers, SaveSettings(p)
  PROVE  SeriesInv'
<1> DEFINE to == writing[p].to
<1>1. /\ series' = [series EXCEPT !.exists = TRUE, !.next = to]
      /\ skipped' = skipped \cup (series.next .. to - 1)
      /\ stale' = (stale \/ series.highest # writing[p].row.highest)
      /\ lock' = (IF lock = p THEN NoOne ELSE lock)
      /\ writing' = [writing EXCEPT ![p] = NoWriting] /\ UNCHANGED <<issued, twice>>
  BY DEF SaveSettings
<1>2. writing[p] \in Writing /\ to \in Numbers /\ writing[p].row.highest < to
  BY DEF SaveSettings, SeriesInv, NumberingTypeOK, Writing, SettingsMoveForward
<1>3. series \in Row /\ series.next \in Nat \ {0} /\ series.highest \in Nat
  BY DEF SeriesInv, NumberingTypeOK, Row
<1>4. series'.next = to /\ series'.highest = series.highest /\ series' \in Row
  BY <1>1, <1>2, <1>3 DEF Row
<1>5. NumberingTypeOK'
  BY <1>1, <1>2, <1>3, <1>4 DEF SeriesInv, NumberingTypeOK, Row
<1>6. PostsHoldTheRow'
  BY <1>1 DEF SeriesInv, NumberingTypeOK, PostsHoldTheRow, SaveSettings, MayLock
<1>7. SettingsMoveForward'
  BY <1>1, <1>4 DEF SeriesInv, NumberingTypeOK, SettingsMoveForward
<1>8. CounterAhead'
  <2>1. ASSUME NEW n \in 1 .. to - 1 PROVE n \in issued \cup skipped'
    <3>1. CASE n < series.next
      BY <1>1, <1>2, <1>3, <3>1 DEF SeriesInv, CounterAhead
    <3>2. CASE n >= series.next
      BY <1>1, <1>2, <1>3, <3>2
    <3> QED BY <1>2, <1>3, <3>1, <3>2
  <2>2. ~stale' => series.highest < to
    BY <1>1, <1>2
  <2> QED BY <1>1, <1>4, <2>1, <2>2 DEF CounterAhead
<1>9. NoGaps'
  BY <1>1, <1>4 DEF SeriesInv, NoGaps
<1>10. HighestIsIssued'
  BY <1>1, <1>4 DEF SeriesInv, HighestIsIssued
<1>11. NeverTwiceUnlessStale'
  BY <1>1 DEF SeriesInv, NeverTwiceUnlessStale, NeverTwice
<1> QED BY <1>5, <1>6, <1>7, <1>8, <1>9, <1>10, <1>11 DEF SeriesInv

\* Every step keeps the inductive invariant.
LEMMA SeriesInvStep == SeriesInv /\ [NumberingNext]_numberingVars => SeriesInv'
<1> SUFFICES ASSUME SeriesInv, [NumberingNext]_numberingVars PROVE SeriesInv'
  OBVIOUS
<1>1. ASSUME NEW p \in Writers, Allocate(p) PROVE SeriesInv'
  BY <1>1, AllocateKeeps
<1>2. ASSUME NEW p \in Writers, CommitNumber(p) PROVE SeriesInv'
  BY <1>2, CommitNumberKeeps
<1>3. ASSUME NEW p \in Writers, ReturnNumber(p) PROVE SeriesInv'
  BY <1>3, ReturnNumberKeeps
<1>4. ASSUME NEW p \in Writers, OpenSettings(p) PROVE SeriesInv'
  BY <1>4, OpenKeeps
<1>5. ASSUME NEW p \in Writers, SaveSettings(p) PROVE SeriesInv'
  BY <1>5, SaveKeeps
<1>6. CASE UNCHANGED numberingVars
  BY <1>6 DEF numberingVars, SeriesInv, NumberingTypeOK, PostsHoldTheRow, SettingsMoveForward, CounterAhead,
              NoGaps, HighestIsIssued, NeverTwiceUnlessStale, NeverTwice, Raised
<1> QED BY <1>1, <1>2, <1>3, <1>4, <1>5, <1>6 DEF NumberingNext

\* The inductive invariant holds in every reachable state.
LEMMA SeriesInvAlways == NumberingSpec => []SeriesInv
  BY SeriesInvInit, SeriesInvStep, PTL DEF NumberingSpec

\* The variables keep their types, and the counter its column, for every width of it.
THEOREM NumbersTyped == NumberingSpec => []NumberingTypeOK
<1>1. SeriesInv => NumberingTypeOK
  BY DEF SeriesInv
<1> QED BY SeriesInvAlways, <1>1, PTL

\* M6: however many documents post together and whatever rolls back, no number is given
\* twice, as long as no setting is saved on an outdated reading.
THEOREM NumberedOnce == NumberingSpec => []NeverTwiceUnlessStale
<1>1. SeriesInv => NeverTwiceUnlessStale
  BY DEF SeriesInv
<1> QED BY SeriesInvAlways, <1>1, PTL

\* M6: a series has no holes but those a setting made; stale settings included.
THEOREM GapFree == NumberingSpec => []NoGaps
<1>1. SeriesInv => NoGaps
  BY DEF SeriesInv
<1> QED BY SeriesInvAlways, <1>1, PTL

\* The floor of the settings screen is the highest number on a document.
THEOREM FloorIsTrue == NumberingSpec => []HighestIsIssued
<1>1. SeriesInv => HighestIsIssued
  BY DEF SeriesInv
<1> QED BY SeriesInvAlways, <1>1, PTL

\* Documents are numbered in the order they commit.
THEOREM NumbersGrow == NumberingSpec => InOrder
<1>1. SeriesInv /\ [NumberingNext]_numberingVars
        => [~stale => \A n \in issued' \ issued, m \in issued : m < n]_numberingVars
  <2> SUFFICES ASSUME SeriesInv, NumberingNext
               PROVE  ~stale => \A n \in issued' \ issued, m \in issued : m < n
    OBVIOUS
  <2>1. ASSUME NEW p \in Writers, CommitNumber(p)
        PROVE  ~stale => \A n \in issued' \ issued, m \in issued : m < n
    BY <2>1, CommitNumberKeeps
  <2>2. ASSUME NEW p \in Writers,
               Allocate(p) \/ ReturnNumber(p) \/ OpenSettings(p) \/ SaveSettings(p)
        PROVE  issued' = issued
    BY <2>2 DEF Allocate, ReturnNumber, OpenSettings, SaveSettings
  <2> QED BY <2>1, <2>2 DEF NumberingNext
<1> QED BY SeriesInvAlways, <1>1, PTL DEF NumberingSpec, InOrder
=============================================================================
