-------------------------- MODULE RecordMergeProofs --------------------------
(***************************************************************************)
(* What holds of the merge, whatever the rows, keys and batches, and the   *)
(* lemmas of sequences it takes, which the tables' proofs share: induction *)
(* over sequences, concatenation, choosing and counting their elements.    *)
(***************************************************************************)
EXTENDS RecordMerge, SequenceTheorems, FiniteSetTheorems, WellFoundedInduction, TLAPS

-----------------------------------------------------------------------------
(* Induction, over numbers and over sequences, as sets that hold them all.  *)

\* The intervals from 0 are finite sets, which strict inclusion orders well.
LEMMA LeastNumber ==
    ASSUME NEW T \in SUBSET Nat, T # {}
    PROVE  \E x \in T : \A y \in T : x <= y
<1> DEFINE U == {0..n : n \in T}
<1>1. \A n \in Nat : IsFiniteSet(0..n) /\ 0..n \in SUBSET Nat
  BY FS_Interval
<1>2. U \subseteq FiniteSubsetsOf(Nat) /\ U # {}
  BY <1>1 DEF FiniteSubsetsOf
<1>3. IsWellFoundedOn(StrictSubsetOrdering(Nat), FiniteSubsetsOf(Nat))
  BY FS_StrictSubsetOrderingWellFounded
<1>4. PICK s \in U : \A t \in U : <<t, s>> \notin StrictSubsetOrdering(Nat)
  BY <1>2, <1>3, WFMin
<1>5. PICK x \in T : s = 0..x
  BY <1>4
<1>6. ASSUME NEW y \in T, ~(x <= y) PROVE FALSE
  <2>1. 0..y \in U /\ 0..y \subseteq s /\ 0..y # s
    BY <1>5, <1>6
  <2>2. <<0..y, s>> \in StrictSubsetOrdering(Nat)
    BY <1>1, <1>5, <1>6, <2>1 DEF StrictSubsetOrdering
  <2> QED BY <1>4, <2>1, <2>2
<1> QED BY <1>6

LEMMA Inductive ==
    ASSUME NEW T \in SUBSET Nat, 0 \in T, \A n \in T : n + 1 \in T
    PROVE  T = Nat
<1> SUFFICES ASSUME Nat \ T # {} PROVE FALSE
  OBVIOUS
<1>1. PICK x \in Nat \ T : \A y \in Nat \ T : x <= y
  BY LeastNumber
<1>2. x # 0 /\ x - 1 \in Nat /\ x - 1 \notin Nat \ T
  BY <1>1
<1> QED BY <1>1, <1>2

\* A sequence is empty, or another one with an element more.
LEMMA Shorter ==
    ASSUME NEW X, NEW s \in Seq(X), Len(s) # 0
    PROVE  \E t \in Seq(X), x \in X : s = Append(t, x) /\ Len(t) = Len(s) - 1
<1> DEFINE n == Len(s) - 1
           t == [i \in 1..n |-> s[i]]
<1>1. n \in Nat /\ \A i \in 1..Len(s) : s[i] \in X
  BY LenProperties, ElementOfSeq
<1>2. /\ t \in Seq(X) /\ Len(t) = n /\ s[n + 1] \in X
      /\ \A i \in 1..n : t[i] = s[i]
  BY <1>1
<1> HIDE DEF t
<1>3. Append(t, s[n + 1]) \in Seq(X) /\ Len(Append(t, s[n + 1])) = Len(s)
  BY <1>1, <1>2
<1>4. \A i \in 1..Len(s) : Append(t, s[n + 1])[i] = s[i]
  BY <1>1, <1>2
<1>5. s = Append(t, s[n + 1])
  <2> QED BY <1>3, <1>4, SeqEqual
<1> QED BY <1>2, <1>5

LEMMA SequencesInductive ==
    ASSUME NEW X, NEW T \in SUBSET Seq(X), <<>> \in T,
           \A s \in T : \A x \in X : Append(s, x) \in T
    PROVE  T = Seq(X)
<1> DEFINE U == {n \in Nat : \A s \in Seq(X) : Len(s) = n => s \in T}
<1>1. 0 \in U
  BY EmptySeq
<1>2. ASSUME NEW n \in U PROVE n + 1 \in U
  <2> SUFFICES ASSUME NEW s \in Seq(X), Len(s) = n + 1 PROVE s \in T
    OBVIOUS
  <2>1. n \in Nat /\ Len(s) # 0
    OBVIOUS
  <2>2. PICK t \in Seq(X), x \in X : s = Append(t, x) /\ Len(t) = Len(s) - 1
    BY <2>1, Shorter
  <2> QED BY <1>2, <2>1, <2>2
<1>3. U = Nat
  <2> HIDE DEF U
  <2>1. U \in SUBSET Nat
    BY DEF U
  <2> QED BY <1>1, <1>2, <2>1, Inductive
<1> QED BY <1>3, LenProperties

-----------------------------------------------------------------------------
(* Flattening.                                                             *)

\* The equation the recursive function of FlattenSeq satisfies.
Flattens(f, N, seqs) ==
    f = [i \in 1..N |-> IF i = 1 THEN seqs[i] ELSE f[i - 1] \o seqs[i]]

LEMMA FlatteningExists ==
    ASSUME NEW seqs, NEW N \in Nat
    PROVE  \E f : Flattens(f, N, seqs)
<1> DEFINE Go(f, n) == IF n = 1 THEN seqs[n] ELSE f[n - 1] \o seqs[n]
           T == {m \in Nat : \E f : Flattens(f, m, seqs)}
<1>1. 0 \in T
  <2> DEFINE e == [n \in 1..0 |-> 0]
  <2>1. Flattens(e, 0, seqs)
    BY 1..0 = {} DEF Flattens
  <2> QED BY <2>1
<1>2. ASSUME NEW m \in T PROVE m + 1 \in T
  <2>1. PICK f : Flattens(f, m, seqs)
    BY <1>2
  <2> DEFINE longer == [n \in 1..(m + 1) |-> IF n \in 1..m THEN f[n] ELSE Go(f, n)]
  <2>2. \A n \in 1..m : f[n] = Go(f, n)
    BY <2>1 DEF Flattens
  <2>3. \A n \in 1..(m + 1) : n # 1 => longer[n - 1] = f[n - 1]
    OBVIOUS
  <2>4. \A n \in 1..(m + 1) : Go(longer, n) = Go(f, n)
    BY <2>3
  <2>5. \A n \in 1..(m + 1) : longer[n] = Go(longer, n)
    BY <2>2, <2>4
  <2>6. longer = [n \in 1..(m + 1) |-> Go(longer, n)]
    <3>1. longer = [n \in 1..(m + 1) |-> longer[n]]
      OBVIOUS
    <3> HIDE DEF longer, Go
    <3> QED BY <2>5, <3>1
  <2> HIDE DEF longer
  <2>7. Flattens(longer, m + 1, seqs)
    BY <2>6 DEF Flattens
  <2> QED BY <2>7
<1>3. T = Nat
  <2> HIDE DEF T
  <2>1. T \in SUBSET Nat
    BY DEF T
  <2> QED BY <1>1, <1>2, <2>1, Inductive
<1> QED BY <1>3

\* One sequence more changes none of those before it.
LEMMA FlattensStep ==
    ASSUME NEW N \in Nat, NEW seqs, NEW more, NEW f, NEW g, \A i \in 1..N : more[i] = seqs[i],
           Flattens(f, N, seqs), Flattens(g, N + 1, more)
    PROVE  /\ g[N + 1] = IF N = 0 THEN more[N + 1] ELSE g[N] \o more[N + 1]
           /\ \A i \in 1..N : g[i] = f[i]
<1>1. \A i \in 1..N : f[i] = IF i = 1 THEN seqs[i] ELSE f[i - 1] \o seqs[i]
  BY DEF Flattens
<1>2. \A i \in 1..(N + 1) : g[i] = IF i = 1 THEN more[i] ELSE g[i - 1] \o more[i]
  BY DEF Flattens
<1>3. g[N + 1] = IF N = 0 THEN more[N + 1] ELSE g[N] \o more[N + 1]
  <2>1. N + 1 \in 1..(N + 1) /\ (N + 1) - 1 = N /\ (N + 1 = 1 <=> N = 0)
    OBVIOUS
  <2>2. g[N + 1] = IF N + 1 = 1 THEN more[N + 1] ELSE g[(N + 1) - 1] \o more[N + 1]
    BY <1>2, <2>1
  <2> QED BY <2>1, <2>2
<1>4. ASSUME NEW n \in Nat, n + 1 \in 1..N, n \in 1..N => g[n] = f[n]
      PROVE  g[n + 1] = f[n + 1]
  <2>1. n + 1 \in 1..(N + 1) /\ (n + 1) - 1 = n /\ (n + 1 = 1 <=> n = 0) /\ more[n + 1] = seqs[n + 1]
    BY <1>4
  <2>2. g[n + 1] = IF n + 1 = 1 THEN more[n + 1] ELSE g[(n + 1) - 1] \o more[n + 1]
    BY <1>2, <2>1
  <2>3. f[n + 1] = IF n + 1 = 1 THEN seqs[n + 1] ELSE f[(n + 1) - 1] \o seqs[n + 1]
    BY <1>1, <1>4
  <2>4. CASE n = 0
    BY <2>1, <2>2, <2>3, <2>4
  <2>5. CASE n # 0
    <3>1. n \in 1..N
      BY <1>4, <2>5
    <3>2. g[n] = f[n]
      BY <1>4, <3>1
    <3> QED BY <2>1, <2>2, <2>3, <2>5, <3>2
  <2> QED BY <2>4, <2>5
<1>5. \A i \in 1..N : g[i] = f[i]
  <2> DEFINE T == {n \in Nat : n \in 1..N => g[n] = f[n]}
  <2>1. 0 \in T
    OBVIOUS
  <2>2. ASSUME NEW n \in T PROVE n + 1 \in T
    <3>1. n \in Nat /\ (n \in 1..N => g[n] = f[n])
      OBVIOUS
    <3>2. n + 1 \in 1..N => g[n + 1] = f[n + 1]
      BY <1>4, <3>1
    <3> QED BY <3>1, <3>2
  <2>3. T = Nat
    <3> HIDE DEF T
    <3>1. T \in SUBSET Nat
      BY DEF T
    <3> QED BY <2>1, <2>2, <3>1, Inductive
  <2>4. \A i \in 1..N : i \in T
    BY <2>3
  <2> QED BY <2>4
<1> QED BY <1>3, <1>5

\* FlattenSeq concatenates from the left.
LEMMA FlattenIs ==
    ASSUME NEW X, NEW seqs \in Seq(Seq(X)), NEW s \in Seq(X)
    PROVE  /\ FlattenSeq(<<>>) = <<>>
           /\ FlattenSeq(Append(seqs, s)) = FlattenSeq(seqs) \o s
<1> DEFINE N == Len(seqs)
           more == Append(seqs, s)
           F(q) == CHOOSE f : Flattens(f, Len(q), q)
<1>1. \A q : FlattenSeq(q) = IF Len(q) = 0 THEN q ELSE F(q)[Len(q)]
  BY DEF FlattenSeq, Flattens
<1>N. N = Len(seqs) /\ more = Append(seqs, s)
  OBVIOUS
<1>2. N \in Nat /\ Len(more) = N + 1 /\ more[N + 1] = s /\ \A i \in 1..N : more[i] = seqs[i]
  BY LenProperties
<1> HIDE DEF N, more
<1>3. PICK f : f = F(seqs) /\ Flattens(f, N, seqs)
  <2>1. \E f : Flattens(f, N, seqs)
    BY <1>2, FlatteningExists
  <2>2. F(seqs) = CHOOSE f : Flattens(f, N, seqs)
    BY DEF N
  <2> QED BY <2>1, <2>2
<1>4. PICK g : g = F(more) /\ Flattens(g, N + 1, more)
  <2>1. \E g : Flattens(g, N + 1, more)
    <3>1. N + 1 \in Nat
      BY <1>2
    <3> QED BY <3>1, FlatteningExists
  <2>2. F(more) = CHOOSE g : Flattens(g, N + 1, more)
    BY <1>2
  <2> QED BY <2>1, <2>2
<1> HIDE DEF F
<1>5. /\ g[N + 1] = IF N = 0 THEN more[N + 1] ELSE g[N] \o more[N + 1]
      /\ \A i \in 1..N : g[i] = f[i]
  <2>1. N \in Nat /\ Flattens(f, N, seqs) /\ Flattens(g, N + 1, more)
    BY <1>2, <1>3, <1>4
  <2>2. \A i \in 1..N : more[i] = seqs[i]
    BY <1>2
  <2> QED BY SMTT(30), <2>1, <2>2, FlattensStep
<1>6. g[N + 1] = IF N = 0 THEN s ELSE g[N] \o s
  BY <1>2, <1>5
<1>7. FlattenSeq(more) = g[N + 1]
  BY <1>1, <1>2, <1>4 DEF N
<1>8. CASE N = 0
  <2>1. seqs = <<>> /\ FlattenSeq(seqs) = <<>>
    BY <1>N, <1>1, <1>8, EmptySeq
  <2>2. <<>> \o s = s
    BY ConcatEmptySeq
  <2> QED BY <1>N, <1>6, <1>7, <1>8, <2>1, <2>2
<1>9. CASE N # 0
  <2>1. FlattenSeq(seqs) = f[N]
    BY <1>N, <1>1, <1>3, <1>9
  <2>2. FlattenSeq(<<>>) = <<>>
    BY <1>1
  <2>3. g[N] = f[N]
    <3>1. N \in 1..N
      BY <1>2, <1>9
    <3> QED BY <1>5, <3>1
  <2> QED BY <1>N, <1>6, <1>7, <1>9, <2>1, <2>2, <2>3
<1> QED BY <1>8, <1>9


LEMMA ElementsOfConcat ==
    ASSUME NEW X, NEW s \in Seq(X), NEW t \in Seq(X)
    PROVE  Range(s \o t) = Range(s) \cup Range(t)
<1>1. /\ DOMAIN s = 1..Len(s) /\ DOMAIN t = 1..Len(t)
      /\ DOMAIN (s \o t) = 1..(Len(s) + Len(t)) /\ Len(s) \in Nat /\ Len(t) \in Nat
  BY LenProperties, ConcatProperties
<1>2. \A n \in 1..Len(s) : (s \o t)[n] = s[n] /\ n \in DOMAIN (s \o t)
  BY <1>1, ConcatProperties
<1>3. \A n \in 1..Len(t) : (s \o t)[Len(s) + n] = t[n] /\ Len(s) + n \in DOMAIN (s \o t)
  BY <1>1, ConcatProperties
<1>4. \A n \in DOMAIN (s \o t) : n \in DOMAIN s \/ (n - Len(s) \in DOMAIN t /\ n = Len(s) + (n - Len(s)))
  BY <1>1
<1>5. \A n \in DOMAIN (s \o t) : (s \o t)[n] \in Range(s) \cup Range(t)
  BY <1>1, <1>2, <1>3, <1>4 DEF Range
<1>6. Range(s) \subseteq Range(s \o t)
  BY <1>1, <1>2 DEF Range
<1>7. Range(t) \subseteq Range(s \o t)
  BY <1>1, <1>3 DEF Range
<1>8. Range(s \o t) \subseteq Range(s) \cup Range(t)
  BY <1>5 DEF Range
<1> QED BY <1>6, <1>7, <1>8

LEMMA ElementsOfAppend ==
    ASSUME NEW X, NEW s \in Seq(X), NEW x \in X
    PROVE  Range(Append(s, x)) = Range(s) \cup {x}
<1>1. Append(s, x) = s \o <<x>> /\ <<x>> \in Seq(X)
  OBVIOUS
<1>2. Range(<<x>>) = {x}
  BY DEF Range
<1>3. Range(s \o <<x>>) = Range(s) \cup Range(<<x>>)
  <2>1. PICK one \in Seq(X) : one = <<x>> BY <1>1
  <2>2. Range(s \o one) = Range(s) \cup Range(one) BY ElementsOfConcat
  <2> QED BY <2>1, <2>2
<1> QED BY <1>1, <1>2, <1>3

-----------------------------------------------------------------------------
(* Sequences made of others, element by element: what an operation reads,  *)
(* keeps, groups or writes is the concatenation of what it makes of each   *)
(* manifest, file, batch or row.                                           *)

Each(G, s) == [n \in DOMAIN s |-> G[s[n]]]
Over(G, s) == FlattenSeq(Each(G, s))
Cat(s, t) == s \o t

LEMMA CatType ==
    ASSUME NEW X, NEW s \in Seq(X), NEW t \in Seq(X) PROVE Cat(s, t) \in Seq(X)
BY ConcatProperties DEF Cat

LEMMA CatAssociative ==
    ASSUME NEW X, NEW s \in Seq(X), NEW t \in Seq(X), NEW u \in Seq(X)
    PROVE  Cat(Cat(s, t), u) = Cat(s, Cat(t, u))
BY ConcatAssociative DEF Cat

LEMMA CatEmpty == ASSUME NEW X, NEW s \in Seq(X) PROVE Cat(s, <<>>) = s
BY ConcatEmptySeq DEF Cat

LEMMA EmptyCat == ASSUME NEW X, NEW s \in Seq(X) PROVE Cat(<<>>, s) = s
BY ConcatEmptySeq DEF Cat

LEMMA CatAppend ==
    ASSUME NEW X, NEW s \in Seq(X), NEW t \in Seq(X), NEW x \in X
    PROVE  Cat(s, Append(t, x)) = Append(Cat(s, t), x)
<1>1. PICK u \in Seq(X) : u = <<x>>
  <2>1. <<x>> \in Seq(X)
    OBVIOUS
  <2> QED BY <2>1
<1>2. Cat(s, t) \in Seq(X)
  BY CatType
<1>3. Append(t, x) = Cat(t, u) /\ Append(Cat(s, t), x) = Cat(Cat(s, t), u)
  BY <1>1, <1>2 DEF Cat
<1>4. Cat(Cat(s, t), u) = Cat(s, Cat(t, u))
  BY CatAssociative
<1> QED BY <1>3, <1>4

LEMMA ElementsCat ==
    ASSUME NEW X, NEW s \in Seq(X), NEW t \in Seq(X)
    PROVE  Range(Cat(s, t)) = Range(s) \cup Range(t)
BY ElementsOfConcat DEF Cat

LEMMA ElementsEmpty == Range(<<>>) = {}
BY DEF Range

LEMMA ElementsOne == ASSUME NEW x PROVE Range(<<x>>) = {x}
BY DEF Range

LEMMA ElementsType == ASSUME NEW X, NEW s \in Seq(X) PROVE Range(s) \subseteq X
BY LenProperties, ElementOfSeq DEF Range

LEMMA EachType ==
    ASSUME NEW X, NEW Y, NEW G \in [X -> Y], NEW s \in Seq(X)
    PROVE  Each(G, s) \in Seq(Y)
<1>1. Len(s) \in Nat /\ DOMAIN s = 1..Len(s) /\ \A n \in 1..Len(s) : s[n] \in X
  BY LenProperties, ElementOfSeq
<1>2. Each(G, s) = [n \in 1..Len(s) |-> G[s[n]]]
  BY <1>1 DEF Each
<1>3. \A n \in 1..Len(s) : G[s[n]] \in Y
  BY <1>1
<1> HIDE DEF Each
<1> QED BY <1>1, <1>2, <1>3

LEMMA EachLen == ASSUME NEW X, NEW G, NEW s \in Seq(X) PROVE Len(Each(G, s)) = Len(s)
<1>1. Len(s) \in Nat /\ DOMAIN s = 1..Len(s)
  BY LenProperties
<1>2. Each(G, s) = [n \in 1..Len(s) |-> G[s[n]]]
  BY <1>1 DEF Each
<1> QED BY <1>1, <1>2

LEMMA EachAt ==
    ASSUME NEW X, NEW G, NEW s \in Seq(X), NEW n \in 1..Len(s)
    PROVE  Each(G, s)[n] = G[s[n]]
BY LenProperties DEF Each

LEMMA EachAppend ==
    ASSUME NEW X, NEW Y, NEW G \in [X -> Y], NEW s \in Seq(X), NEW x \in X
    PROVE  Each(G, Append(s, x)) = Append(Each(G, s), G[x])
<1>1. PICK t \in Seq(X) : t = Append(s, x)
  <2>1. Append(s, x) \in Seq(X)
    OBVIOUS
  <2> QED BY <2>1
<1>2. /\ Len(t) = Len(s) + 1 /\ Len(s) \in Nat
      /\ t[Len(s) + 1] = x /\ \A n \in 1..Len(s) : t[n] = s[n]
  BY <1>1, LenProperties
<1>3. PICK e \in Seq(Y) : e = Each(G, s)
  <2>1. Each(G, s) \in Seq(Y)
    BY EachType
  <2> QED BY <2>1
<1>4. PICK f \in Seq(Y) : f = Each(G, t)
  <2>1. Each(G, t) \in Seq(Y)
    BY EachType
  <2> QED BY <2>1
<1>5. Len(e) = Len(s) /\ Len(f) = Len(t)
  <2>1. Len(Each(G, s)) = Len(s)
    BY EachLen
  <2>2. Len(Each(G, t)) = Len(t)
    BY EachLen
  <2> QED BY <1>3, <1>4, <2>1, <2>2
<1>6. \A n \in 1..Len(s) : e[n] = G[s[n]]
  BY <1>3, EachAt
<1>7. \A n \in 1..Len(t) : f[n] = G[t[n]]
  BY <1>4, EachAt
<1>8. PICK y \in Y : y = G[x]
  OBVIOUS
<1>9. /\ Append(e, y) \in Seq(Y) /\ Len(Append(e, y)) = Len(s) + 1
      /\ Append(e, y)[Len(s) + 1] = y
      /\ \A n \in 1..Len(s) : Append(e, y)[n] = e[n]
  BY <1>2, <1>5
<1>10. \A n \in 1..Len(f) : f[n] = Append(e, y)[n]
  BY <1>2, <1>5, <1>6, <1>7, <1>8, <1>9
<1>11. f = Append(e, y)
  BY <1>2, <1>5, <1>9, <1>10, SeqEqual
<1> QED BY <1>1, <1>3, <1>4, <1>8, <1>11

\* Functions that make a sequence over Y of each element of X.
Making(X, Y) == [X -> Seq(Y)]

LEMMA MakingAt == ASSUME NEW X, NEW Y, NEW G \in Making(X, Y), NEW x \in X PROVE G[x] \in Seq(Y)
BY DEF Making

LEMMA FlattenEmpty == FlattenSeq(<<>>) = <<>>
BY EmptySeq, FlattenIs

LEMMA FlattenAppend ==
    ASSUME NEW X, NEW seqs \in Seq(Seq(X)), NEW s \in Seq(X)
    PROVE  FlattenSeq(Append(seqs, s)) = Cat(FlattenSeq(seqs), s)
BY FlattenIs DEF Cat

LEMMA OverEmpty == ASSUME NEW G PROVE Over(G, <<>>) = <<>>
<1>1. Each(G, <<>>) = <<>>
  BY EmptySeq, LenProperties DEF Each
<1> QED BY <1>1, FlattenEmpty DEF Over

LEMMA OverAppend ==
    ASSUME NEW X, NEW Y, NEW G \in Making(X, Y), NEW s \in Seq(X), NEW x \in X
    PROVE  Over(G, Append(s, x)) = Cat(Over(G, s), G[x])
<1>1. PICK y \in Seq(Y) : y = G[x]
  BY MakingAt
<1>2. PICK e \in Seq(Seq(Y)) : e = Each(G, s)
  <2>1. Each(G, s) \in Seq(Seq(Y))
    BY EachType DEF Making
  <2> QED BY <2>1
<1>3. Each(G, Append(s, x)) = Append(Each(G, s), G[x])
  BY EachAppend DEF Making
<1>4. FlattenSeq(Append(e, y)) = Cat(FlattenSeq(e), y)
  BY FlattenAppend
<1> QED BY <1>1, <1>2, <1>3, <1>4 DEF Over

LEMMA OverType ==
    ASSUME NEW X, NEW Y, NEW G \in Making(X, Y), NEW s \in Seq(X)
    PROVE  Over(G, s) \in Seq(Y)
<1> DEFINE T == {t \in Seq(X) : Over(G, t) \in Seq(Y)}
<1>1. <<>> \in T
  BY OverEmpty, EmptySeq
<1>2. ASSUME NEW t \in T, NEW x \in X PROVE Append(t, x) \in T
  <2>1. t \in Seq(X) /\ Over(G, t) \in Seq(Y) /\ G[x] \in Seq(Y) /\ Append(t, x) \in Seq(X)
    BY MakingAt
  <2>2. Over(G, Append(t, x)) = Cat(Over(G, t), G[x])
    BY <2>1, OverAppend
  <2>3. Cat(Over(G, t), G[x]) \in Seq(Y)
    BY <2>1, CatType
  <2> QED BY <2>1, <2>2, <2>3
<1> HIDE DEF T
<1>3. T \in SUBSET Seq(X)
  BY DEF T
<1>4. T = Seq(X)
  BY <1>1, <1>2, <1>3, SequencesInductive
<1> QED BY <1>4 DEF T

LEMMA OverOne ==
    ASSUME NEW X, NEW Y, NEW G \in Making(X, Y), NEW x \in X
    PROVE  Over(G, <<x>>) = G[x]
<1>1. PICK s \in Seq(X) : s = <<>>
  BY EmptySeq
<1>2. Over(G, Append(s, x)) = Cat(Over(G, s), G[x])
  BY OverAppend
<1>3. Append(s, x) = <<x>> /\ Over(G, s) = <<>>
  BY <1>1, OverEmpty
<1>4. PICK y \in Seq(Y) : y = G[x]
  BY MakingAt
<1>5. Cat(<<>>, y) = y
  BY EmptyCat
<1> QED BY <1>2, <1>3, <1>4, <1>5

LEMMA OverCatStep ==
    ASSUME NEW X, NEW Y, NEW G \in Making(X, Y), NEW s \in Seq(X), NEW u \in Seq(X), NEW x \in X,
           Over(G, Cat(s, u)) = Cat(Over(G, s), Over(G, u))
    PROVE  Over(G, Cat(s, Append(u, x))) = Cat(Over(G, s), Over(G, Append(u, x)))
<1>1. PICK w \in Seq(X) : w = Cat(s, u)
  <2>1. Cat(s, u) \in Seq(X)
    BY CatType
  <2> QED BY <2>1
<1>2. PICK p \in Seq(Y), q \in Seq(Y), r \in Seq(Y) :
         p = Over(G, s) /\ q = Over(G, u) /\ r = G[x]
  <2>1. Over(G, s) \in Seq(Y)
    BY OverType
  <2>2. Over(G, u) \in Seq(Y)
    BY OverType
  <2>3. G[x] \in Seq(Y)
    BY MakingAt
  <2> QED BY <2>1, <2>2, <2>3
<1>3. Cat(s, Append(u, x)) = Append(Cat(s, u), x)
  BY CatAppend
<1>4. Over(G, Append(w, x)) = Cat(Over(G, w), r)
  BY <1>2, OverAppend
<1>5. Over(G, Append(u, x)) = Cat(q, r)
  BY <1>2, OverAppend
<1>6. Cat(Cat(p, q), r) = Cat(p, Cat(q, r))
  BY CatAssociative
<1> QED BY <1>1, <1>2, <1>3, <1>4, <1>5, <1>6

LEMMA OverCat ==
    ASSUME NEW X, NEW Y, NEW G \in Making(X, Y), NEW s \in Seq(X), NEW t \in Seq(X)
    PROVE  Over(G, Cat(s, t)) = Cat(Over(G, s), Over(G, t))
<1> DEFINE T == {u \in Seq(X) : Over(G, Cat(s, u)) = Cat(Over(G, s), Over(G, u))}
<1>1. <<>> \in T
  <2>1. Over(G, s) \in Seq(Y)
    BY OverType
  <2>2. Cat(s, <<>>) = s
    BY CatEmpty
  <2>3. Cat(Over(G, s), <<>>) = Over(G, s)
    BY <2>1, CatEmpty
  <2> QED BY <2>2, <2>3, OverEmpty, EmptySeq
<1>2. ASSUME NEW u \in T, NEW x \in X PROVE Append(u, x) \in T
  <2>1. u \in Seq(X) /\ Over(G, Cat(s, u)) = Cat(Over(G, s), Over(G, u)) /\ Append(u, x) \in Seq(X)
    OBVIOUS
  <2>2. Over(G, Cat(s, Append(u, x))) = Cat(Over(G, s), Over(G, Append(u, x)))
    BY <2>1, OverCatStep
  <2> QED BY <2>1, <2>2
<1> HIDE DEF T
<1>3. T \in SUBSET Seq(X)
  BY DEF T
<1>4. T = Seq(X)
  BY <1>1, <1>2, <1>3, SequencesInductive
<1> QED BY <1>4 DEF T

\* Going over what going over each made is going over both at once.
LEMMA OverOverStep ==
    ASSUME NEW X, NEW Y, NEW Z, NEW G \in Making(X, Y), NEW H \in Making(Y, Z),
           NEW B \in Making(X, Z), NEW t \in Seq(X), NEW x \in X,
           B[x] = Over(H, G[x]), Over(H, Over(G, t)) = Over(B, t)
    PROVE  Over(H, Over(G, Append(t, x))) = Over(B, Append(t, x))
<1>1. PICK p \in Seq(Y), q \in Seq(Y) : p = Over(G, t) /\ q = G[x]
  <2>1. Over(G, t) \in Seq(Y)
    BY OverType
  <2>2. G[x] \in Seq(Y)
    BY MakingAt
  <2> QED BY <2>1, <2>2
<1>2. Over(H, Cat(p, q)) = Cat(Over(H, p), Over(H, q))
  BY OverCat
<1>3. Over(G, Append(t, x)) = Cat(Over(G, t), G[x])
  BY OverAppend
<1>4. Over(B, Append(t, x)) = Cat(Over(B, t), B[x])
  BY OverAppend
<1> QED BY <1>1, <1>2, <1>3, <1>4

LEMMA OverOver ==
    ASSUME NEW X, NEW Y, NEW Z, NEW G \in Making(X, Y), NEW H \in Making(Y, Z),
           NEW B \in Making(X, Z), \A x \in X : B[x] = Over(H, G[x]),
           NEW s \in Seq(X)
    PROVE  Over(H, Over(G, s)) = Over(B, s)
<1> DEFINE T == {t \in Seq(X) : Over(H, Over(G, t)) = Over(B, t)}
<1>1. <<>> \in T
  BY OverEmpty, EmptySeq
<1>2. ASSUME NEW t \in T, NEW x \in X PROVE Append(t, x) \in T
  <2>1. /\ t \in Seq(X) /\ Append(t, x) \in Seq(X)
        /\ B[x] = Over(H, G[x]) /\ Over(H, Over(G, t)) = Over(B, t)
    OBVIOUS
  <2>2. Over(H, Over(G, Append(t, x))) = Over(B, Append(t, x))
    BY <2>1, OverOverStep
  <2> QED BY <2>1, <2>2
<1> HIDE DEF T
<1>3. T \in SUBSET Seq(X)
  BY DEF T
<1>4. T = Seq(X)
  BY <1>1, <1>2, <1>3, SequencesInductive
<1> QED BY <1>4 DEF T

\* What is made of the elements a sequence has is all that counts.
LEMMA OverAlike ==
    ASSUME NEW G, NEW H, NEW s, \A n \in DOMAIN s : G[s[n]] = H[s[n]]
    PROVE  Over(G, s) = Over(H, s)
BY DEF Over, Each

LEMMA OverNothing ==
    ASSUME NEW X, NEW G, NEW s \in Seq(X), \A n \in DOMAIN s : G[s[n]] = <<>>
    PROVE  Over(G, s) = <<>>
<1> DEFINE H == [x \in X |-> <<>>]
           T == {t \in Seq(X) : Over(H, t) = <<>>}
<1>0. H \in Making(X, {}) /\ \A x \in X : H[x] = <<>>
  BY EmptySeq DEF Making
<1> HIDE DEF H
<1>1. <<>> \in T
  BY OverEmpty, EmptySeq
<1>2. ASSUME NEW t \in T, NEW x \in X PROVE Append(t, x) \in T
  <2>1. t \in Seq(X) /\ Append(t, x) \in Seq(X) /\ Over(H, t) = <<>>
    OBVIOUS
  <2>2. Over(H, Append(t, x)) = Cat(Over(H, t), H[x])
    BY <1>0, <2>1, OverAppend
  <2>3. Cat(<<>>, <<>>) = <<>>
    BY EmptySeq, EmptyCat
  <2> QED BY <1>0, <2>1, <2>2, <2>3
<1> HIDE DEF T
<1>3. T \in SUBSET Seq(X)
  BY DEF T
<1>4. T = Seq(X)
  BY <1>1, <1>2, <1>3, SequencesInductive
<1>5. Over(H, s) = <<>>
  BY <1>4 DEF T
<1>6. \A n \in DOMAIN s : G[s[n]] = H[s[n]]
  BY <1>0, LenProperties, ElementOfSeq
<1> QED BY <1>5, <1>6, OverAlike

\* Only goes over a sequence, too.
Chosen(X, S) == [x \in X |-> IF x \in S THEN <<x>> ELSE <<>>]

LEMMA ChosenType == ASSUME NEW X, NEW S PROVE Chosen(X, S) \in Making(X, X)
BY EmptySeq DEF Chosen, Making

LEMMA OnlyIs ==
    ASSUME NEW X, NEW S, NEW s \in Seq(X)
    PROVE  Only(s, S) = Over(Chosen(X, S), s)
<1>1. \A n \in DOMAIN s : s[n] \in X
  BY LenProperties, ElementOfSeq
<1>2. Each(Chosen(X, S), s) = [n \in DOMAIN s |-> IF s[n] \in S THEN <<s[n]>> ELSE <<>>]
  BY <1>1 DEF Each, Chosen
<1> QED BY <1>2 DEF Only, Over

LEMMA OnlyType == ASSUME NEW X, NEW S, NEW s \in Seq(X) PROVE Only(s, S) \in Seq(X)
<1>1. PICK G \in Making(X, X) : G = Chosen(X, S)
  BY ChosenType
<1>2. Over(G, s) \in Seq(X)
  BY OverType
<1> QED BY <1>1, <1>2, OnlyIs

\* What comes out of a sequence comes out of one of its elements.
LEMMA ElementsOver ==
    ASSUME NEW X, NEW Y, NEW G \in Making(X, Y), NEW s \in Seq(X)
    PROVE  Range(Over(G, s)) = UNION {Range(G[x]) : x \in Range(s)}
<1> DEFINE All(t) == UNION {Range(G[x]) : x \in Range(t)}
           T == {t \in Seq(X) : Range(Over(G, t)) = All(t)}
<1>1. <<>> \in T
  BY ElementsEmpty, OverEmpty, EmptySeq
<1>2. ASSUME NEW t \in T, NEW x \in X PROVE Append(t, x) \in T
  <2>1. t \in Seq(X) /\ G[x] \in Seq(Y) /\ Append(t, x) \in Seq(X)
    BY MakingAt
  <2>2. Over(G, t) \in Seq(Y)
    BY <2>1, OverType
  <2>3. Over(G, Append(t, x)) = Cat(Over(G, t), G[x])
    BY <2>1, OverAppend
  <2>4. Range(Cat(Over(G, t), G[x])) = Range(Over(G, t)) \cup Range(G[x])
    BY <2>1, <2>2, ElementsCat
  <2>5. Range(Append(t, x)) = Range(t) \cup {x}
    BY <2>1, ElementsOfAppend
  <2>6. All(Append(t, x)) = All(t) \cup Range(G[x])
    BY <2>5
  <2>7. Range(Over(G, t)) = All(t)
    OBVIOUS
  <2> HIDE DEF All
  <2> QED BY <2>1, <2>3, <2>4, <2>6, <2>7
<1> HIDE DEF T
<1>3. T \in SUBSET Seq(X)
  BY DEF T
<1>4. T = Seq(X)
  BY <1>1, <1>2, <1>3, SequencesInductive
<1> QED BY <1>4 DEF T

LEMMA ElementsOnly ==
    ASSUME NEW X, NEW S, NEW s \in Seq(X)
    PROVE  Range(Only(s, S)) = Range(s) \cap S
<1>1. PICK G \in Making(X, X) : G = Chosen(X, S)
  BY ChosenType
<1>2. Range(Over(G, s)) = UNION {Range(G[x]) : x \in Range(s)}
  BY ElementsOver
<1>3. Only(s, S) = Over(G, s)
  BY <1>1, OnlyIs
<1>4. Range(s) \subseteq X
  BY ElementsType
<1>5. \A x \in X : Range(G[x]) = IF x \in S THEN {x} ELSE {}
  BY <1>1, ElementsEmpty, ElementsOne DEF Chosen
<1>6. Range(Only(s, S)) = UNION {Range(G[x]) : x \in Range(s)}
  BY <1>2, <1>3
<1>7. \A y : y \in Range(Only(s, S)) <=> \E x \in Range(s) : y \in Range(G[x])
  BY <1>6
<1>8. \A x \in Range(s) : \A y : y \in Range(G[x]) <=> y = x /\ x \in S
  BY <1>4, <1>5
<1>9. ASSUME NEW y PROVE y \in Range(Only(s, S)) <=> y \in Range(s) /\ y \in S
  <2>1. ASSUME y \in Range(Only(s, S)) PROVE y \in Range(s) /\ y \in S
    <3>1. PICK x \in Range(s) : y \in Range(G[x])
      BY <1>7, <2>1
    <3> QED BY <1>8, <3>1
  <2>2. ASSUME y \in Range(s), y \in S PROVE y \in Range(Only(s, S))
    <3>1. y \in Range(G[y])
      BY <1>8, <2>2
    <3> QED BY <1>7, <2>2, <3>1
  <2> QED BY <2>1, <2>2
<1> QED BY <1>9

LEMMA OverFrom ==
    ASSUME NEW X, NEW Y, NEW G \in Making(X, Y), NEW s \in Seq(X), NEW y
    PROVE  y \in Range(Over(G, s)) <=> \E x \in Range(s) : y \in Range(G[x])
<1>1. Range(Over(G, s)) = UNION {Range(G[x]) : x \in Range(s)}
  BY ElementsOver
<1> QED BY <1>1

LEMMA OnlyAlike ==
    ASSUME NEW s, NEW S, NEW T, Range(s) \cap S = Range(s) \cap T
    PROVE  Only(s, S) = Only(s, T)
<1>1. \A n \in DOMAIN s : s[n] \in S <=> s[n] \in T
  BY DEF Range
<1> QED BY <1>1 DEF Only

LEMMA OnlyNothing ==
    ASSUME NEW X, NEW s \in Seq(X), NEW S, Range(s) \cap S = {}
    PROVE  Only(s, S) = <<>>
<1>1. PICK G \in Making(X, X) : G = Chosen(X, S)
  BY ChosenType
<1>2. \A n \in DOMAIN s : s[n] \in X /\ s[n] \notin S
  BY LenProperties, ElementOfSeq DEF Range
<1>3. \A n \in DOMAIN s : G[s[n]] = <<>>
  BY <1>1, <1>2 DEF Chosen
<1>4. Over(G, s) = <<>>
  BY <1>3, OverNothing
<1> QED BY <1>1, <1>4, OnlyIs

\* Going over what a choice leaves is going over all, the rest making nothing.
Kept(G, X, S) == [x \in X |-> IF x \in S THEN G[x] ELSE <<>>]

LEMMA KeptMakes ==
    ASSUME NEW X, NEW Y, NEW G \in Making(X, Y), NEW S PROVE Kept(G, X, S) \in Making(X, Y)
BY EmptySeq DEF Kept, Making

LEMMA OverOnly ==
    ASSUME NEW X, NEW Y, NEW G \in Making(X, Y), NEW S, NEW s \in Seq(X)
    PROVE  Over(G, Only(s, S)) = Over(Kept(G, X, S), s)
<1>1. PICK C \in Making(X, X) : C = Chosen(X, S)
  BY ChosenType
<1>2. PICK B \in Making(X, Y) : B = Kept(G, X, S)
  BY KeptMakes
<1>3. ASSUME NEW x \in X PROVE B[x] = Over(G, C[x])
  <2>1. Over(G, <<x>>) = G[x]
    BY OverOne
  <2>2. Over(G, <<>>) = <<>>
    BY OverEmpty
  <2> QED BY <1>1, <1>2, <2>1, <2>2 DEF Chosen, Kept
<1>4. Over(G, Over(C, s)) = Over(B, s)
  BY <1>3, OverOver
<1>5. Only(s, S) = Over(C, s)
  BY <1>1, OnlyIs
<1> QED BY <1>2, <1>4, <1>5

-----------------------------------------------------------------------------
(* The types of what the operations make.                                  *)

LEMMA OnlyWithin ==
    ASSUME NEW X, NEW S, NEW s \in Seq(X) PROVE Only(s, S) \in Seq(X \cap S)
<1>1. Chosen(X, S) \in Making(X, X \cap S)
  <2>1. \A x \in X \cap S : <<x>> \in Seq(X \cap S)
    OBVIOUS
  <2>2. \A x \in X : (IF x \in S THEN <<x>> ELSE <<>>) \in Seq(X \cap S)
    BY <2>1, EmptySeq
  <2> QED BY <2>2 DEF Chosen, Making
<1>2. PICK G \in Making(X, X \cap S) : G = Chosen(X, S)
  BY <1>1
<1>3. Over(G, s) \in Seq(X \cap S)
  BY OverType
<1> QED BY <1>2, <1>3, OnlyIs

LEMMA SeqMonotone == ASSUME NEW X, NEW Y, X \subseteq Y, NEW s \in Seq(X) PROVE s \in Seq(Y)
<1>1. \A n \in 1..Len(s) : s[n] \in Y
  BY ElementOfSeq
<1>2. s \in [1..Len(s) -> X] /\ Len(s) \in Nat
  BY LenProperties
<1>3. s \in [1..Len(s) -> Y]
  BY <1>1, <1>2
<1> QED BY <1>2, <1>3, SeqDef

LEMMA NotEmpty == ASSUME NEW X, NEW s \in Seq(X), NEW x \in Range(s) PROVE s # <<>>
BY ElementsEmpty

LEMMA FirstElement == ASSUME NEW X, NEW s \in Seq(X), s # <<>> PROVE s[1] \in Range(s)
<1>1. Len(s) \in Nat /\ Len(s) # 0 /\ DOMAIN s = 1..Len(s)
  BY LenProperties, EmptySeq
<1>2. 1 \in DOMAIN s
  BY <1>1
<1> QED BY <1>2 DEF Range

\* Flattening is going over with what makes each sequence itself.
Itself(X) == [s \in Seq(X) |-> s]

LEMMA ItselfMakes == ASSUME NEW X PROVE Itself(X) \in Making(Seq(X), X)
BY DEF Itself, Making

LEMMA FlattenOver ==
    ASSUME NEW X, NEW seqs \in Seq(Seq(X)) PROVE FlattenSeq(seqs) = Over(Itself(X), seqs)
<1>1. DOMAIN seqs = 1..Len(seqs) /\ Len(seqs) \in Nat
  BY LenProperties
<1>2. \A n \in 1..Len(seqs) : seqs[n] \in Seq(X)
  BY ElementOfSeq
<1>3. Each(Itself(X), seqs) = [n \in 1..Len(seqs) |-> seqs[n]]
  BY <1>1, <1>2 DEF Each, Itself
<1>4. seqs = [n \in 1..Len(seqs) |-> seqs[n]]
  BY <1>1, LenProperties
<1> QED BY <1>3, <1>4 DEF Over

LEMMA FlattenType == ASSUME NEW X, NEW seqs \in Seq(Seq(X)) PROVE FlattenSeq(seqs) \in Seq(X)
<1>1. Over(Itself(X), seqs) \in Seq(X)
  BY ItselfMakes, OverType
<1> QED BY <1>1, FlattenOver

LEMMA FlattenFrom ==
    ASSUME NEW X, NEW seqs \in Seq(Seq(X)), NEW x
    PROVE  x \in Range(FlattenSeq(seqs)) <=> \E s \in Range(seqs) : x \in Range(s)
<1>1. x \in Range(Over(Itself(X), seqs))
         <=> \E s \in Range(seqs) : x \in Range(Itself(X)[s])
  BY ItselfMakes, OverFrom
<1>2. \A s \in Range(seqs) : Itself(X)[s] = s
  BY ElementsType DEF Itself
<1> QED BY <1>1, <1>2, FlattenOver

LEMMA EachFrom ==
    ASSUME NEW X, NEW G, NEW s \in Seq(X), NEW y
    PROVE  y \in Range(Each(G, s)) <=> \E x \in Range(s) : y = G[x]
<1>1. DOMAIN Each(G, s) = DOMAIN s /\ \A n \in DOMAIN s : Each(G, s)[n] = G[s[n]]
  BY DEF Each
<1> QED BY <1>1 DEF Range

\* A table of sequences, written as a function of the places of another.
LEMMA Tabulated ==
    ASSUME NEW X, NEW Y, NEW s \in Seq(X), NEW f, f = [n \in DOMAIN s |-> f[n]],
           \A n \in DOMAIN s : f[n] \in Y
    PROVE  f \in Seq(Y)
<1>1. DOMAIN s = 1..Len(s) /\ Len(s) \in Nat
  BY LenProperties
<1>2. f \in [1..Len(s) -> Y]
  BY <1>1
<1> QED BY <1>1, <1>2, SeqDef

\* Firsts has each element, once.
Places(s) == [n \in DOMAIN s |-> n]
FirstPlaces(s) == {n \in DOMAIN s : \A m \in 1..(n - 1) : s[m] # s[n]}

LEMMA FirstsIs ==
    ASSUME NEW X, NEW s \in Seq(X)
    PROVE  Firsts(s) = Each(s, Only(Places(s), FirstPlaces(s)))
BY DEF Firsts, Each, Places, FirstPlaces

LEMMA PlacesType == ASSUME NEW X, NEW s \in Seq(X) PROVE Places(s) \in Seq(DOMAIN s)
<1>1. DOMAIN s = 1..Len(s) /\ Len(s) \in Nat
  BY LenProperties
<1>2. Places(s) \in [1..Len(s) -> DOMAIN s]
  BY <1>1 DEF Places
<1> QED BY <1>1, <1>2, SeqDef

LEMMA FirstsType == ASSUME NEW X, NEW s \in Seq(X) PROVE Firsts(s) \in Seq(X)
<1>1. PICK D : D = DOMAIN s
  OBVIOUS
<1>2. PICK places \in Seq(D) : places = Only(Places(s), FirstPlaces(s))
  <2>1. Places(s) \in Seq(D)
    BY <1>1, PlacesType
  <2>2. Only(Places(s), FirstPlaces(s)) \in Seq(D)
    BY <2>1, OnlyType
  <2> QED BY <2>2
<1>3. s \in [D -> X]
  BY <1>1, LenProperties, ElementOfSeq
<1>4. Each(s, places) \in Seq(X)
  BY <1>3, EachType
<1> QED BY <1>2, <1>4, FirstsIs

LEMMA FirstsFrom ==
    ASSUME NEW X, NEW s \in Seq(X)
    PROVE  Range(Firsts(s)) = Range(s)
<1>1. PICK D : D = DOMAIN s
  OBVIOUS
<1>2. PICK all \in Seq(D) : all = Places(s)
  <2>1. Places(s) \in Seq(D)
    BY <1>1, PlacesType
  <2> QED BY <2>1
<1>3. PICK places \in Seq(D) : places = Only(all, FirstPlaces(s))
  <2>1. Only(all, FirstPlaces(s)) \in Seq(D)
    BY OnlyType
  <2> QED BY <2>1
<1>4. Range(places) = Range(all) \cap FirstPlaces(s)
  BY <1>3, ElementsOnly
<1>5. Range(all) = D
  BY <1>1, <1>2 DEF Places, Range
<1>6. \A y : y \in Range(Each(s, places)) <=> \E n \in Range(places) : y = s[n]
  BY EachFrom
<1>7. ASSUME NEW y \in Range(s) PROVE \E n \in FirstPlaces(s) : y = s[n]
  <2> DEFINE T == {n \in DOMAIN s : s[n] = y}
  <2>1. DOMAIN s = 1..Len(s) /\ Len(s) \in Nat
    BY LenProperties
  <2>2. T \in SUBSET Nat /\ T # {}
    BY <1>7, <2>1 DEF Range
  <2>3. PICK n \in T : \A m \in T : n <= m
    <3> HIDE DEF T
    <3> QED BY <2>2, LeastNumber
  <2>4. n \in FirstPlaces(s)
    BY <2>1, <2>3 DEF FirstPlaces
  <2> QED BY <2>3, <2>4
<1>8. \A n : n \in Range(places) <=> n \in D /\ n \in FirstPlaces(s)
  BY <1>4, <1>5
<1>9. \A n \in D : s[n] \in Range(s)
  BY <1>1 DEF Range
<1>10. \A n \in FirstPlaces(s) : n \in D
  BY <1>1 DEF FirstPlaces
<1>11. \A y : y \in Range(Each(s, places)) <=> y \in Range(s)
  BY <1>6, <1>7, <1>8, <1>9, <1>10
<1>12. Range(Each(s, places)) = Range(s)
  BY <1>11
<1> QED BY <1>2, <1>3, <1>12, FirstsIs

\* The last of some places is one of them.
LEMMA LastOfIs ==
    ASSUME NEW N \in Nat, NEW S \in SUBSET (1..N), S # {} PROVE LastOf(S) \in S /\ \A m \in S : m <= LastOf(S)
<1> DEFINE T == {N - n : n \in S}
<1>1. T \in SUBSET Nat /\ T # {}
  <2>1. PICK n \in S : TRUE
    OBVIOUS
  <2>2. N - n \in T
    OBVIOUS
  <2>3. \A m \in S : N - m \in Nat
    OBVIOUS
  <2> QED BY <2>2, <2>3
<1>2. PICK x \in T : \A y \in T : x <= y
  <2> HIDE DEF T
  <2> QED BY <1>1, LeastNumber
<1>3. PICK n \in S : x = N - n
  BY <1>2
<1>4. \A m \in S : m <= n
  <2> SUFFICES ASSUME NEW m \in S PROVE m <= n
    OBVIOUS
  <2>1. N - m \in T
    OBVIOUS
  <2>2. x <= N - m
    BY <1>2, <2>1
  <2> QED BY <1>3, <2>2
<1> QED BY <1>4 DEF LastOf

-----------------------------------------------------------------------------
(* A merge folds rows into rows.                                           *)

LEMMA MatchingIs ==
    ASSUME NEW X, NEW rows \in Seq(X), NEW row, NEW by, Matching(rows, row, by) # {}
    PROVE  LastOf(Matching(rows, row, by)) \in Matching(rows, row, by)
<1>1. DOMAIN rows = 1..Len(rows) /\ Len(rows) \in Nat
  BY LenProperties
<1>2. Matching(rows, row, by) \in SUBSET (1..Len(rows))
  BY <1>1 DEF Matching
<1> QED BY <1>1, <1>2, LastOfIs

\* What a row becomes when a batch is folded in.
Folded(batch, row, by) ==
    IF Matching(batch, row, by) = {} THEN row ELSE batch[LastOf(Matching(batch, row, by))]

LEMMA LastType ==
    ASSUME NEW X, NEW batch \in Seq(X), NEW row, NEW by, Matching(batch, row, by) # {}
    PROVE  batch[LastOf(Matching(batch, row, by))] \in X
<1>1. LastOf(Matching(batch, row, by)) \in DOMAIN batch
  BY MatchingIs DEF Matching
<1> QED BY <1>1, LenProperties, ElementOfSeq

LEMMA FoldedType ==
    ASSUME NEW X, NEW batch \in Seq(X), NEW row \in X, NEW by
    PROVE  Folded(batch, row, by) \in X
BY LastType DEF Folded

Replacing(X, batch, by) == [row \in X |-> Folded(batch, row, by)]
ReplacingEach(X, batch, by) == [rows \in Seq(X) |-> Each(Replacing(X, batch, by), rows)]

LEMMA ReplacingMaps ==
    ASSUME NEW X, NEW batch \in Seq(X), NEW by
    PROVE  Replacing(X, batch, by) \in [X -> X]
BY FoldedType DEF Replacing

LEMMA ReplacingEachMaps ==
    ASSUME NEW X, NEW batch \in Seq(X), NEW by
    PROVE  ReplacingEach(X, batch, by) \in [Seq(X) -> Seq(X)]
<1>1. PICK G \in [X -> X] : G = Replacing(X, batch, by)
  BY ReplacingMaps
<1>2. \A rows \in Seq(X) : Each(G, rows) \in Seq(X)
  BY EachType
<1> QED BY <1>1, <1>2 DEF ReplacingEach

\* What of a batch no stored row matches, and what of it is added.
Arrivals(stored, batch, by) ==
    Only(batch, {row \in Range(batch) : Matching(stored, row, by) = {}})
LastArrivals(added, by) ==
    [n \in DOMAIN added |-> added[LastOf(Matching(added, added[n], by))]]

LEMMA FoldInIs ==
    ASSUME NEW X, NEW held \in Seq(Seq(X)), NEW batch \in Seq(X), NEW by
    PROVE  FoldIn(held, batch, by)
             = Append(Each(ReplacingEach(X, batch, by), held),
                      Firsts(LastArrivals(Arrivals(FlattenSeq(held), batch, by), by)))
<1>1. \A b \in DOMAIN held : held[b] \in Seq(X)
  BY LenProperties, ElementOfSeq
<1>2. \A b \in DOMAIN held : \A n \in DOMAIN held[b] : held[b][n] \in X
  BY <1>1, LenProperties, ElementOfSeq
<1>3. Each(ReplacingEach(X, batch, by), held)
        = [b \in DOMAIN held |-> Each(Replacing(X, batch, by), held[b])]
  BY <1>1 DEF Each, ReplacingEach
<1>4. \A b \in DOMAIN held :
        Each(Replacing(X, batch, by), held[b])
          = [n \in DOMAIN held[b] |->
               IF Matching(batch, held[b][n], by) = {} THEN held[b][n]
               ELSE batch[LastOf(Matching(batch, held[b][n], by))]]
  BY <1>2 DEF Each, Replacing, Folded
<1>5. Each(ReplacingEach(X, batch, by), held)
        = [b \in DOMAIN held |-> [n \in DOMAIN held[b] |->
             IF Matching(batch, held[b][n], by) = {} THEN held[b][n]
             ELSE batch[LastOf(Matching(batch, held[b][n], by))]]]
  BY <1>3, <1>4
<1> QED BY <1>5 DEF FoldIn, Arrivals, LastArrivals

LEMMA LastArrivalsType ==
    ASSUME NEW X, NEW added \in Seq(X), NEW by PROVE LastArrivals(added, by) \in Seq(X)
<1>1. ASSUME NEW n \in DOMAIN added PROVE added[LastOf(Matching(added, added[n], by))] \in X
  <2>1. n \in Matching(added, added[n], by)
    BY DEF Matching
  <2>2. Matching(added, added[n], by) # {}
    BY <2>1
  <2> QED BY <2>2, LastType
<1>2. PICK f : f = LastArrivals(added, by)
  OBVIOUS
<1>3. f = [n \in DOMAIN added |-> f[n]] /\ \A n \in DOMAIN added : f[n] \in X
  BY <1>1, <1>2 DEF LastArrivals
<1>4. f \in Seq(X)
  BY <1>3, Tabulated
<1> QED BY <1>2, <1>4

LEMMA FoldInType ==
    ASSUME NEW X, NEW held \in Seq(Seq(X)), NEW batch \in Seq(X), NEW by
    PROVE  FoldIn(held, batch, by) \in Seq(Seq(X))
<1>1. PICK G \in [Seq(X) -> Seq(X)] : G = ReplacingEach(X, batch, by)
  BY ReplacingEachMaps
<1>2. Each(G, held) \in Seq(Seq(X))
  BY EachType
<1>3. PICK added \in Seq(X) : added = Arrivals(FlattenSeq(held), batch, by)
  <2>1. Arrivals(FlattenSeq(held), batch, by) \in Seq(X)
    BY OnlyType DEF Arrivals
  <2> QED BY <2>1
<1>4. PICK last \in Seq(X) : last = LastArrivals(added, by)
  BY LastArrivalsType
<1>5. Firsts(last) \in Seq(X)
  BY FirstsType
<1>6. FoldIn(held, batch, by) = Append(Each(G, held), Firsts(last))
  BY <1>1, <1>3, <1>4, FoldInIs
<1> HIDE DEF FoldIn
<1> QED BY <1>2, <1>5, <1>6

\* The equation Merged's recursive function satisfies.
Merges(f, N, held, batches, by) ==
    f = [n \in 0..N |-> IF n = 0 THEN held ELSE FoldIn(f[n - 1], batches[n], by)]

LEMMA MergingExists ==
    ASSUME NEW N \in Nat, NEW held, NEW batches, NEW by
    PROVE  \E f : Merges(f, N, held, batches, by)
<1> DEFINE Go(f, n) == IF n = 0 THEN held ELSE FoldIn(f[n - 1], batches[n], by)
           T == {m \in Nat : \E f : Merges(f, m, held, batches, by)}
<1>1. 0 \in T
  <2> DEFINE e == [n \in 0..0 |-> held]
  <2>1. e = [n \in 0..0 |-> Go(e, n)]
    <3>1. \A n \in 0..0 : n = 0
      OBVIOUS
    <3> QED BY <3>1
  <2>2. Merges(e, 0, held, batches, by)
    BY <2>1 DEF Merges
  <2> QED BY <2>2
<1>2. ASSUME NEW m \in T PROVE m + 1 \in T
  <2>1. PICK f : Merges(f, m, held, batches, by)
    BY <1>2
  <2> DEFINE longer == [n \in 0..(m + 1) |-> IF n \in 0..m THEN f[n] ELSE Go(f, n)]
  <2>2. \A n \in 0..m : f[n] = Go(f, n)
    BY <2>1 DEF Merges
  <2>3. \A n \in 0..(m + 1) : n # 0 => longer[n - 1] = f[n - 1]
    OBVIOUS
  <2>4. \A n \in 0..(m + 1) : Go(longer, n) = Go(f, n)
    BY <2>3
  <2>5. \A n \in 0..(m + 1) : longer[n] = Go(longer, n)
    BY <2>2, <2>4
  <2>6. longer = [n \in 0..(m + 1) |-> Go(longer, n)]
    <3>1. longer = [n \in 0..(m + 1) |-> longer[n]]
      OBVIOUS
    <3> HIDE DEF longer, Go
    <3> QED BY <2>5, <3>1
  <2> HIDE DEF longer
  <2>7. Merges(longer, m + 1, held, batches, by)
    BY <2>6 DEF Merges
  <2> QED BY <2>7
<1>3. T = Nat
  <2> HIDE DEF T
  <2>1. T \in SUBSET Nat
    BY DEF T
  <2> QED BY <1>1, <1>2, <2>1, Inductive
<1> QED BY <1>3

\* The tables a merge goes through, batch by batch.
MergesThrough(f, held, batches, by) ==
    /\ Merged(held, batches, by) = f[Len(batches)]
    /\ f[0] = held
    /\ \A n \in 1..Len(batches) : f[n] = FoldIn(f[n - 1], batches[n], by)

LEMMA MergedIs ==
    ASSUME NEW held, NEW batches, Len(batches) \in Nat, NEW by
    PROVE  \E f : MergesThrough(f, held, batches, by)
<1>1. Len(batches) \in Nat
  OBVIOUS
<1>2. \E f : Merges(f, Len(batches), held, batches, by)
  BY <1>1, MergingExists
<1> DEFINE F == CHOOSE f : Merges(f, Len(batches), held, batches, by)
<1>3. Merged(held, batches, by) = F[Len(batches)]
  BY DEF Merged, Merges
<1>4. Merges(F, Len(batches), held, batches, by)
  BY <1>2
<1> HIDE DEF F
<1>5. \A n \in 0..Len(batches) :
         F[n] = IF n = 0 THEN held ELSE FoldIn(F[n - 1], batches[n], by)
  BY <1>4 DEF Merges
<1>6. F[0] = held /\ \A n \in 1..Len(batches) : F[n] = FoldIn(F[n - 1], batches[n], by)
  BY <1>1, <1>5
<1> QED BY <1>3, <1>6 DEF MergesThrough

LEMMA MergedType ==
    ASSUME NEW X, NEW held \in Seq(Seq(X)), NEW batches \in Seq(Seq(X)), NEW by
    PROVE  Merged(held, batches, by) \in Seq(Seq(X))
<1>0. PICK f : MergesThrough(f, held, batches, by)
  BY MergedIs, LenProperties
<1>1. /\ Merged(held, batches, by) = f[Len(batches)]
      /\ f[0] = held
      /\ \A n \in 1..Len(batches) : f[n] = FoldIn(f[n - 1], batches[n], by)
  BY <1>0 DEF MergesThrough
<1>2. Len(batches) \in Nat /\ \A n \in 1..Len(batches) : batches[n] \in Seq(X)
  BY LenProperties, ElementOfSeq
<1> DEFINE T == {n \in Nat : n <= Len(batches) => f[n] \in Seq(Seq(X))}
<1>3. 0 \in T
  BY <1>1
<1>4. ASSUME NEW n \in T PROVE n + 1 \in T
  <2> SUFFICES ASSUME n + 1 <= Len(batches) PROVE f[n + 1] \in Seq(Seq(X))
    OBVIOUS
  <2>1. n \in Nat /\ f[n] \in Seq(Seq(X)) /\ n + 1 \in 1..Len(batches) /\ (n + 1) - 1 = n
    BY <1>2
  <2>2. f[n + 1] = FoldIn(f[n], batches[n + 1], by) /\ batches[n + 1] \in Seq(X)
    BY <1>1, <1>2, <2>1
  <2>3. FoldIn(f[n], batches[n + 1], by) \in Seq(Seq(X))
    BY <2>1, <2>2, FoldInType
  <2> QED BY <2>2, <2>3
<1>5. T = Nat
  <2> HIDE DEF T
  <2>1. T \in SUBSET Nat
    BY DEF T
  <2> QED BY <1>3, <1>4, <2>1, Inductive
<1>6. Len(batches) \in T
  BY <1>2, <1>5
<1> QED BY <1>1, <1>2, <1>6

LEMMA SeqWithin ==
    ASSUME NEW X, NEW s \in Seq(X), NEW Y, Range(s) \subseteq Y PROVE s \in Seq(Y)
<1>1. DOMAIN s = 1..Len(s) /\ Len(s) \in Nat
  BY LenProperties
<1>2. \A n \in 1..Len(s) : s[n] \in Y
  BY <1>1 DEF Range
<1>3. s \in [1..Len(s) -> Y]
  BY <1>1, <1>2, LenProperties
<1> QED BY <1>1, <1>3, SeqDef

-----------------------------------------------------------------------------
(* Counting: sequences are the same rows when each row is as often in both. *)

Count(s, x) == Len(Only(s, {x}))
Same(s, t) == \A x : Count(s, x) = Count(t, x)

LEMMA CountType == ASSUME NEW X, NEW s \in Seq(X), NEW x PROVE Count(s, x) \in Nat
<1>1. Only(s, {x}) \in Seq(X)
  BY OnlyType
<1> QED BY <1>1, LenProperties DEF Count

LEMMA OnlyEmpty == ASSUME NEW S PROVE Only(<<>>, S) = <<>>
<1>1. PICK s \in Seq({}) : s = <<>>
  BY EmptySeq
<1>2. Range(s) \cap S = {}
  BY <1>1, ElementsEmpty
<1>3. Only(s, S) = <<>>
  BY <1>2, OnlyNothing
<1> QED BY <1>1, <1>3

LEMMA OnlyAppend ==
    ASSUME NEW X, NEW s \in Seq(X), NEW y \in X, NEW S
    PROVE  Only(Append(s, y), S) = IF y \in S THEN Append(Only(s, S), y) ELSE Only(s, S)
<1>1. PICK C \in Making(X, X) : C = Chosen(X, S)
  BY ChosenType
<1>2. Over(C, Append(s, y)) = Cat(Over(C, s), C[y])
  BY OverAppend
<1>3. PICK t \in Seq(X) : t = Append(s, y)
  <2>1. Append(s, y) \in Seq(X)
    OBVIOUS
  <2> QED BY <2>1
<1>4. Only(t, S) = Over(C, t) /\ Only(s, S) = Over(C, s)
  BY <1>1, OnlyIs
<1>5. PICK o \in Seq(X) : o = Only(s, S)
  BY OnlyType
<1>6. CASE y \in S
  <2>1. C[y] = <<y>>
    BY <1>1, <1>6 DEF Chosen
  <2>2. Cat(o, <<y>>) = Append(o, y)
    BY DEF Cat
  <2> QED BY <1>2, <1>3, <1>4, <1>5, <1>6, <2>1, <2>2
<1>7. CASE y \notin S
  <2>1. C[y] = <<>>
    BY <1>1, <1>7 DEF Chosen
  <2>2. Cat(o, <<>>) = o
    BY CatEmpty
  <2> QED BY <1>2, <1>3, <1>4, <1>5, <1>7, <2>1, <2>2
<1> QED BY <1>6, <1>7

LEMMA OnlyCat ==
    ASSUME NEW X, NEW s \in Seq(X), NEW t \in Seq(X), NEW S
    PROVE  Only(Cat(s, t), S) = Cat(Only(s, S), Only(t, S))
<1>1. PICK C \in Making(X, X) : C = Chosen(X, S)
  BY ChosenType
<1>2. Over(C, Cat(s, t)) = Cat(Over(C, s), Over(C, t))
  BY OverCat
<1>3. PICK u \in Seq(X) : u = Cat(s, t)
  BY CatType
<1>4. Only(u, S) = Over(C, u)
  BY <1>1, OnlyIs
<1>5. Only(s, S) = Over(C, s)
  BY <1>1, OnlyIs
<1>6. Only(t, S) = Over(C, t)
  BY <1>1, OnlyIs
<1> QED BY <1>2, <1>3, <1>4, <1>5, <1>6

LEMMA OnlyTwice ==
    ASSUME NEW X, NEW s \in Seq(X), NEW S, NEW T
    PROVE  Only(Only(s, S), T) = Only(s, S \cap T)
<1>1. PICK C \in Making(X, X) : C = Chosen(X, T)
  BY ChosenType
<1>2. PICK B \in Making(X, X) : B = Chosen(X, S \cap T)
  BY ChosenType
<1>3. PICK K \in Making(X, X) : K = Kept(C, X, S)
  BY KeptMakes
<1>4. PICK o \in Seq(X) : o = Only(s, S)
  BY OnlyType
<1>5. Over(C, Only(s, S)) = Over(Kept(C, X, S), s)
  BY OverOnly
<1>6. \A x \in X : K[x] = B[x]
  BY <1>1, <1>2, <1>3 DEF Kept, Chosen
<1>7. \A n \in DOMAIN s : K[s[n]] = B[s[n]]
  BY <1>6, LenProperties, ElementOfSeq
<1>8. Over(K, s) = Over(B, s)
  BY <1>7, OverAlike
<1>9. Only(o, T) = Over(C, o)
  BY <1>1, OnlyIs
<1>10. Only(s, S \cap T) = Over(B, s)
  BY <1>2, OnlyIs
<1> QED BY <1>3, <1>4, <1>5, <1>8, <1>9, <1>10

LEMMA CountEmpty == ASSUME NEW x PROVE Count(<<>>, x) = 0
BY OnlyEmpty, EmptySeq DEF Count

LEMMA CountAppend ==
    ASSUME NEW X, NEW s \in Seq(X), NEW y \in X, NEW x
    PROVE  Count(Append(s, y), x) = Count(s, x) + IF y = x THEN 1 ELSE 0
<1>1. Only(Append(s, y), {x}) = IF y \in {x} THEN Append(Only(s, {x}), y) ELSE Only(s, {x})
  BY OnlyAppend
<1>2. PICK o \in Seq(X) : o = Only(s, {x})
  BY OnlyType
<1>3. Len(Append(o, y)) = Len(o) + 1 /\ Len(o) \in Nat
  OBVIOUS
<1>4. CASE y = x
  BY <1>1, <1>2, <1>3, <1>4 DEF Count
<1>5. CASE y # x
  BY <1>1, <1>2, <1>3, <1>5 DEF Count
<1> QED BY <1>4, <1>5

LEMMA CountCat ==
    ASSUME NEW X, NEW s \in Seq(X), NEW t \in Seq(X), NEW x
    PROVE  Count(Cat(s, t), x) = Count(s, x) + Count(t, x)
<1>1. Only(Cat(s, t), {x}) = Cat(Only(s, {x}), Only(t, {x}))
  BY OnlyCat
<1>2. PICK o \in Seq(X) : o = Only(s, {x})
  BY OnlyType
<1>3. PICK p \in Seq(X) : p = Only(t, {x})
  BY OnlyType
<1>4. Len(Cat(o, p)) = Len(o) + Len(p)
  BY ConcatProperties DEF Cat
<1> QED BY <1>1, <1>2, <1>3, <1>4 DEF Count

LEMMA CountOnly ==
    ASSUME NEW X, NEW s \in Seq(X), NEW S, NEW x
    PROVE  Count(Only(s, S), x) = IF x \in S THEN Count(s, x) ELSE 0
<1>1. Only(Only(s, S), {x}) = Only(s, S \cap {x})
  BY OnlyTwice
<1>2. CASE x \in S
  <2>1. S \cap {x} = {x}
    BY <1>2
  <2> QED BY <1>1, <1>2, <2>1 DEF Count
<1>3. CASE x \notin S
  <2>1. Range(s) \cap (S \cap {x}) = {}
    BY <1>3
  <2>2. Only(s, S \cap {x}) = <<>>
    BY <2>1, OnlyNothing
  <2> QED BY <1>1, <1>3, <2>2, EmptySeq DEF Count
<1> QED BY <1>2, <1>3

LEMMA CountIn ==
    ASSUME NEW X, NEW s \in Seq(X), NEW x
    PROVE  Count(s, x) # 0 <=> x \in Range(s)
<1>1. Range(Only(s, {x})) = Range(s) \cap {x}
  BY ElementsOnly
<1>2. PICK o \in Seq(X) : o = Only(s, {x})
  BY OnlyType
<1>3. ASSUME o = <<>> PROVE Range(o) = {}
  BY <1>3, ElementsEmpty
<1>4. ASSUME o # <<>> PROVE Range(o) # {}
  BY <1>4, FirstElement
<1>5. Len(o) = 0 <=> o = <<>>
  BY EmptySeq
<1> QED BY <1>1, <1>2, <1>3, <1>4, <1>5 DEF Count

PlacesOf(s, x) == {i \in DOMAIN s : s[i] = x}

LEMMA CardinalityIsCount ==
    ASSUME NEW X, NEW s \in Seq(X), NEW x
    PROVE  Cardinality(PlacesOf(s, x)) = Count(s, x)
<1> DEFINE T == {t \in Seq(X) : IsFiniteSet(PlacesOf(t, x)) /\ Cardinality(PlacesOf(t, x)) = Count(t, x)}
<1>1. <<>> \in T
  <2>1. PlacesOf(<<>>, x) = {}
    BY EmptySeq DEF PlacesOf
  <2> QED BY <2>1, CountEmpty, EmptySeq, FS_EmptySet
<1>2. ASSUME NEW t \in T, NEW y \in X PROVE Append(t, y) \in T
  <2>1. /\ t \in Seq(X) /\ IsFiniteSet(PlacesOf(t, x)) /\ Cardinality(PlacesOf(t, x)) = Count(t, x)
        /\ Append(t, y) \in Seq(X)
    OBVIOUS
  <2>2. /\ DOMAIN t = 1..Len(t) /\ Len(t) \in Nat /\ DOMAIN Append(t, y) = 1..(Len(t) + 1)
        /\ \A i \in 1..Len(t) : Append(t, y)[i] = t[i]
        /\ Append(t, y)[Len(t) + 1] = y
    BY <2>1, LenProperties, AppendProperties
  <2>3. Count(Append(t, y), x) = Count(t, x) + IF y = x THEN 1 ELSE 0
    BY <2>1, CountAppend
  <2>4. Count(t, x) \in Nat
    BY <2>1, CountType
  <2>5. CASE y = x
    <3>1. PlacesOf(Append(t, y), x) = PlacesOf(t, x) \cup {Len(t) + 1}
      BY <2>2, <2>5 DEF PlacesOf
    <3>2. Len(t) + 1 \notin PlacesOf(t, x)
      BY <2>2 DEF PlacesOf
    <3>3. /\ IsFiniteSet(PlacesOf(t, x) \cup {Len(t) + 1})
          /\ Cardinality(PlacesOf(t, x) \cup {Len(t) + 1}) = Cardinality(PlacesOf(t, x)) + 1
      BY <2>1, <3>2, FS_AddElement
    <3> QED BY <2>1, <2>3, <2>4, <2>5, <3>1, <3>3
  <2>6. CASE y # x
    <3>1. PlacesOf(Append(t, y), x) = PlacesOf(t, x)
      BY <2>2, <2>6 DEF PlacesOf
    <3> QED BY <2>1, <2>3, <2>4, <2>6, <3>1
  <2> QED BY <2>5, <2>6
<1> HIDE DEF T
<1>3. T \in SUBSET Seq(X)
  BY DEF T
<1>4. T = Seq(X)
  BY <1>1, <1>2, <1>3, SequencesInductive
<1> QED BY <1>4 DEF T

LEMMA SameIsSameRows ==
    ASSUME NEW X, NEW s \in Seq(X), NEW t \in Seq(X), Same(s, t)
    PROVE  SameRows(s, t)
<1>1. Range(s) = Range(t)
  <2>1. /\ \A x : x \in Range(s) <=> x \in Range(s)
        /\ \A x : x \in Range(t) <=> x \in Range(t)
    BY DEF Range, Range
  <2>2. \A x : Count(s, x) # 0 <=> x \in Range(s)
    BY CountIn
  <2>3. \A x : Count(t, x) # 0 <=> x \in Range(t)
    BY CountIn
  <2>4. \A x : x \in Range(s) <=> x \in Range(t)
    BY <2>2, <2>3 DEF Same
  <2>5. \A x : x \in Range(s) <=> x \in Range(t)
    BY <2>1, <2>4
  <2> QED BY <2>5
<1>2. ASSUME NEW x PROVE Cardinality(PlacesOf(s, x)) = Cardinality(PlacesOf(t, x))
  <2>1. Cardinality(PlacesOf(s, x)) = Count(s, x)
    BY CardinalityIsCount
  <2>2. Cardinality(PlacesOf(t, x)) = Count(t, x)
    BY CardinalityIsCount
  <2> QED BY <2>1, <2>2 DEF Same
<1>3. [x \in Range(s) |-> Cardinality(PlacesOf(s, x))] = [x \in Range(t) |-> Cardinality(PlacesOf(t, x))]
  BY <1>1, <1>2
<1> QED BY <1>3 DEF SameRows, ToBag, PlacesOf

\* Rows that are the same make the same.
LEMMA Parting ==
    ASSUME NEW X, NEW s \in Seq(X), NEW x \in Range(s)
    PROVE  \E t \in Seq(X), u \in Seq(X) : s = Cat(Append(t, x), u)
<1> DEFINE Parts(t) == \E u \in Seq(X), v \in Seq(X) : t = Cat(Append(u, x), v)
           T == {t \in Seq(X) : x \in Range(t) => Parts(t)}
<1>1. <<>> \in T
  BY ElementsEmpty, EmptySeq
<1>2. ASSUME NEW t \in T, NEW y \in X PROVE Append(t, y) \in T
  <2>1. t \in Seq(X) /\ Append(t, y) \in Seq(X) /\ (x \in Range(t) => Parts(t))
    OBVIOUS
  <2>2. Range(Append(t, y)) = Range(t) \cup {y}
    BY <2>1, ElementsOfAppend
  <2>3. ASSUME x = y PROVE Parts(Append(t, y))
    <3>1. PICK a \in Seq(X) : a = Append(t, x)
      BY <2>1, <2>3
    <3>2. Cat(a, <<>>) = a
      BY CatEmpty
    <3>3. <<>> \in Seq(X)
      BY EmptySeq
    <3>4. Append(t, y) = Cat(Append(t, x), <<>>)
      BY <2>3, <3>1, <3>2
    <3> QED BY <2>1, <3>3, <3>4
  <2>4. ASSUME x \in Range(t) PROVE Parts(Append(t, y))
    <3>1. PICK u \in Seq(X), v \in Seq(X) : t = Cat(Append(u, x), v)
      BY <2>1, <2>4
    <3>2. PICK a \in Seq(X) : a = Append(u, x)
      <4>1. x \in X
        BY <2>1, <2>4, ElementsType
      <4>2. Append(u, x) \in Seq(X)
        BY <4>1
      <4> QED BY <4>2
    <3>3. Cat(a, Append(v, y)) = Append(Cat(a, v), y)
      BY CatAppend
    <3>4. Append(v, y) \in Seq(X)
      OBVIOUS
    <3> QED BY <3>1, <3>2, <3>3, <3>4
  <2> HIDE DEF Parts
  <2>5. x \in Range(Append(t, y)) => Parts(Append(t, y))
    BY <2>2, <2>3, <2>4
  <2> QED BY <2>1, <2>5
<1> HIDE DEF T
<1>3. T \in SUBSET Seq(X)
  BY DEF T
<1>4. T = Seq(X)
  BY <1>1, <1>2, <1>3, SequencesInductive
<1> QED BY <1>4 DEF T

LEMMA CountParted ==
    ASSUME NEW X, NEW t \in Seq(X), NEW u \in Seq(X), NEW x \in X, NEW y
    PROVE  Count(Cat(Append(t, x), u), y) = Count(Cat(t, u), y) + IF x = y THEN 1 ELSE 0
<1>1. PICK a \in Seq(X) : a = Append(t, x)
  <2>1. Append(t, x) \in Seq(X)
    OBVIOUS
  <2> QED BY <2>1
<1>2. Count(Append(t, x), y) = Count(t, y) + IF x = y THEN 1 ELSE 0
  BY CountAppend
<1>3. Count(Cat(a, u), y) = Count(a, y) + Count(u, y)
  BY CountCat
<1>4. Count(Cat(t, u), y) = Count(t, y) + Count(u, y)
  BY CountCat
<1>5. Count(t, y) \in Nat
  BY CountType
<1>6. Count(u, y) \in Nat
  BY CountType
<1> QED BY <1>1, <1>2, <1>3, <1>4, <1>5, <1>6

LEMMA OverParted ==
    ASSUME NEW X, NEW Y, NEW G \in Making(X, Y), NEW t \in Seq(X), NEW u \in Seq(X),
           NEW x \in X, NEW y
    PROVE  Count(Over(G, Cat(Append(t, x), u)), y)
             = Count(Over(G, Cat(t, u)), y) + Count(G[x], y)
<1>1. PICK a \in Seq(X) : a = Append(t, x)
  <2>1. Append(t, x) \in Seq(X)
    OBVIOUS
  <2> QED BY <2>1
<1>2. PICK p \in Seq(Y) : p = Over(G, t)
  BY OverType
<1>3. PICK q \in Seq(Y) : q = Over(G, u)
  BY OverType
<1>4. PICK g \in Seq(Y) : g = G[x]
  BY MakingAt
<1>5. Over(G, Append(t, x)) = Cat(Over(G, t), G[x])
  BY OverAppend
<1>6. Over(G, Cat(a, u)) = Cat(Over(G, a), Over(G, u))
  BY OverCat
<1>7. Over(G, Cat(t, u)) = Cat(Over(G, t), Over(G, u))
  BY OverCat
<1>8. PICK pg \in Seq(Y) : pg = Cat(p, g)
  BY CatType
<1>9. Count(Cat(p, g), y) = Count(p, y) + Count(g, y)
  BY CountCat
<1>10. Count(Cat(pg, q), y) = Count(pg, y) + Count(q, y)
  BY CountCat
<1>11. Count(Cat(p, q), y) = Count(p, y) + Count(q, y)
  BY CountCat
<1>12. Count(p, y) \in Nat
  BY CountType
<1>13. Count(q, y) \in Nat
  BY CountType
<1>14. Count(g, y) \in Nat
  BY CountType
<1>15. /\ Over(G, Cat(Append(t, x), u)) = Cat(pg, q)
       /\ Over(G, Cat(t, u)) = Cat(p, q)
  BY <1>1, <1>2, <1>3, <1>4, <1>5, <1>6, <1>7, <1>8
<1> QED BY <1>4, <1>8, <1>9, <1>10, <1>11, <1>12, <1>13, <1>14, <1>15

\* What is made of an element the more is what is made of it at the end.
LEMMA SameOverStep ==
    ASSUME NEW X, NEW Y, NEW G \in Making(X, Y), NEW s \in Seq(X), NEW x \in X,
           \A t \in Seq(X) : Same(s, t) => Same(Over(G, s), Over(G, t)),
           NEW r \in Seq(X), Same(Append(s, x), r)
    PROVE  Same(Over(G, Append(s, x)), Over(G, r))
<1>1. Count(Append(s, x), x) = Count(s, x) + 1 /\ Count(s, x) \in Nat
  BY CountAppend, CountType
<1>2. Count(r, x) # 0
  BY <1>1 DEF Same
<1>3. x \in Range(r)
  BY <1>2, CountIn
<1>4. PICK t \in Seq(X), u \in Seq(X) : r = Cat(Append(t, x), u)
  BY <1>3, Parting
<1>5. PICK c \in Seq(X) : c = Cat(t, u)
  BY CatType
<1>6. ASSUME NEW y PROVE Count(s, y) = Count(c, y)
  <2>1. Count(Append(s, x), y) = Count(s, y) + IF x = y THEN 1 ELSE 0
    BY CountAppend
  <2>2. Count(Cat(Append(t, x), u), y) = Count(Cat(t, u), y) + IF x = y THEN 1 ELSE 0
    BY CountParted
  <2>3. Count(s, y) \in Nat
    BY CountType
  <2>4. Count(c, y) \in Nat
    BY CountType
  <2>5. Count(Append(s, x), y) = Count(r, y)
    BY DEF Same
  <2> QED BY <1>4, <1>5, <2>1, <2>2, <2>3, <2>4, <2>5
<1>7. Same(s, c)
  BY <1>6 DEF Same
<1>8. Same(Over(G, s), Over(G, c))
  BY <1>7
<1>9. ASSUME NEW y PROVE Count(Over(G, Append(s, x)), y) = Count(Over(G, r), y)
  <2>1. Count(Over(G, Cat(Append(t, x), u)), y) = Count(Over(G, Cat(t, u)), y) + Count(G[x], y)
    BY OverParted
  <2>2. Over(G, Append(s, x)) = Cat(Over(G, s), G[x])
    BY OverAppend
  <2>3. PICK p \in Seq(Y) : p = Over(G, s)
    BY OverType
  <2>4. PICK g \in Seq(Y) : g = G[x]
    BY MakingAt
  <2>5. Count(Cat(p, g), y) = Count(p, y) + Count(g, y)
    BY CountCat
  <2>6. Count(Over(G, s), y) = Count(Over(G, c), y)
    BY <1>8 DEF Same
  <2> QED BY <1>4, <1>5, <2>1, <2>2, <2>3, <2>4, <2>5, <2>6
<1> QED BY <1>9 DEF Same

LEMMA SameOver ==
    ASSUME NEW X, NEW Y, NEW G \in Making(X, Y), NEW s \in Seq(X), NEW t \in Seq(X), Same(s, t)
    PROVE  Same(Over(G, s), Over(G, t))
<1> DEFINE Good(r) == \A q \in Seq(X) : Same(r, q) => Same(Over(G, r), Over(G, q))
           T == {r \in Seq(X) : Good(r)}
<1>1. <<>> \in T
  <2>1. ASSUME NEW q \in Seq(X), Same(<<>>, q) PROVE Same(Over(G, <<>>), Over(G, q))
    <3>1. ASSUME NEW x PROVE x \notin Range(q)
      <4>1. Count(q, x) = 0
        BY <2>1, CountEmpty DEF Same
      <4> QED BY <4>1, CountIn
    <3>2. q = <<>>
      BY <3>1, FirstElement
    <3> QED BY <3>2 DEF Same
  <2>2. <<>> \in Seq(X)
    BY EmptySeq
  <2> QED BY <2>1, <2>2
<1>2. ASSUME NEW r \in T, NEW x \in X PROVE Append(r, x) \in T
  <2>1. r \in Seq(X) /\ Append(r, x) \in Seq(X)
    OBVIOUS
  <2>2. \A q \in Seq(X) : Same(r, q) => Same(Over(G, r), Over(G, q))
    OBVIOUS
  <2>3. ASSUME NEW q \in Seq(X), Same(Append(r, x), q)
        PROVE  Same(Over(G, Append(r, x)), Over(G, q))
    BY <2>1, <2>2, <2>3, SameOverStep
  <2> QED BY <2>1, <2>3
<1> HIDE DEF T
<1>3. T \in SUBSET Seq(X)
  BY DEF T
<1>4. T = Seq(X)
  BY <1>1, <1>2, <1>3, SequencesInductive
<1> QED BY <1>4 DEF T

-----------------------------------------------------------------------------
(* Grouping moves rows and loses none.                                     *)

LEMMA CountFirsts ==
    ASSUME NEW X, NEW s \in Seq(X), NEW k \in Range(s)
    PROVE  Count(Firsts(s), k) = 1
<1>1. PICK D : D = DOMAIN s
  OBVIOUS
<1>2. PICK all \in Seq(D) : all = Places(s)
  <2>1. Places(s) \in Seq(D)
    BY <1>1, PlacesType
  <2> QED BY <2>1
<1>3. PICK places \in Seq(D) : places = Only(all, FirstPlaces(s))
  <2>1. Only(all, FirstPlaces(s)) \in Seq(D)
    BY OnlyType
  <2> QED BY <2>1
<1>4. PICK firsts \in Seq(X) : firsts = Firsts(s)
  BY FirstsType
<1>5. firsts = Each(s, places)
  BY <1>2, <1>3, <1>4, FirstsIs
<1>6. D = 1..Len(s) /\ Len(s) \in Nat
  BY <1>1, LenProperties
<1>7. PICK first \in FirstPlaces(s) : s[first] = k
  <2> DEFINE T == {n \in DOMAIN s : s[n] = k}
  <2>1. T \in SUBSET Nat /\ T # {}
    BY <1>1, <1>6 DEF Range
  <2>2. PICK n \in T : \A m \in T : n <= m
    <3> HIDE DEF T
    <3> QED BY <2>1, LeastNumber
  <2>3. n \in FirstPlaces(s)
    <3>1. DOMAIN s = 1..Len(s) /\ Len(s) \in Nat
      BY <1>1, <1>6
    <3>2. n \in DOMAIN s /\ s[n] = k OBVIOUS
    <3>3. ASSUME NEW m \in 1..n - 1 PROVE s[m] # s[n]
      <4>1. m \in DOMAIN s /\ ~(n <= m) BY <3>1, <3>2
      <4>2. m \notin T BY <2>2, <4>1
      <4> QED BY <3>2, <4>1, <4>2
    <3> QED BY <3>2, <3>3 DEF FirstPlaces
  <2> QED BY <2>2, <2>3
<1>8. first \in D
  BY <1>1 DEF FirstPlaces
<1>9. ASSUME NEW n \in FirstPlaces(s), s[n] = k PROVE n = first
  <2>1. n \in 1..Len(s) /\ first \in 1..Len(s)
    BY <1>1, <1>6, <1>8 DEF FirstPlaces
  <2>2. ~(n < first)
    BY <1>7, <1>9, <2>1 DEF FirstPlaces
  <2>3. ~(first < n)
    BY <1>7, <1>9, <2>1 DEF FirstPlaces
  <2> QED BY <1>6, <2>1, <2>2, <2>3
<1>10. Range(places) = Range(all) \cap FirstPlaces(s)
  BY <1>3, ElementsOnly
<1>11. \A i \in DOMAIN places : places[i] \in FirstPlaces(s)
  BY <1>10 DEF Range
<1>12. DOMAIN firsts = DOMAIN places /\ \A i \in DOMAIN places : firsts[i] = s[places[i]]
  BY <1>5 DEF Each
<1>13. PlacesOf(firsts, k) = PlacesOf(places, first)
  BY <1>7, <1>9, <1>11, <1>12 DEF PlacesOf
<1>14. Cardinality(PlacesOf(firsts, k)) = Count(firsts, k)
  BY CardinalityIsCount
<1>15. Cardinality(PlacesOf(places, first)) = Count(places, first)
  BY CardinalityIsCount
<1>16. Count(places, first) = Count(all, first)
  BY <1>3, <1>7, CountOnly
<1>17. Cardinality(PlacesOf(all, first)) = Count(all, first)
  BY CardinalityIsCount
<1>18. PlacesOf(all, first) = {first}
  BY <1>1, <1>2, <1>8 DEF PlacesOf, Places
<1>19. Cardinality({first}) = 1
  BY FS_Singleton
<1> QED BY <1>4, <1>13, <1>14, <1>15, <1>16, <1>17, <1>18, <1>19

\* Going over distinct elements of which one makes something.
LEMMA OverOnce ==
    ASSUME NEW X, NEW Y, NEW G \in Making(X, Y), NEW s \in Seq(X), NEW k \in X,
           Count(s, k) = 1, \A x \in X : x # k => G[x] = <<>>
    PROVE  Over(G, s) = G[k]
<1>1. Over(G, Only(s, {k})) = Over(Kept(G, X, {k}), s)
  BY OverOnly
<1>2. PICK K \in Making(X, Y) : K = Kept(G, X, {k})
  BY KeptMakes
<1>3. \A x \in X : K[x] = G[x]
  BY <1>2 DEF Kept
<1>4. \A n \in DOMAIN s : K[s[n]] = G[s[n]]
  BY <1>3, LenProperties, ElementOfSeq
<1>5. Over(K, s) = Over(G, s)
  BY <1>4, OverAlike
<1>6. PICK o \in Seq(X \cap {k}) : o = Only(s, {k})
  BY OnlyWithin
<1>7. Len(o) = 1
  BY <1>6 DEF Count
<1>8. o = <<k>>
  <2>1. o[1] = k
    <3>1. o # <<>>
      BY <1>7, EmptySeq
    <3>2. o[1] \in Range(o)
      BY <3>1, FirstElement
    <3> QED BY <3>2, ElementsType
  <2>2. <<k>> \in Seq(X \cap {k}) /\ Len(<<k>>) = 1 /\ <<k>>[1] = k
    OBVIOUS
  <2>3. \A i \in 1..Len(o) : o[i] = <<k>>[i]
    BY <1>7, <2>1, <2>2
  <2> QED BY <1>7, <2>2, <2>3, SeqEqual
<1>9. Over(G, <<k>>) = G[k]
  BY OverOne
<1> QED BY <1>1, <1>2, <1>5, <1>6, <1>8, <1>9

\* What a sequence has of each key.
Portions(X, Y, K, s) == [k \in Y |-> Only(s, {x \in X : K[x] = k})]

LEMMA PortionsMake ==
    ASSUME NEW X, NEW Y, NEW K, NEW s \in Seq(X) PROVE Portions(X, Y, K, s) \in Making(Y, X)
<1>1. \A k \in Y : Only(s, {x \in X : K[x] = k}) \in Seq(X)
  BY OnlyType
<1> QED BY <1>1 DEF Portions, Making

Picking(X, G, S) == [x \in X |-> Only(G[x], S)]

LEMMA OnlyOver ==
    ASSUME NEW X, NEW Y, NEW G \in Making(X, Y), NEW s \in Seq(X), NEW S
    PROVE  Only(Over(G, s), S) = Over(Picking(X, G, S), s)
<1>1. PICK C \in Making(Y, Y) : C = Chosen(Y, S)
  BY ChosenType
<1>2. PICK B : B = Picking(X, G, S)
  OBVIOUS
<1>3. \A x \in X : G[x] \in Seq(Y)
  BY MakingAt
<1>4. \A x \in X : B[x] \in Seq(Y)
  BY <1>2, <1>3, OnlyType DEF Picking
<1>5. B \in Making(X, Y)
  BY <1>2, <1>4 DEF Making, Picking
<1>6. \A x \in X : B[x] = Over(C, G[x])
  BY <1>1, <1>2, <1>3, OnlyIs DEF Picking
<1>7. Over(C, Over(G, s)) = Over(B, s)
  BY <1>5, <1>6, OverOver
<1>8. PICK o \in Seq(Y) : o = Over(G, s)
  BY OverType
<1>9. Only(o, S) = Over(C, o)
  BY <1>1, OnlyIs
<1> QED BY <1>2, <1>7, <1>8, <1>9

LEMMA Regrouped ==
    ASSUME NEW X, NEW Y, NEW K \in [X -> Y], NEW s \in Seq(X)
    PROVE  Same(Over(Portions(X, Y, K, s), Firsts(Each(K, s))), s)
<1>1. PICK all \in Seq(Y) : all = Each(K, s)
  BY EachType
<1>2. PICK keys \in Seq(Y) : keys = Firsts(all)
  BY FirstsType
<1>3. PICK G \in Making(Y, X) : G = Portions(X, Y, K, s)
  BY PortionsMake
<1>4. ASSUME NEW x PROVE Count(Over(G, keys), x) = Count(s, x)
  <2>1. PICK H : H = Picking(Y, G, {x})
    OBVIOUS
  <2>2. Only(Over(G, keys), {x}) = Over(H, keys)
    BY <2>1, OnlyOver
  <2>3. ASSUME NEW k \in Y PROVE H[k] = IF x \in X /\ K[x] = k THEN Only(s, {x}) ELSE <<>>
    <3> DEFINE S == {y \in X : K[y] = k}
    <3>1. Only(Only(s, S), {x}) = Only(s, S \cap {x})
      BY OnlyTwice
    <3>2. H[k] = Only(Only(s, S), {x})
      BY <1>3, <2>1 DEF Portions, Picking
    <3>3. ASSUME x \in S PROVE S \cap {x} = {x}
      BY <3>3
    <3>4. ASSUME x \notin S PROVE Only(s, S \cap {x}) = <<>>
      <4>1. Range(s) \cap (S \cap {x}) = {}
        BY <3>4
      <4> HIDE DEF S
      <4> QED BY <4>1, OnlyNothing
    <3>5. x \in S <=> x \in X /\ K[x] = k
      OBVIOUS
    <3> HIDE DEF S
    <3> QED BY <3>1, <3>2, <3>3, <3>4, <3>5
  <2>4. CASE x \in Range(s)
    <3>1. x \in X /\ K[x] \in Y
      BY <2>4, ElementsType
    <3>2. PICK k \in Y : k = K[x]
      BY <3>1
    <3>3. k \in Range(all)
      BY <1>1, <2>4, <3>2, EachFrom
    <3>4. Count(Firsts(all), k) = 1
      BY <3>3, CountFirsts
    <3>5. \A y \in Y : y # k => H[y] = <<>>
      BY <2>3, <3>2
    <3>6. H[k] = Only(s, {x})
      BY <2>3, <3>1, <3>2
    <3>7. H \in Making(Y, X)
      <4>1. \A y \in Y : G[y] \in Seq(X)
        BY MakingAt
      <4>2. \A y \in Y : Only(G[y], {x}) \in Seq(X)
        BY <4>1, OnlyType
      <4> QED BY <2>1, <4>2 DEF Making, Picking
    <3>8. Over(H, keys) = H[k]
      BY <1>2, <3>4, <3>5, <3>7, OverOnce
    <3> QED BY <2>2, <3>6, <3>8 DEF Count
  <2>5. CASE x \notin Range(s)
    <3>1. Only(s, {x}) = <<>>
      <4>1. Range(s) \cap {x} = {}
        BY <2>5
      <4> QED BY <4>1, OnlyNothing
    <3>2. \A k \in Y : H[k] = <<>>
      BY <2>3, <3>1
    <3>3. \A n \in DOMAIN keys : H[keys[n]] = <<>>
      BY <3>2, LenProperties, ElementOfSeq
    <3>4. Over(H, keys) = <<>>
      BY <3>3, OverNothing
    <3> QED BY <2>2, <3>1, <3>4 DEF Count
  <2> QED BY <2>4, <2>5
<1> QED BY <1>1, <1>2, <1>3, <1>4 DEF Same

LEMMA FlattenOne == ASSUME NEW X, NEW s \in Seq(X) PROVE FlattenSeq(<<s>>) = s
<1>1. PICK S : S = Seq(X)
  OBVIOUS
<1>2. <<s>> \in Seq(S)
  BY <1>1
<1>3. PICK I \in Making(S, X) : I = Itself(X)
  BY <1>1, ItselfMakes
<1>4. Over(I, <<s>>) = I[s]
  BY <1>1, OverOne
<1>5. PICK w \in Seq(Seq(X)) : w = <<s>>
  BY <1>1, <1>2
<1>6. FlattenSeq(w) = Over(Itself(X), w)
  BY FlattenOver
<1> QED BY <1>3, <1>4, <1>5, <1>6 DEF Itself

LEMMA SameReflexive == ASSUME NEW s PROVE Same(s, s)
BY DEF Same

LEMMA SameTransitive ==
    ASSUME NEW s, NEW t, NEW u, Same(s, t), Same(t, u) PROVE Same(s, u)
BY DEF Same

LEMMA SameSymmetric == ASSUME NEW s, NEW t, Same(s, t) PROVE Same(t, s)
BY DEF Same

LEMMA SameCat ==
    ASSUME NEW X, NEW s \in Seq(X), NEW t \in Seq(X), NEW u \in Seq(X), NEW v \in Seq(X),
           Same(s, u), Same(t, v)
    PROVE  Same(Cat(s, t), Cat(u, v))
<1>1. ASSUME NEW x PROVE Count(Cat(s, t), x) = Count(Cat(u, v), x)
  <2>1. Count(Cat(s, t), x) = Count(s, x) + Count(t, x)
    BY CountCat
  <2>2. Count(Cat(u, v), x) = Count(u, x) + Count(v, x)
    BY CountCat
  <2>3. Count(s, x) = Count(u, x) /\ Count(t, x) = Count(v, x)
    BY DEF Same
  <2> QED BY <2>1, <2>2, <2>3
<1> QED BY <1>1 DEF Same

\* A sequence is what a choice takes of it and what it leaves.
LEMMA SameParts ==
    ASSUME NEW X, NEW s \in Seq(X), NEW S, NEW T,
           \A x \in Range(s) : x \in S <=> x \notin T
    PROVE  Same(Cat(Only(s, S), Only(s, T)), s)
<1>1. PICK o \in Seq(X) : o = Only(s, S)
  BY OnlyType
<1>2. PICK p \in Seq(X) : p = Only(s, T)
  BY OnlyType
<1>3. ASSUME NEW x PROVE Count(Cat(o, p), x) = Count(s, x)
  <2>1. Count(Cat(o, p), x) = Count(o, x) + Count(p, x)
    BY CountCat
  <2>2. Count(o, x) = IF x \in S THEN Count(s, x) ELSE 0
    BY <1>1, CountOnly
  <2>3. Count(p, x) = IF x \in T THEN Count(s, x) ELSE 0
    BY <1>2, CountOnly
  <2>4. Count(s, x) \in Nat
    BY CountType
  <2>5. Count(s, x) # 0 <=> x \in Range(s)
    BY CountIn
  <2> QED BY <2>1, <2>2, <2>3, <2>4, <2>5
<1> QED BY <1>1, <1>2, <1>3 DEF Same

LEMMA PartsKept ==
    ASSUME NEW X, NEW a \in Seq(X), NEW b \in Seq(X), NEW c \in Seq(X), NEW s \in Seq(X), NEW S,
           Same(Cat(a, Cat(b, c)), s),
           \A x \in Range(a) : x \in S, \A x \in Range(b) : x \in S,
           \A x \in Range(c) : x \notin S
    PROVE  Same(Cat(a, b), Only(s, S))
<1>1. PICK bc \in Seq(X) : bc = Cat(b, c)
  BY CatType
<1>2. ASSUME NEW x PROVE Count(Cat(a, b), x) = Count(Only(s, S), x)
  <2>1. Count(Cat(a, b), x) = Count(a, x) + Count(b, x)
    BY CountCat
  <2>2. Count(Cat(a, bc), x) = Count(a, x) + Count(bc, x)
    BY CountCat
  <2>3. Count(Cat(b, c), x) = Count(b, x) + Count(c, x)
    BY CountCat
  <2>4. Count(Only(s, S), x) = IF x \in S THEN Count(s, x) ELSE 0
    BY CountOnly
  <2>5. Count(Cat(a, bc), x) = Count(s, x)
    BY <1>1 DEF Same
  <2>6. /\ Count(a, x) # 0 <=> x \in Range(a)
        /\ Count(b, x) # 0 <=> x \in Range(b)
        /\ Count(c, x) # 0 <=> x \in Range(c)
    BY CountIn
  <2>7. Count(a, x) \in Nat /\ Count(b, x) \in Nat /\ Count(c, x) \in Nat
    BY CountType
  <2>8. Count(s, x) = Count(a, x) + Count(b, x) + Count(c, x)
    BY <1>1, <2>2, <2>3, <2>5, <2>7
  <2>9. CASE x \in S
    <3>1. Count(c, x) = 0
      BY <2>6, <2>9
    <3> QED BY <2>1, <2>4, <2>7, <2>8, <2>9, <3>1
  <2>10. CASE x \notin S
    <3>1. Count(a, x) = 0 /\ Count(b, x) = 0
      BY <2>6, <2>10
    <3> QED BY <2>1, <2>4, <2>10, <3>1
  <2> QED BY <2>9, <2>10
<1> QED BY <1>2 DEF Same

-----------------------------------------------------------------------------
(* Folding by key: of the rows that arrive with a key, the last counts.    *)

Met(rows, row, by) == \E other \in Range(rows) : RowKey(other, by) = RowKey(row, by)

LEMMA MetIs ==
    ASSUME NEW rows, NEW row, NEW by
    PROVE  Matching(rows, row, by) # {} <=> Met(rows, row, by)
BY DEF Matching, Met, Range

LEMMA FoldedUnmet ==
    ASSUME NEW rows, NEW row, NEW by, ~Met(rows, row, by) PROVE Folded(rows, row, by) = row
BY MetIs DEF Folded

LEMMA FoldedIn ==
    ASSUME NEW X, NEW rows \in Seq(X), NEW row, NEW by, Met(rows, row, by)
    PROVE  Folded(rows, row, by) \in Range(rows)
<1>1. Matching(rows, row, by) # {}
  BY MetIs
<1>2. LastOf(Matching(rows, row, by)) \in Matching(rows, row, by)
  BY <1>1, MatchingIs
<1> QED BY <1>1, <1>2 DEF Folded, Matching, Range

LEMMA FoldedKey ==
    ASSUME NEW X, NEW rows \in Seq(X), NEW row, NEW by
    PROVE  RowKey(Folded(rows, row, by), by) = RowKey(row, by)
<1>1. CASE Matching(rows, row, by) = {}
  BY <1>1 DEF Folded
<1>2. CASE Matching(rows, row, by) # {}
  <2>1. LastOf(Matching(rows, row, by)) \in Matching(rows, row, by)
    BY <1>2, MatchingIs
  <2>2. RowKey(rows[LastOf(Matching(rows, row, by))], by) = RowKey(row, by)
    BY <2>1 DEF Matching
  <2> QED BY <1>2, <2>2 DEF Folded
<1> QED BY <1>1, <1>2

LEMMA FoldedAlike ==
    ASSUME NEW rows, NEW row, NEW other, NEW by, RowKey(row, by) = RowKey(other, by),
           Met(rows, row, by)
    PROVE  Folded(rows, row, by) = Folded(rows, other, by)
<1>1. Matching(rows, row, by) = Matching(rows, other, by)
  BY DEF Matching
<1>2. Matching(rows, row, by) # {}
  BY MetIs
<1> QED BY <1>1, <1>2 DEF Folded

LEMMA MetAlike ==
    ASSUME NEW rows, NEW row, NEW other, NEW by, RowKey(row, by) = RowKey(other, by)
    PROVE  Met(rows, row, by) <=> Met(rows, other, by)
BY DEF Met

LEMMA MetAppend ==
    ASSUME NEW X, NEW rows \in Seq(X), NEW x \in X, NEW row, NEW by
    PROVE  Met(Append(rows, x), row, by)
             <=> Met(rows, row, by) \/ RowKey(x, by) = RowKey(row, by)
<1>1. Range(Append(rows, x)) = Range(rows) \cup {x}
  BY ElementsOfAppend
<1> QED BY <1>1 DEF Met

LEMMA MetCat ==
    ASSUME NEW X, NEW rows \in Seq(X), NEW more \in Seq(X), NEW row, NEW by
    PROVE  Met(Cat(rows, more), row, by) <=> Met(rows, row, by) \/ Met(more, row, by)
<1>1. Range(Cat(rows, more)) = Range(rows) \cup Range(more)
  BY ElementsCat
<1> QED BY <1>1 DEF Met

LEMMA LastAmong ==
    ASSUME NEW N \in Nat, NEW S \in SUBSET (1..N), N \in S PROVE LastOf(S) = N
<1>1. LastOf(S) \in S /\ \A m \in S : m <= LastOf(S)
  BY LastOfIs
<1>2. LastOf(S) \in 1..N /\ N <= LastOf(S)
  BY <1>1
<1> QED BY <1>2

LEMMA FoldedAppend ==
    ASSUME NEW X, NEW rows \in Seq(X), NEW x \in X, NEW row, NEW by
    PROVE  Folded(Append(rows, x), row, by)
             = IF RowKey(x, by) = RowKey(row, by) THEN x ELSE Folded(rows, row, by)
<1>1. PICK longer \in Seq(X) : longer = Append(rows, x)
  <2>1. Append(rows, x) \in Seq(X)
    OBVIOUS
  <2> QED BY <2>1
<1>2. /\ DOMAIN rows = 1..Len(rows) /\ Len(rows) \in Nat /\ DOMAIN longer = 1..(Len(rows) + 1)
      /\ \A i \in 1..Len(rows) : longer[i] = rows[i]
      /\ longer[Len(rows) + 1] = x
  BY <1>1, LenProperties, AppendProperties
<1>3. CASE RowKey(x, by) = RowKey(row, by)
  <2>1. Len(rows) + 1 \in Matching(longer, row, by)
    BY <1>2, <1>3 DEF Matching
  <2>2. Matching(longer, row, by) \in SUBSET (1..(Len(rows) + 1)) /\ Len(rows) + 1 \in Nat
    BY <1>2 DEF Matching
  <2>3. LastOf(Matching(longer, row, by)) = Len(rows) + 1
    BY <2>1, <2>2, LastAmong
  <2> QED BY <1>1, <1>2, <1>3, <2>1, <2>3 DEF Folded
<1>4. CASE RowKey(x, by) # RowKey(row, by)
  <2>1. Matching(longer, row, by) = Matching(rows, row, by)
    BY <1>2, <1>4 DEF Matching
  <2>2. CASE Matching(rows, row, by) = {}
    BY <1>1, <1>4, <2>1, <2>2 DEF Folded
  <2>3. CASE Matching(rows, row, by) # {}
    <3>1. LastOf(Matching(rows, row, by)) \in 1..Len(rows)
      BY <1>2, <2>3, MatchingIs DEF Matching
    <3>2. longer[LastOf(Matching(rows, row, by))] = rows[LastOf(Matching(rows, row, by))]
      BY <1>2, <3>1
    <3> QED BY <1>1, <1>4, <2>1, <2>3, <3>2 DEF Folded
  <2> QED BY <2>2, <2>3
<1> QED BY <1>3, <1>4

\* Folding in two batches, one after the other, is folding in both at once.
LEMMA FoldedCat ==
    ASSUME NEW X, NEW rows \in Seq(X), NEW more \in Seq(X), NEW row, NEW by
    PROVE  Folded(Cat(rows, more), row, by) = Folded(more, Folded(rows, row, by), by)
<1> DEFINE T == {t \in Seq(X) : Folded(Cat(rows, t), row, by) = Folded(t, Folded(rows, row, by), by)}
<1>0. PICK once : once = Folded(rows, row, by)
  OBVIOUS
<1>1. <<>> \in T
  <2>1. Cat(rows, <<>>) = rows
    BY CatEmpty
  <2>2. ~Met(<<>>, once, by)
    BY ElementsEmpty DEF Met
  <2>3. Folded(<<>>, once, by) = once
    BY <2>2, FoldedUnmet
  <2> QED BY <1>0, <2>1, <2>3, EmptySeq
<1>2. ASSUME NEW t \in T, NEW x \in X PROVE Append(t, x) \in T
  <2>1. /\ t \in Seq(X) /\ Append(t, x) \in Seq(X)
        /\ Folded(Cat(rows, t), row, by) = Folded(t, once, by)
    BY <1>0
  <2>2. PICK c \in Seq(X) : c = Cat(rows, t)
    BY <2>1, CatType
  <2>3. Cat(rows, Append(t, x)) = Append(c, x)
    <3>1. PICK u \in Seq(X) : u = t
      BY <2>1
    <3>2. Cat(rows, Append(u, x)) = Append(Cat(rows, u), x)
      BY CatAppend
    <3> QED BY <2>2, <3>1, <3>2
  <2>4. Folded(Append(c, x), row, by)
          = IF RowKey(x, by) = RowKey(row, by) THEN x ELSE Folded(c, row, by)
    BY FoldedAppend
  <2>5. Folded(Append(t, x), once, by)
          = IF RowKey(x, by) = RowKey(once, by) THEN x ELSE Folded(t, once, by)
    BY <2>1, FoldedAppend
  <2>6. RowKey(once, by) = RowKey(row, by)
    BY <1>0, FoldedKey
  <2> QED BY <1>0, <2>1, <2>2, <2>3, <2>4, <2>5, <2>6
<1> HIDE DEF T
<1>3. T \in SUBSET Seq(X)
  BY DEF T
<1>4. T = Seq(X)
  BY <1>1, <1>2, <1>3, SequencesInductive
<1> QED BY <1>4 DEF T

\* Leaving out rows of other keys changes nothing for a key.
LEMMA FoldedOnly ==
    ASSUME NEW X, NEW rows \in Seq(X), NEW row, NEW by, NEW S,
           \A x \in X : RowKey(x, by) = RowKey(row, by) => x \in S
    PROVE  Folded(Only(rows, S), row, by) = Folded(rows, row, by)
<1> DEFINE T == {t \in Seq(X) : Folded(Only(t, S), row, by) = Folded(t, row, by)}
<1>1. <<>> \in T
  BY OnlyEmpty, EmptySeq
<1>2. ASSUME NEW t \in T, NEW x \in X PROVE Append(t, x) \in T
  <2>1. /\ t \in Seq(X) /\ Append(t, x) \in Seq(X)
        /\ Folded(Only(t, S), row, by) = Folded(t, row, by)
    OBVIOUS
  <2>2. PICK o \in Seq(X) : o = Only(t, S)
    BY <2>1, OnlyType
  <2>3. Only(Append(t, x), S) = IF x \in S THEN Append(Only(t, S), x) ELSE Only(t, S)
    BY <2>1, OnlyAppend
  <2>4. Folded(Append(o, x), row, by)
          = IF RowKey(x, by) = RowKey(row, by) THEN x ELSE Folded(o, row, by)
    BY FoldedAppend
  <2>5. Folded(Append(t, x), row, by)
          = IF RowKey(x, by) = RowKey(row, by) THEN x ELSE Folded(t, row, by)
    BY <2>1, FoldedAppend
  <2> QED BY <2>1, <2>2, <2>3, <2>4, <2>5
<1> HIDE DEF T
<1>3. T \in SUBSET Seq(X)
  BY DEF T
<1>4. T = Seq(X)
  BY <1>1, <1>2, <1>3, SequencesInductive
<1> QED BY <1>4 DEF T

-----------------------------------------------------------------------------
(* What becomes of a sequence when each of its elements is replaced.       *)

Maps(X, Y) == [X -> Y]

LEMMA MapsEach ==
    ASSUME NEW X, NEW Y, NEW G \in Maps(X, Y), NEW s \in Seq(X) PROVE Each(G, s) \in Seq(Y)
BY EachType DEF Maps

LEMMA MapsReplacing ==
    ASSUME NEW X, NEW batch \in Seq(X), NEW by PROVE Replacing(X, batch, by) \in Maps(X, X)
BY ReplacingMaps DEF Maps

Ones(X, G) == [x \in X |-> <<G[x]>>]

LEMMA OnesMakes == ASSUME NEW X, NEW Y, NEW G \in Maps(X, Y) PROVE Ones(X, G) \in Making(X, Y)
<1>1. \A x \in X : <<G[x]>> \in Seq(Y)
  BY DEF Maps
<1> QED BY <1>1 DEF Ones, Making

LEMMA EachIsOver ==
    ASSUME NEW X, NEW Y, NEW G \in Maps(X, Y), NEW s \in Seq(X)
    PROVE  Each(G, s) = Over(Ones(X, G), s)
<1>1. PICK O \in Making(X, Y) : O = Ones(X, G)
  BY OnesMakes
<1> DEFINE T == {t \in Seq(X) : Each(G, t) = Over(O, t)}
<1>2. <<>> \in T
  <2>1. Each(G, <<>>) = <<>>
    BY EmptySeq DEF Each
  <2> QED BY <2>1, OverEmpty, EmptySeq
<1>3. ASSUME NEW t \in T, NEW x \in X PROVE Append(t, x) \in T
  <2>1. t \in Seq(X) /\ Append(t, x) \in Seq(X) /\ Each(G, t) = Over(O, t)
    OBVIOUS
  <2>2. PICK e \in Seq(Y) : e = Each(G, t)
    BY <2>1, MapsEach
  <2>3. Each(G, Append(t, x)) = Append(e, G[x])
    BY <2>1, <2>2, EachAppend DEF Maps
  <2>4. Over(O, Append(t, x)) = Cat(e, O[x])
    BY <2>1, <2>2, OverAppend
  <2>5. O[x] = <<G[x]>>
    BY <1>1 DEF Ones
  <2>6. Append(e, G[x]) = Cat(e, <<G[x]>>)
    BY DEF Cat
  <2> QED BY <2>1, <2>3, <2>4, <2>5, <2>6
<1> HIDE DEF T
<1>4. T \in SUBSET Seq(X)
  BY DEF T
<1>5. T = Seq(X)
  BY <1>2, <1>3, <1>4, SequencesInductive
<1> QED BY <1>1, <1>5 DEF T

LEMMA EachCat ==
    ASSUME NEW X, NEW Y, NEW G \in Maps(X, Y), NEW s \in Seq(X), NEW t \in Seq(X)
    PROVE  Each(G, Cat(s, t)) = Cat(Each(G, s), Each(G, t))
<1>1. PICK O \in Making(X, Y) : O = Ones(X, G)
  BY OnesMakes
<1>2. PICK both \in Seq(X) : both = Cat(s, t)
  BY CatType
<1>3. Over(O, Cat(s, t)) = Cat(Over(O, s), Over(O, t))
  BY OverCat
<1>4. Each(G, both) = Over(O, both)
  BY <1>1, EachIsOver
<1>5. Each(G, s) = Over(O, s)
  BY <1>1, EachIsOver
<1>6. Each(G, t) = Over(O, t)
  BY <1>1, EachIsOver
<1> QED BY <1>2, <1>3, <1>4, <1>5, <1>6

LEMMA SameEach ==
    ASSUME NEW X, NEW Y, NEW G \in Maps(X, Y), NEW s \in Seq(X), NEW t \in Seq(X), Same(s, t)
    PROVE  Same(Each(G, s), Each(G, t))
<1>1. PICK O \in Making(X, Y) : O = Ones(X, G)
  BY OnesMakes
<1>2. Same(Over(O, s), Over(O, t))
  BY SameOver
<1>3. Each(G, s) = Over(O, s)
  BY <1>1, EachIsOver
<1>4. Each(G, t) = Over(O, t)
  BY <1>1, EachIsOver
<1> QED BY <1>2, <1>3, <1>4

LEMMA EachEach ==
    ASSUME NEW X, NEW Y, NEW Z, NEW G \in Maps(X, Y), NEW H \in Maps(Y, Z), NEW B \in Maps(X, Z),
           \A x \in X : B[x] = H[G[x]], NEW s \in Seq(X)
    PROVE  Each(H, Each(G, s)) = Each(B, s)
<1>1. \A n \in DOMAIN s : s[n] \in X
  BY LenProperties, ElementOfSeq
<1>2. DOMAIN Each(G, s) = DOMAIN s /\ \A n \in DOMAIN s : Each(G, s)[n] = G[s[n]]
  BY DEF Each
<1>3. Each(H, Each(G, s)) = [n \in DOMAIN s |-> H[Each(G, s)[n]]]
  BY <1>2 DEF Each
<1>4. \A n \in DOMAIN s : H[Each(G, s)[n]] = B[s[n]]
  BY <1>1, <1>2
<1> QED BY <1>3, <1>4 DEF Each

LEMMA EachAlike ==
    ASSUME NEW G, NEW s, \A x \in Range(s) : G[x] = x, s = [n \in DOMAIN s |-> s[n]]
    PROVE  Each(G, s) = s
<1>1. \A n \in DOMAIN s : G[s[n]] = s[n]
  BY DEF Range
<1> QED BY <1>1 DEF Each

\* How often a value comes of a sequence's elements.
LEMMA CountEachOnce ==
    ASSUME NEW X, NEW Y, NEW G \in Maps(X, Y), NEW s \in Seq(X), NEW y \in X, NEW v,
           Count(s, y) = 1, \A x \in Range(s) : G[x] = v => x = y
    PROVE  Count(Each(G, s), v) = IF G[y] = v THEN 1 ELSE 0
<1>1. PICK e \in Seq(Y) : e = Each(G, s)
  BY MapsEach
<1>2. DOMAIN e = DOMAIN s /\ \A n \in DOMAIN s : e[n] = G[s[n]] /\ s[n] \in Range(s)
  BY <1>1 DEF Each, Range
<1>3. Cardinality(PlacesOf(e, v)) = Count(e, v)
  BY CardinalityIsCount
<1>4. Cardinality(PlacesOf(s, y)) = Count(s, y)
  BY CardinalityIsCount
<1>5. CASE G[y] = v
  <2>1. PlacesOf(e, v) = PlacesOf(s, y)
    BY <1>2, <1>5 DEF PlacesOf
  <2> QED BY <1>1, <1>3, <1>4, <1>5, <2>1
<1>6. CASE G[y] # v
  <2>1. PlacesOf(e, v) = {}
    BY <1>2, <1>6 DEF PlacesOf
  <2> QED BY <1>1, <1>3, <1>6, <2>1, FS_EmptySet
<1> QED BY <1>5, <1>6

LEMMA CountEachNone ==
    ASSUME NEW X, NEW Y, NEW G \in Maps(X, Y), NEW s \in Seq(X), NEW v,
           \A x \in Range(s) : G[x] # v
    PROVE  Count(Each(G, s), v) = 0
<1>1. PICK e \in Seq(Y) : e = Each(G, s)
  BY MapsEach
<1>2. v \notin Range(e)
  BY <1>1, EachFrom
<1> QED BY <1>1, <1>2, CountIn

LEMMA CountEachAlike ==
    ASSUME NEW X, NEW Y, NEW G \in Maps(X, Y), NEW s \in Seq(X), NEW v,
           \A x \in Range(s) : G[x] = v <=> x = v
    PROVE  Count(Each(G, s), v) = Count(s, v)
<1>1. PICK e \in Seq(Y) : e = Each(G, s)
  BY MapsEach
<1>2. DOMAIN e = DOMAIN s /\ \A n \in DOMAIN s : e[n] = G[s[n]] /\ s[n] \in Range(s)
  BY <1>1 DEF Each, Range
<1>3. PlacesOf(e, v) = PlacesOf(s, v)
  BY <1>2 DEF PlacesOf
<1>4. Cardinality(PlacesOf(e, v)) = Count(e, v)
  BY CardinalityIsCount
<1>5. Cardinality(PlacesOf(s, v)) = Count(s, v)
  BY CardinalityIsCount
<1> QED BY <1>1, <1>3, <1>4, <1>5

LEMMA FlattenEach ==
    ASSUME NEW X, NEW batch \in Seq(X), NEW by, NEW held \in Seq(Seq(X))
    PROVE  FlattenSeq(Each(ReplacingEach(X, batch, by), held))
             = Each(Replacing(X, batch, by), FlattenSeq(held))
<1>1. PICK R \in Maps(X, X) : R = Replacing(X, batch, by)
  BY MapsReplacing
<1>2. PICK O \in Making(X, X) : O = Ones(X, R)
  BY OnesMakes
<1>3. PICK S : S = Seq(X)
  OBVIOUS
<1>4. PICK I \in Making(S, X) : I = Itself(X)
  BY <1>3, ItselfMakes
<1>5. PICK B \in Making(S, X) : B = ReplacingEach(X, batch, by)
  BY <1>3, ReplacingEachMaps DEF Making
<1>6. \A s \in S : B[s] = Over(O, I[s])
  <2>1. ASSUME NEW s \in Seq(X) PROVE B[s] = Over(O, I[s])
    <3>1. Each(R, s) = Over(O, s)
      BY <1>2, EachIsOver
    <3>2. B[s] = Each(R, s) /\ I[s] = s
      BY <1>1, <1>4, <1>5 DEF ReplacingEach, Itself
    <3> QED BY <3>1, <3>2
  <2> QED BY <1>3, <2>1
<1>7. Over(O, Over(I, held)) = Over(B, held)
  BY <1>3, <1>6, OverOver
<1>8. PICK flat \in Seq(X) : flat = FlattenSeq(held)
  BY FlattenType
<1>9. flat = Over(I, held)
  BY <1>4, <1>8, FlattenOver
<1>10. Each(R, flat) = Over(O, flat)
  BY <1>2, EachIsOver
<1> QED BY <1>1, <1>5, <1>7, <1>8, <1>9, <1>10 DEF Over

-----------------------------------------------------------------------------
(* What one batch adds.                                                    *)

Newcomers(stored, batch, by) == Firsts(LastArrivals(Arrivals(stored, batch, by), by))

\* A row is added: no stored row has its key, and it is the last of those that do.
Adds(stored, batch, by, row) ==
    ~Met(stored, row, by) /\ Met(batch, row, by) /\ Folded(batch, row, by) = row

LEMMA ArrivalsFrom ==
    ASSUME NEW X, NEW batch \in Seq(X), NEW stored, NEW by, NEW row
    PROVE  row \in Range(Arrivals(stored, batch, by))
             <=> row \in Range(batch) /\ ~Met(stored, row, by)
<1>1. PICK S : S = {r \in Range(batch) : Matching(stored, r, by) = {}}
  OBVIOUS
<1>2. Range(Only(batch, S)) = Range(batch) \cap S
  BY ElementsOnly
<1>3. Range(batch) = Range(batch)
  BY DEF Range, Range
<1>4. Matching(stored, row, by) = {} <=> ~Met(stored, row, by)
  BY MetIs
<1> QED BY <1>1, <1>2, <1>3, <1>4 DEF Arrivals

LEMMA LastArrivalsFrom ==
    ASSUME NEW X, NEW added \in Seq(X), NEW by, NEW row
    PROVE  row \in Range(LastArrivals(added, by))
             <=> \E other \in Range(added) : row = Folded(added, other, by)
<1>1. ASSUME NEW n \in DOMAIN added
      PROVE  LastArrivals(added, by)[n] = Folded(added, added[n], by)
  <2>1. n \in Matching(added, added[n], by)
    BY DEF Matching
  <2> QED BY <2>1 DEF LastArrivals, Folded
<1>2. DOMAIN LastArrivals(added, by) = DOMAIN added
  BY DEF LastArrivals
<1> QED BY <1>1, <1>2 DEF Range

LEMMA FoldedArrival ==
    ASSUME NEW X, NEW batch \in Seq(X), NEW stored, NEW by, NEW row, ~Met(stored, row, by)
    PROVE  Folded(Arrivals(stored, batch, by), row, by) = Folded(batch, row, by)
<1>1. PICK Y : Y = Range(batch)
  OBVIOUS
<1>2. batch \in Seq(Y)
  BY <1>1, SeqWithin
<1>3. PICK S : S = {r \in Range(batch) : Matching(stored, r, by) = {}}
  OBVIOUS
<1>4. ASSUME NEW r \in Y, RowKey(r, by) = RowKey(row, by) PROVE r \in S
  <2>1. ~Met(stored, r, by)
    BY <1>4, MetAlike
  <2>2. Matching(stored, r, by) = {}
    BY <2>1, MetIs
  <2> QED BY <1>1, <1>3, <2>2 DEF Range, Range
<1>5. Folded(Only(batch, S), row, by) = Folded(batch, row, by)
  BY <1>2, <1>4, FoldedOnly
<1> QED BY <1>3, <1>5 DEF Arrivals

LEMMA NewcomersType ==
    ASSUME NEW X, NEW batch \in Seq(X), NEW stored, NEW by
    PROVE  Newcomers(stored, batch, by) \in Seq(X)
<1>1. PICK added \in Seq(X) : added = Arrivals(stored, batch, by)
  <2>1. Arrivals(stored, batch, by) \in Seq(X)
    BY OnlyType DEF Arrivals
  <2> QED BY <2>1
<1>2. PICK last \in Seq(X) : last = LastArrivals(added, by)
  BY LastArrivalsType
<1>3. Firsts(last) \in Seq(X)
  BY FirstsType
<1> QED BY <1>1, <1>2, <1>3 DEF Newcomers

LEMMA NewcomersFrom ==
    ASSUME NEW X, NEW batch \in Seq(X), NEW stored, NEW by, NEW row
    PROVE  row \in Range(LastArrivals(Arrivals(stored, batch, by), by))
             <=> Adds(stored, batch, by, row)
<1>1. PICK added \in Seq(X) : added = Arrivals(stored, batch, by)
  <2>1. Arrivals(stored, batch, by) \in Seq(X)
    BY OnlyType DEF Arrivals
  <2> QED BY <2>1
<1>2. row \in Range(LastArrivals(added, by))
        <=> \E other \in Range(added) : row = Folded(added, other, by)
  BY LastArrivalsFrom
<1>3. ASSUME NEW other \in Range(added), row = Folded(added, other, by)
      PROVE  Adds(stored, batch, by, row)
  <2>1. other \in Range(batch) /\ ~Met(stored, other, by)
    BY <1>1, ArrivalsFrom
  <2>2. row = Folded(batch, other, by)
    BY <1>1, <1>3, <2>1, FoldedArrival
  <2>3. Met(batch, other, by)
    BY <2>1 DEF Met
  <2>4. RowKey(row, by) = RowKey(other, by)
    BY <2>2, FoldedKey
  <2>5. ~Met(stored, row, by) /\ Met(batch, row, by)
    BY <2>1, <2>3, <2>4, MetAlike
  <2>6. Folded(batch, row, by) = Folded(batch, other, by)
    BY <2>3, <2>4, <2>5, FoldedAlike
  <2> QED BY <2>2, <2>5, <2>6 DEF Adds
<1>4. ASSUME Adds(stored, batch, by, row)
      PROVE  row \in Range(added) /\ row = Folded(added, row, by)
  <2>1. ~Met(stored, row, by) /\ Met(batch, row, by) /\ Folded(batch, row, by) = row
    BY <1>4 DEF Adds
  <2>2. Folded(batch, row, by) \in Range(batch)
    BY <2>1, FoldedIn
  <2>3. Folded(added, row, by) = row
    BY <1>1, <2>1, FoldedArrival
  <2> QED BY <1>1, <2>1, <2>2, <2>3, ArrivalsFrom
<1> QED BY <1>1, <1>2, <1>3, <1>4

LEMMA NewcomersOnce ==
    ASSUME NEW X, NEW batch \in Seq(X), NEW stored, NEW by, NEW row
    PROVE  Count(Newcomers(stored, batch, by), row)
             = IF Adds(stored, batch, by, row) THEN 1 ELSE 0
<1>1. PICK added \in Seq(X) : added = Arrivals(stored, batch, by)
  <2>1. Arrivals(stored, batch, by) \in Seq(X)
    BY OnlyType DEF Arrivals
  <2> QED BY <2>1
<1>2. PICK last \in Seq(X) : last = LastArrivals(added, by)
  BY LastArrivalsType
<1>3. row \in Range(last) <=> Adds(stored, batch, by, row)
  BY <1>1, <1>2, NewcomersFrom
<1>4. PICK firsts \in Seq(X) : firsts = Firsts(last)
  BY FirstsType
<1>5. Range(firsts) = Range(last)
  BY <1>4, FirstsFrom
<1>6. CASE row \in Range(last)
  <2>1. Count(Firsts(last), row) = 1
    BY <1>6, CountFirsts
  <2> QED BY <1>1, <1>2, <1>3, <1>6, <2>1 DEF Newcomers
<1>7. CASE row \notin Range(last)
  <2>1. Count(firsts, row) = 0
    BY <1>5, <1>7, CountIn
  <2> QED BY <1>1, <1>2, <1>3, <1>4, <1>7, <2>1 DEF Newcomers
<1> QED BY <1>6, <1>7

LEMMA FoldInContent ==
    ASSUME NEW X, NEW held \in Seq(Seq(X)), NEW batch \in Seq(X), NEW by
    PROVE  FlattenSeq(FoldIn(held, batch, by))
             = Cat(Each(Replacing(X, batch, by), FlattenSeq(held)),
                   Newcomers(FlattenSeq(held), batch, by))
<1>1. PICK G \in [Seq(X) -> Seq(X)] : G = ReplacingEach(X, batch, by)
  BY ReplacingEachMaps
<1>2. PICK e \in Seq(Seq(X)) : e = Each(G, held)
  BY EachType
<1>3. PICK new \in Seq(X) : new = Newcomers(FlattenSeq(held), batch, by)
  <2>1. Newcomers(FlattenSeq(held), batch, by) \in Seq(X)
    BY NewcomersType
  <2> QED BY <2>1
<1>4. FoldIn(held, batch, by) = Append(e, new)
  BY <1>1, <1>2, <1>3, FoldInIs DEF Newcomers
<1>5. FlattenSeq(Append(e, new)) = Cat(FlattenSeq(e), new)
  BY FlattenAppend
<1>6. FlattenSeq(e) = Each(Replacing(X, batch, by), FlattenSeq(held))
  BY <1>1, <1>2, FlattenEach
<1> QED BY <1>3, <1>4, <1>5, <1>6

-----------------------------------------------------------------------------
(* What a merge of several batches leaves: every stored row as it last     *)
(* arrived, and every other arriving row that is the last with its key.    *)

Grown(X, rows, batch, by, after) ==
    \E added \in Seq(X) :
        /\ after = Cat(Each(Replacing(X, batch, by), rows), added)
        /\ \A row : Count(added, row) = IF Adds(rows, batch, by, row) THEN 1 ELSE 0

LEMMA ReplacedKeys ==
    ASSUME NEW X, NEW rows \in Seq(X), NEW batch \in Seq(X), NEW by, NEW row
    PROVE  Met(Each(Replacing(X, batch, by), rows), row, by) <=> Met(rows, row, by)
<1>1. PICK R \in Maps(X, X) : R = Replacing(X, batch, by)
  BY MapsReplacing
<1>2. PICK e \in Seq(X) : e = Each(R, rows)
  BY MapsEach
<1>3. \A y : y \in Range(e) <=> \E x \in Range(rows) : y = R[x]
  BY <1>2, EachFrom
<1>4. ASSUME NEW x \in Range(rows) PROVE RowKey(R[x], by) = RowKey(x, by)
  <2>1. x \in X
    BY ElementsType
  <2>2. R[x] = Folded(batch, x, by)
    BY <1>1, <2>1 DEF Replacing
  <2> QED BY <2>2, FoldedKey
<1> QED BY <1>1, <1>2, <1>3, <1>4 DEF Met

LEMMA AddedKeys ==
    ASSUME NEW X, NEW rows \in Seq(X), NEW batch \in Seq(X), NEW by, NEW added \in Seq(X),
           \A row : Count(added, row) = IF Adds(rows, batch, by, row) THEN 1 ELSE 0,
           NEW row
    PROVE  Met(added, row, by) <=> ~Met(rows, row, by) /\ Met(batch, row, by)
<1>1. \A other : other \in Range(added) <=> Adds(rows, batch, by, other)
  <2>1. ASSUME NEW other PROVE other \in Range(added) <=> Adds(rows, batch, by, other)
    <3>1. Count(added, other) # 0 <=> other \in Range(added)
      BY CountIn
    <3>2. Count(added, other) = IF Adds(rows, batch, by, other) THEN 1 ELSE 0
      OBVIOUS
    <3> QED BY <3>1, <3>2
  <2> QED BY <2>1
<1>2. ASSUME Met(added, row, by) PROVE ~Met(rows, row, by) /\ Met(batch, row, by)
  <2>1. PICK other \in Range(added) : RowKey(other, by) = RowKey(row, by)
    BY <1>2 DEF Met
  <2>2. ~Met(rows, other, by) /\ Met(batch, other, by)
    BY <1>1 DEF Adds
  <2>3. Met(rows, other, by) <=> Met(rows, row, by)
    BY <2>1, MetAlike
  <2>4. Met(batch, other, by) <=> Met(batch, row, by)
    BY <2>1, MetAlike
  <2> QED BY <2>2, <2>3, <2>4
<1>3. ASSUME ~Met(rows, row, by), Met(batch, row, by) PROVE Met(added, row, by)
  <2>1. PICK last : last = Folded(batch, row, by)
    OBVIOUS
  <2>2. RowKey(last, by) = RowKey(row, by)
    BY <2>1, FoldedKey
  <2>3. ~Met(rows, last, by) /\ Met(batch, last, by)
    BY <1>3, <2>2, MetAlike
  <2>4. Folded(batch, row, by) = Folded(batch, last, by)
    BY <1>3, <2>2, FoldedAlike
  <2>5. last \in Range(added)
    BY <1>1, <2>1, <2>3, <2>4 DEF Adds
  <2> QED BY <2>2, <2>5 DEF Met
<1> QED BY <1>2, <1>3

\* After a merge a key is stored that was stored or has arrived.
LEMMA GrownKeys ==
    ASSUME NEW X, NEW rows \in Seq(X), NEW batch \in Seq(X), NEW by, NEW after,
           Grown(X, rows, batch, by, after), NEW row
    PROVE  Met(after, row, by) <=> Met(rows, row, by) \/ Met(batch, row, by)
<1>1. PICK added \in Seq(X) :
        /\ after = Cat(Each(Replacing(X, batch, by), rows), added)
        /\ \A r : Count(added, r) = IF Adds(rows, batch, by, r) THEN 1 ELSE 0
  BY DEF Grown
<1>2. PICK R \in Maps(X, X) : R = Replacing(X, batch, by)
  BY MapsReplacing
<1>3. PICK e \in Seq(X) : e = Each(R, rows)
  BY MapsEach
<1>4. Met(Cat(e, added), row, by) <=> Met(e, row, by) \/ Met(added, row, by)
  BY MetCat
<1>5. Met(e, row, by) <=> Met(rows, row, by)
  BY <1>2, <1>3, ReplacedKeys
<1>6. Met(added, row, by) <=> ~Met(rows, row, by) /\ Met(batch, row, by)
  BY <1>1, AddedKeys
<1> QED BY <1>1, <1>2, <1>3, <1>4, <1>5, <1>6

\* What an added row becomes when another batch is folded in.
LEMMA AddedReplaced ==
    ASSUME NEW X, NEW rows \in Seq(X), NEW batch \in Seq(X), NEW by, NEW added \in Seq(X),
           \A r : Count(added, r) = IF Adds(rows, batch, by, r) THEN 1 ELSE 0,
           NEW next \in Seq(X), NEW row
    PROVE  Count(Each(Replacing(X, next, by), added), row)
             = IF /\ ~Met(rows, row, by) /\ Met(batch, row, by)
                  /\ Folded(next, Folded(batch, row, by), by) = row
               THEN 1 ELSE 0
<1>1. PICK R \in Maps(X, X) : R = Replacing(X, next, by)
  BY MapsReplacing
<1>2. ASSUME NEW other \in Range(added)
      PROVE  other \in X /\ Adds(rows, batch, by, other) /\ R[other] = Folded(next, other, by)
  <2>1. other \in X
    BY ElementsType
  <2>2. Count(added, other) # 0
    BY CountIn
  <2>3. Adds(rows, batch, by, other)
    BY <2>2
  <2> QED BY <1>1, <2>1, <2>3 DEF Replacing
<1>3. ASSUME NEW other \in Range(added), R[other] = row
      PROVE  RowKey(other, by) = RowKey(row, by)
  <2>1. RowKey(Folded(next, other, by), by) = RowKey(other, by)
    BY FoldedKey
  <2> QED BY <1>2, <1>3, <2>1
<1>4. CASE ~Met(rows, row, by) /\ Met(batch, row, by)
  <2>1. PICK last : last = Folded(batch, row, by)
    OBVIOUS
  <2>2. RowKey(last, by) = RowKey(row, by)
    BY <2>1, FoldedKey
  <2>3. ~Met(rows, last, by) /\ Met(batch, last, by)
    BY <1>4, <2>2, MetAlike
  <2>4. Folded(batch, row, by) = Folded(batch, last, by)
    BY <1>4, <2>2, FoldedAlike
  <2>5. Count(added, last) = 1
    BY <2>1, <2>3, <2>4 DEF Adds
  <2>6. last \in Range(added)
    BY <2>5, CountIn
  <2>7. last \in X /\ R[last] = Folded(next, last, by)
    BY <1>2, <2>6
  <2>8. ASSUME NEW other \in Range(added), R[other] = row PROVE other = last
    <3>1. RowKey(row, by) = RowKey(other, by)
      BY <1>3, <2>8
    <3>2. Folded(batch, other, by) = other
      BY <1>2 DEF Adds
    <3>3. Folded(batch, row, by) = Folded(batch, other, by)
      BY <1>4, <3>1, FoldedAlike
    <3> QED BY <2>1, <3>2, <3>3
  <2>9. Count(Each(R, added), row) = IF R[last] = row THEN 1 ELSE 0
    BY <2>5, <2>7, <2>8, CountEachOnce
  <2> QED BY <1>1, <1>4, <2>1, <2>7, <2>9
<1>5. CASE ~(~Met(rows, row, by) /\ Met(batch, row, by))
  <2>1. ASSUME NEW other \in Range(added), R[other] = row PROVE FALSE
    <3>1. RowKey(other, by) = RowKey(row, by)
      BY <1>3, <2>1
    <3>2. ~Met(rows, other, by) /\ Met(batch, other, by)
      BY <1>2 DEF Adds
    <3>3. Met(rows, other, by) <=> Met(rows, row, by)
      BY <3>1, MetAlike
    <3>4. Met(batch, other, by) <=> Met(batch, row, by)
      BY <3>1, MetAlike
    <3> QED BY <1>5, <3>2, <3>3, <3>4
  <2>2. Count(Each(R, added), row) = 0
    BY <2>1, CountEachNone
  <2> QED BY <1>1, <1>5, <2>2
<1> QED BY <1>4, <1>5

\* A row is added by two batches when the first adds it and the second keeps
\* it, or when only the second brings its key.
LEMMA AddsBoth ==
    ASSUME NEW X, NEW rows, NEW batch \in Seq(X), NEW next \in Seq(X), NEW by, NEW row
    PROVE  Adds(rows, Cat(batch, next), by, row)
             <=> /\ ~Met(rows, row, by)
                 /\ Met(batch, row, by) \/ Met(next, row, by)
                 /\ Folded(next, Folded(batch, row, by), by) = row
<1>1. Met(Cat(batch, next), row, by) <=> Met(batch, row, by) \/ Met(next, row, by)
  BY MetCat
<1>2. Folded(Cat(batch, next), row, by) = Folded(next, Folded(batch, row, by), by)
  BY FoldedCat
<1> QED BY <1>1, <1>2 DEF Adds

LEMMA AddedOnce ==
    ASSUME NEW X, NEW rows \in Seq(X), NEW batch \in Seq(X), NEW by, NEW added \in Seq(X),
           \A r : Count(added, r) = IF Adds(rows, batch, by, r) THEN 1 ELSE 0,
           NEW after, Grown(X, rows, batch, by, after), NEW next \in Seq(X), NEW row
    PROVE  Count(Cat(Each(Replacing(X, next, by), added), Newcomers(after, next, by)), row)
             = IF Adds(rows, Cat(batch, next), by, row) THEN 1 ELSE 0
<1>1. PICK R \in Maps(X, X) : R = Replacing(X, next, by)
  BY MapsReplacing
<1>2. PICK a \in Seq(X) : a = Each(R, added)
  BY MapsEach
<1>3. PICK b \in Seq(X) : b = Newcomers(after, next, by)
  <2>1. Newcomers(after, next, by) \in Seq(X)
    BY NewcomersType
  <2> QED BY <2>1
<1>4. Count(Cat(a, b), row) = Count(a, row) + Count(b, row)
  BY CountCat
<1>5. Count(Each(Replacing(X, next, by), added), row)
        = IF /\ ~Met(rows, row, by) /\ Met(batch, row, by)
             /\ Folded(next, Folded(batch, row, by), by) = row
          THEN 1 ELSE 0
  BY AddedReplaced
<1>6. Count(Newcomers(after, next, by), row) = IF Adds(after, next, by, row) THEN 1 ELSE 0
  BY NewcomersOnce
<1>7. Met(after, row, by) <=> Met(rows, row, by) \/ Met(batch, row, by)
  BY GrownKeys
<1>8. Adds(rows, Cat(batch, next), by, row)
        <=> /\ ~Met(rows, row, by)
            /\ Met(batch, row, by) \/ Met(next, row, by)
            /\ Folded(next, Folded(batch, row, by), by) = row
  BY AddsBoth
<1>9. Adds(after, next, by, row)
        <=> ~Met(after, row, by) /\ Met(next, row, by) /\ Folded(next, row, by) = row
  BY DEF Adds
<1>10. CASE Met(batch, row, by)
  BY <1>1, <1>2, <1>3, <1>4, <1>5, <1>6, <1>7, <1>8, <1>9, <1>10
<1>11. CASE ~Met(batch, row, by)
  <2>1. Folded(batch, row, by) = row
    BY <1>11, FoldedUnmet
  <2> QED BY <1>1, <1>2, <1>3, <1>4, <1>5, <1>6, <1>7, <1>8, <1>9, <1>11, <2>1
<1> QED BY <1>10, <1>11

LEMMA ReplacedTwice ==
    ASSUME NEW X, NEW rows \in Seq(X), NEW batch \in Seq(X), NEW next \in Seq(X), NEW by
    PROVE  Each(Replacing(X, next, by), Each(Replacing(X, batch, by), rows))
             = Each(Replacing(X, Cat(batch, next), by), rows)
<1>1. PICK both \in Seq(X) : both = Cat(batch, next)
  BY CatType
<1>2. PICK G \in Maps(X, X) : G = Replacing(X, batch, by)
  BY MapsReplacing
<1>3. PICK H \in Maps(X, X) : H = Replacing(X, next, by)
  BY MapsReplacing
<1>4. PICK B \in Maps(X, X) : B = Replacing(X, both, by)
  BY MapsReplacing
<1>5. ASSUME NEW x \in X PROVE B[x] = H[G[x]]
  <2>1. G[x] \in X
    BY DEF Maps
  <2>2. B[x] = Folded(both, x, by) /\ G[x] = Folded(batch, x, by) /\ H[G[x]] = Folded(next, G[x], by)
    BY <1>2, <1>3, <1>4, <2>1 DEF Replacing
  <2>3. Folded(Cat(batch, next), x, by) = Folded(next, Folded(batch, x, by), by)
    BY FoldedCat
  <2> QED BY <1>1, <2>2, <2>3
<1>6. Each(H, Each(G, rows)) = Each(B, rows)
  BY <1>5, EachEach
<1> QED BY <1>1, <1>2, <1>3, <1>4, <1>6

LEMMA GrownType ==
    ASSUME NEW X, NEW rows \in Seq(X), NEW batch \in Seq(X), NEW by, NEW after,
           Grown(X, rows, batch, by, after)
    PROVE  after \in Seq(X)
<1>1. PICK added \in Seq(X) : after = Cat(Each(Replacing(X, batch, by), rows), added)
  BY DEF Grown
<1>2. PICK R \in Maps(X, X) : R = Replacing(X, batch, by)
  BY MapsReplacing
<1>3. PICK e \in Seq(X) : e = Each(R, rows)
  BY MapsEach
<1> QED BY <1>1, <1>2, <1>3, CatType

LEMMA GrownStep ==
    ASSUME NEW X, NEW rows \in Seq(X), NEW batch \in Seq(X), NEW by, NEW after,
           Grown(X, rows, batch, by, after), NEW next \in Seq(X)
    PROVE  Grown(X, rows, Cat(batch, next), by,
                 Cat(Each(Replacing(X, next, by), after), Newcomers(after, next, by)))
<1>1. PICK added \in Seq(X) :
        /\ after = Cat(Each(Replacing(X, batch, by), rows), added)
        /\ \A r : Count(added, r) = IF Adds(rows, batch, by, r) THEN 1 ELSE 0
  BY DEF Grown
<1>2. PICK G \in Maps(X, X) : G = Replacing(X, batch, by)
  BY MapsReplacing
<1>3. PICK H \in Maps(X, X) : H = Replacing(X, next, by)
  BY MapsReplacing
<1>4. PICK e \in Seq(X) : e = Each(G, rows)
  BY MapsEach
<1>5. PICK new \in Seq(X) : new = Newcomers(after, next, by)
  <2>1. Newcomers(after, next, by) \in Seq(X)
    BY NewcomersType
  <2> QED BY <2>1
<1>6. PICK ee \in Seq(X) : ee = Each(H, e)
  BY MapsEach
<1>7. PICK ea \in Seq(X) : ea = Each(H, added)
  BY MapsEach
<1>8. Each(H, Cat(e, added)) = Cat(Each(H, e), Each(H, added))
  BY EachCat
<1>9. Cat(Cat(ee, ea), new) = Cat(ee, Cat(ea, new))
  BY CatAssociative
<1>10. ee = Each(Replacing(X, Cat(batch, next), by), rows)
  BY <1>2, <1>3, <1>4, <1>6, ReplacedTwice
<1>11. PICK all \in Seq(X) : all = Cat(ea, new)
  BY CatType
<1>12. Cat(Each(H, after), new) = Cat(Each(Replacing(X, Cat(batch, next), by), rows), all)
  BY <1>1, <1>2, <1>4, <1>6, <1>7, <1>8, <1>9, <1>10, <1>11
<1>13. ASSUME NEW row
       PROVE  Count(all, row) = IF Adds(rows, Cat(batch, next), by, row) THEN 1 ELSE 0
  <2>1. Count(Cat(Each(Replacing(X, next, by), added), Newcomers(after, next, by)), row)
          = IF Adds(rows, Cat(batch, next), by, row) THEN 1 ELSE 0
    BY <1>1, AddedOnce
  <2> QED BY <1>3, <1>5, <1>7, <1>11, <2>1
<1> QED BY <1>3, <1>5, <1>12, <1>13 DEF Grown

LEMMA GrownStart ==
    ASSUME NEW X, NEW rows \in Seq(X), NEW by PROVE Grown(X, rows, <<>>, by, rows)
<1>1. PICK none \in Seq(X) : none = <<>>
  BY EmptySeq
<1>2. \A row : ~Met(none, row, by)
  BY <1>1, ElementsEmpty DEF Met
<1>3. PICK R \in Maps(X, X) : R = Replacing(X, none, by)
  BY MapsReplacing
<1>4. \A row \in X : R[row] = row
  BY <1>2, <1>3, FoldedUnmet DEF Replacing
<1>5. Each(R, rows) = rows
  <2>1. Range(rows) \subseteq X
    BY ElementsType
  <2>2. \A x \in Range(rows) : R[x] = x
    BY <1>4, <2>1
  <2>3. rows = [n \in DOMAIN rows |-> rows[n]]
    OBVIOUS
  <2> QED BY <2>2, <2>3, EachAlike
<1>6. Cat(rows, none) = rows
  BY <1>1, CatEmpty
<1>7. \A row : Count(none, row) = IF Adds(rows, none, by, row) THEN 1 ELSE 0
  BY <1>1, <1>2, CountEmpty DEF Adds
<1> QED BY <1>1, <1>3, <1>5, <1>6, <1>7 DEF Grown

\* Folding in one batch more.
LEMMA MergedAppend ==
    ASSUME NEW held, NEW X, NEW batches \in Seq(X), NEW batch \in X, NEW by
    PROVE  Merged(held, Append(batches, batch), by) = FoldIn(Merged(held, batches, by), batch, by)
<1>1. PICK N \in Nat : N = Len(batches)
  BY LenProperties
<1>2. PICK more : more = Append(batches, batch)
  OBVIOUS
<1>3. /\ Len(more) = N + 1 /\ more[N + 1] = batch
      /\ \A n \in 1..N : more[n] = batches[n]
  BY <1>1, <1>2, AppendProperties, LenProperties
<1>4. PICK f : MergesThrough(f, held, batches, by)
  BY <1>1, MergedIs
<1>5. PICK g : MergesThrough(g, held, more, by)
  <2>1. Len(more) \in Nat
    BY <1>3
  <2> QED BY <2>1, MergedIs
<1>6. /\ Merged(held, batches, by) = f[N] /\ f[0] = held
      /\ \A n \in 1..N : f[n] = FoldIn(f[n - 1], batches[n], by)
  BY <1>1, <1>4 DEF MergesThrough
<1>7. /\ Merged(held, more, by) = g[N + 1] /\ g[0] = held
      /\ \A n \in 1..(N + 1) : g[n] = FoldIn(g[n - 1], more[n], by)
  BY <1>3, <1>5 DEF MergesThrough
<1> DEFINE T == {n \in Nat : n <= N => g[n] = f[n]}
<1>8. 0 \in T
  BY <1>6, <1>7
<1>9. ASSUME NEW n \in T PROVE n + 1 \in T
  <2> SUFFICES ASSUME n + 1 <= N PROVE g[n + 1] = f[n + 1]
    OBVIOUS
  <2>1. n \in Nat /\ n + 1 \in 1..N /\ n + 1 \in 1..(N + 1) /\ (n + 1) - 1 = n /\ g[n] = f[n]
    OBVIOUS
  <2> QED BY <1>3, <1>6, <1>7, <2>1
<1>10. T = Nat
  <2> HIDE DEF T
  <2>1. T \in SUBSET Nat
    BY DEF T
  <2> QED BY <1>8, <1>9, <2>1, Inductive
<1>11. g[N] = f[N]
  BY <1>10
<1>12. g[N + 1] = FoldIn(g[N], more[N + 1], by)
  <2>1. N + 1 \in 1..(N + 1) /\ (N + 1) - 1 = N
    OBVIOUS
  <2> QED BY <1>7, <2>1
<1> QED BY <1>2, <1>3, <1>6, <1>7, <1>11, <1>12

LEMMA MergedNone == ASSUME NEW held, NEW by PROVE Merged(held, <<>>, by) = held
<1>1. Len(<<>>) = 0
  BY EmptySeq
<1>2. PICK f : MergesThrough(f, held, <<>>, by)
  BY <1>1, MergedIs
<1> QED BY <1>1, <1>2 DEF MergesThrough

LEMMA MergedStep ==
    ASSUME NEW X, NEW held \in Seq(Seq(X)), NEW batches \in Seq(Seq(X)), NEW by,
           Grown(X, FlattenSeq(held), FlattenSeq(batches), by, FlattenSeq(Merged(held, batches, by))),
           NEW batch \in Seq(X)
    PROVE  Grown(X, FlattenSeq(held), FlattenSeq(Append(batches, batch)), by,
                 FlattenSeq(Merged(held, Append(batches, batch), by)))
<1>1. PICK rows \in Seq(X) : rows = FlattenSeq(held)
  BY FlattenType
<1>2. PICK inc \in Seq(X) : inc = FlattenSeq(batches)
  BY FlattenType
<1>3. PICK merged \in Seq(Seq(X)) : merged = Merged(held, batches, by)
  <2>1. Merged(held, batches, by) \in Seq(Seq(X))
    BY MergedType
  <2> QED BY <2>1
<1>4. PICK after : after = FlattenSeq(merged)
  OBVIOUS
<1>5. Grown(X, rows, inc, by, after)
  BY <1>1, <1>2, <1>3, <1>4
<1>6. Grown(X, rows, Cat(inc, batch), by,
            Cat(Each(Replacing(X, batch, by), after), Newcomers(after, batch, by)))
  BY <1>5, GrownStep
<1>7. FlattenSeq(FoldIn(merged, batch, by))
        = Cat(Each(Replacing(X, batch, by), FlattenSeq(merged)),
              Newcomers(FlattenSeq(merged), batch, by))
  BY FoldInContent
<1>8. FlattenSeq(Append(batches, batch)) = Cat(FlattenSeq(batches), batch)
  BY FlattenAppend
<1>9. PICK S : S = Seq(X)
  OBVIOUS
<1>10. Merged(held, Append(batches, batch), by) = FoldIn(Merged(held, batches, by), batch, by)
  <2>1. batches \in Seq(S) /\ batch \in S
    BY <1>9
  <2> QED BY <2>1, MergedAppend
<1> QED BY <1>1, <1>2, <1>3, <1>4, <1>6, <1>7, <1>8, <1>10

LEMMA MergedContent ==
    ASSUME NEW X, NEW held \in Seq(Seq(X)), NEW batches \in Seq(Seq(X)), NEW by
    PROVE  Grown(X, FlattenSeq(held), FlattenSeq(batches), by, FlattenSeq(Merged(held, batches, by)))
<1> DEFINE T == {t \in Seq(Seq(X)) :
                   Grown(X, FlattenSeq(held), FlattenSeq(t), by, FlattenSeq(Merged(held, t, by)))}
<1>1. <<>> \in T
  <2>1. PICK rows \in Seq(X) : rows = FlattenSeq(held)
    BY FlattenType
  <2>2. Grown(X, rows, <<>>, by, rows)
    BY GrownStart
  <2> QED BY <2>1, <2>2, FlattenEmpty, MergedNone, EmptySeq
<1>2. ASSUME NEW t \in T, NEW x \in Seq(X) PROVE Append(t, x) \in T
  <2>1. /\ t \in Seq(Seq(X)) /\ Append(t, x) \in Seq(Seq(X))
        /\ Grown(X, FlattenSeq(held), FlattenSeq(t), by, FlattenSeq(Merged(held, t, by)))
    OBVIOUS
  <2> QED BY <2>1, MergedStep
<1> HIDE DEF T
<1>3. T \in SUBSET Seq(Seq(X))
  BY DEF T
<1>4. T = Seq(Seq(X))
  <2>1. PICK S : S = Seq(X)
    OBVIOUS
  <2>2. T \in SUBSET Seq(S) /\ \A t \in T : \A x \in S : Append(t, x) \in T
    BY <1>2, <1>3, <2>1
  <2>3. T = Seq(S)
    BY <1>1, <2>2, SequencesInductive
  <2> QED BY <2>1, <2>3
<1> QED BY <1>4 DEF T

\* A finite set, listed: each element is there, and once.
LEMMA ListedOnce ==
    ASSUME NEW S, IsFiniteSet(S)
    PROVE  /\ SetToSeq(S) \in Seq(S)
           /\ \A x : Count(SetToSeq(S), x) = IF x \in S THEN 1 ELSE 0
<1>1. PICK n \in Nat : n = Cardinality(S)
  BY FS_CardinalityType
<1>2. PICK f \in [1..n -> S] : IsInjective(f)
  <2>1. ExistsBijection(1..n, S)
    BY <1>1, FS_CardinalityType
  <2> QED BY <2>1 DEF ExistsBijection, Bijection, Injection
<1>3. PICK list \in [1..n -> S] : list = SetToSeq(S) /\ IsInjective(list)
  <2>1. SetToSeq(S) = CHOOSE g \in [1..n -> S] : IsInjective(g)
    BY <1>1 DEF SetToSeq
  <2> QED BY <1>2, <2>1
<1>4. list \in Injection(1..n, S)
  BY <1>3 DEF Injection
<1>5. IsFiniteSet(1..n) /\ Cardinality(1..n) = n
  <2>1. 1 \in Int /\ n \in Int
    OBVIOUS
  <2>2. IsFiniteSet(1..n) /\ Cardinality(1..n) = IF 1 > n THEN 0 ELSE n - 1 + 1
    BY <2>1, FS_Interval
  <2> QED BY <2>2
<1>6. list \in Surjection(1..n, S)
  BY <1>1, <1>4, <1>5, FS_Injection
<1>7. list \in Seq(S)
  BY <1>3, SeqDef
<1>8. ASSUME NEW x PROVE Count(list, x) = IF x \in S THEN 1 ELSE 0
  <2>1. Cardinality(PlacesOf(list, x)) = Count(list, x)
    BY <1>7, CardinalityIsCount
  <2>2. CASE x \in S
    <3>1. PICK i \in 1..n : list[i] = x
      BY <1>6, <2>2 DEF Surjection
    <3>2. PlacesOf(list, x) = {i}
      BY <1>3, <3>1 DEF PlacesOf, IsInjective
    <3>3. Cardinality({i}) = 1
      BY FS_Singleton
    <3> QED BY <2>1, <2>2, <3>2, <3>3
  <2>3. CASE x \notin S
    <3>1. PlacesOf(list, x) = {}
      BY <1>3, <2>3 DEF PlacesOf
    <3> QED BY <2>1, <2>3, <3>1, FS_EmptySet
  <2> QED BY <2>2, <2>3
<1> QED BY <1>3, <1>7, <1>8

LEMMA ElementsFinite == ASSUME NEW X, NEW s \in Seq(X) PROVE IsFiniteSet(Range(s))
<1>1. DOMAIN s = 1..Len(s) /\ Len(s) \in Nat
  BY LenProperties
<1>2. PICK D : D = DOMAIN s
  OBVIOUS
<1>3. IsFiniteSet(D)
  <2>1. 1 \in Int /\ Len(s) \in Int
    BY <1>1
  <2>2. IsFiniteSet(1..Len(s))
    BY <2>1, FS_Interval
  <2> QED BY <1>1, <1>2, <2>2
<1>4. s \in Surjection(D, Range(s))
  <2>1. s \in [D -> Range(s)]
    BY <1>2 DEF Range
  <2> QED BY <1>2, <2>1 DEF Surjection, Range
<1> QED BY <1>3, <1>4, FS_Surjection

\* The upsert of a table, in the same words.
LEMMA UpsertIs ==
    ASSUME NEW X, NEW rows \in Seq(X), NEW batch \in Seq(X), NEW by
    PROVE  /\ Upsert(rows, batch, by) \in Seq(X)
           /\ \A row : Count(Upsert(rows, batch, by), row)
                         = Count(Each(Replacing(X, batch, by), rows), row)
                             + IF Adds(rows, batch, by, row) THEN 1 ELSE 0
<1> DEFINE added == {batch[LastOf(Matching(batch, batch[n], by))] :
                        n \in {n \in DOMAIN batch : Matching(rows, batch[n], by) = {}}}
<1>1. PICK R \in Maps(X, X) : R = Replacing(X, batch, by)
  BY MapsReplacing
<1>2. PICK e \in Seq(X) : e = Each(R, rows)
  BY MapsEach
<1>3. e = [n \in DOMAIN rows |->
             IF Matching(batch, rows[n], by) = {} THEN rows[n]
             ELSE batch[LastOf(Matching(batch, rows[n], by))]]
  <2>1. \A n \in DOMAIN rows : rows[n] \in X
    BY LenProperties, ElementOfSeq
  <2> QED BY <1>1, <1>2, <2>1 DEF Each, Replacing, Folded
<1>4. Upsert(rows, batch, by) = e \o SetToSeq(added)
  BY <1>3 DEF Upsert
<1>5. ASSUME NEW n \in DOMAIN batch
      PROVE  /\ batch[LastOf(Matching(batch, batch[n], by))] = Folded(batch, batch[n], by)
             /\ Met(batch, batch[n], by) /\ batch[n] \in Range(batch)
  <2>1. n \in Matching(batch, batch[n], by)
    BY DEF Matching
  <2> QED BY <2>1, MetIs DEF Folded, Range
<1>6. ASSUME NEW row PROVE row \in added <=> Adds(rows, batch, by, row)
  <2>1. ASSUME NEW n \in DOMAIN batch, Matching(rows, batch[n], by) = {},
               row = Folded(batch, batch[n], by)
        PROVE  Adds(rows, batch, by, row)
    <3>1. PICK other : other = batch[n]
      OBVIOUS
    <3>2. RowKey(row, by) = RowKey(other, by)
      BY <2>1, <3>1, FoldedKey
    <3>3. ~Met(rows, other, by) /\ Met(batch, other, by)
      BY <1>5, <2>1, <3>1, MetIs
    <3>4. ~Met(rows, row, by) /\ Met(batch, row, by)
      BY <3>2, <3>3, MetAlike
    <3>5. Folded(batch, row, by) = Folded(batch, other, by)
      BY <3>2, <3>4, FoldedAlike
    <3> QED BY <2>1, <3>1, <3>4, <3>5 DEF Adds
  <2>2. ASSUME Adds(rows, batch, by, row)
        PROVE  \E n \in DOMAIN batch : Matching(rows, batch[n], by) = {} /\ row = Folded(batch, batch[n], by)
    <3>1. ~Met(rows, row, by) /\ Met(batch, row, by) /\ Folded(batch, row, by) = row
      BY <2>2 DEF Adds
    <3>2. row \in Range(batch)
      BY <3>1, FoldedIn
    <3>3. Matching(rows, row, by) = {}
      BY <3>1, MetIs
    <3> QED BY <3>1, <3>2, <3>3 DEF Range
  <2> QED BY <1>5, <2>1, <2>2
<1>7. added \in SUBSET Range(batch)
  <2>1. ASSUME NEW row \in added PROVE row \in Range(batch)
    <3>1. Met(batch, row, by) /\ Folded(batch, row, by) = row
      BY <1>6 DEF Adds
    <3> QED BY <3>1, FoldedIn
  <2> QED BY <2>1
<1>8. IsFiniteSet(Range(batch)) /\ Range(batch) \subseteq X
  BY ElementsFinite, ElementsType
<1> HIDE DEF added
<1>9. IsFiniteSet(added) /\ added \subseteq X
  BY <1>7, <1>8, FS_Subset
<1>10. SetToSeq(added) \in Seq(added)
       /\ \A x : Count(SetToSeq(added), x) = IF x \in added THEN 1 ELSE 0
  BY <1>9, ListedOnce
<1>11. PICK list \in Seq(X) : list = SetToSeq(added)
  BY <1>9, <1>10, SeqMonotone
<1>12. Upsert(rows, batch, by) = Cat(e, list)
  BY <1>4, <1>11 DEF Cat
<1>13. Cat(e, list) \in Seq(X)
  BY CatType
<1>14. ASSUME NEW row
       PROVE  Count(Cat(e, list), row) = Count(e, row) + IF Adds(rows, batch, by, row) THEN 1 ELSE 0
  <2>1. Count(Cat(e, list), row) = Count(e, row) + Count(list, row)
    BY CountCat
  <2> QED BY <1>6, <1>10, <1>11, <2>1
<1> QED BY <1>1, <1>2, <1>12, <1>13, <1>14

-----------------------------------------------------------------------------
(* Part of a table is folded and the rest of it kept: an upsert of both,    *)
(* if no arriving key is among the rest.                                   *)

LEMMA SameElements ==
    ASSUME NEW X, NEW s \in Seq(X), NEW t \in Seq(X), Same(s, t), NEW x
    PROVE  x \in Range(s) <=> x \in Range(t)
<1>1. Count(s, x) # 0 <=> x \in Range(s)
  BY CountIn
<1>2. Count(t, x) # 0 <=> x \in Range(t)
  BY CountIn
<1> QED BY <1>1, <1>2 DEF Same

LEMMA MetSame ==
    ASSUME NEW X, NEW s \in Seq(X), NEW t \in Seq(X), Same(s, t), NEW row, NEW by
    PROVE  Met(s, row, by) <=> Met(t, row, by)
<1>1. \A x : x \in Range(s) <=> x \in Range(t)
  BY SameElements
<1> QED BY <1>1 DEF Met

\* merge on rows: `kept` stays as it is, `stored` is folded.
Folding(X, before, kept, stored, batch, by, after) ==
    \E folded \in Seq(X) :
        /\ Same(before, Cat(kept, stored))
        /\ Same(after, Cat(kept, folded))
        /\ Grown(X, stored, batch, by, folded)

LEMMA FoldingCounts ==
    ASSUME NEW X, NEW kept \in Seq(X), NEW stored \in Seq(X), NEW batch \in Seq(X), NEW by,
           NEW before, NEW after, Folding(X, before, kept, stored, batch, by, after), NEW row
    PROVE  /\ Count(before, row) = Count(kept, row) + Count(stored, row)
           /\ Count(after, row) = Count(kept, row)
                + Count(Each(Replacing(X, batch, by), stored), row)
                + IF Adds(stored, batch, by, row) THEN 1 ELSE 0
<1>1. PICK folded \in Seq(X) :
        /\ Same(before, Cat(kept, stored))
        /\ Same(after, Cat(kept, folded))
        /\ Grown(X, stored, batch, by, folded)
  BY DEF Folding
<1>2. PICK added \in Seq(X) :
        /\ folded = Cat(Each(Replacing(X, batch, by), stored), added)
        /\ \A r : Count(added, r) = IF Adds(stored, batch, by, r) THEN 1 ELSE 0
  BY <1>1 DEF Grown
<1>3. PICK R \in Maps(X, X) : R = Replacing(X, batch, by)
  BY MapsReplacing
<1>4. PICK e \in Seq(X) : e = Each(R, stored)
  BY MapsEach
<1>5. Count(Cat(kept, stored), row) = Count(kept, row) + Count(stored, row)
  BY CountCat
<1>6. Count(Cat(kept, folded), row) = Count(kept, row) + Count(folded, row)
  BY CountCat
<1>7. Count(Cat(e, added), row) = Count(e, row) + Count(added, row)
  BY CountCat
<1>8. Count(kept, row) \in Nat
  BY CountType
<1>9. Count(e, row) \in Nat
  BY CountType
<1>10. Count(before, row) = Count(Cat(kept, stored), row) /\ Count(after, row) = Count(Cat(kept, folded), row)
  BY <1>1 DEF Same
<1> QED BY <1>2, <1>3, <1>4, <1>5, <1>6, <1>7, <1>8, <1>9, <1>10

\* When no kept row has an arriving key, the whole table is upserted.
LEMMA FoldingUpserts ==
    ASSUME NEW X, NEW kept \in Seq(X), NEW stored \in Seq(X), NEW batch \in Seq(X), NEW by,
           NEW before \in Seq(X), NEW after \in Seq(X),
           Folding(X, before, kept, stored, batch, by, after),
           \A row \in Range(kept) : ~Met(batch, row, by)
    PROVE  Same(after, Upsert(before, batch, by))
<1>1. PICK R \in Maps(X, X) : R = Replacing(X, batch, by)
  BY MapsReplacing
<1>2. PICK both \in Seq(X) : both = Cat(kept, stored)
  BY CatType
<1>3. Same(before, both)
  BY <1>2 DEF Folding
<1>4. Same(Each(R, before), Each(R, both))
  BY <1>3, SameEach
<1>5. Each(R, Cat(kept, stored)) = Cat(Each(R, kept), Each(R, stored))
  BY EachCat
<1>6. Each(R, kept) = kept
  <2>1. \A row \in Range(kept) : R[row] = row
    <3>1. ASSUME NEW row \in Range(kept) PROVE R[row] = row
      <4>1. row \in X
        BY ElementsType
      <4>2. Folded(batch, row, by) = row
        BY FoldedUnmet
      <4> QED BY <1>1, <4>1, <4>2 DEF Replacing
    <3> QED BY <3>1
  <2>2. kept = [n \in DOMAIN kept |-> kept[n]]
    OBVIOUS
  <2> QED BY <2>1, <2>2, EachAlike
<1>7. PICK e \in Seq(X) : e = Each(R, stored)
  BY MapsEach
<1>8. ASSUME NEW row PROVE Count(after, row) = Count(Upsert(before, batch, by), row)
  <2>1. Count(after, row) = Count(kept, row)
          + Count(Each(Replacing(X, batch, by), stored), row)
          + IF Adds(stored, batch, by, row) THEN 1 ELSE 0
    BY FoldingCounts
  <2>2. Count(Upsert(before, batch, by), row)
          = Count(Each(Replacing(X, batch, by), before), row)
              + IF Adds(before, batch, by, row) THEN 1 ELSE 0
    BY UpsertIs
  <2>3. Count(Cat(kept, e), row) = Count(kept, row) + Count(e, row)
    BY CountCat
  <2>4. Count(Each(R, before), row) = Count(Each(R, both), row)
    BY <1>4 DEF Same
  <2>5. Met(before, row, by) <=> Met(both, row, by)
    BY <1>3, MetSame
  <2>6. Met(Cat(kept, stored), row, by) <=> Met(kept, row, by) \/ Met(stored, row, by)
    BY MetCat
  <2>7. ~(Met(batch, row, by) /\ Met(kept, row, by))
    <3> SUFFICES ASSUME Met(kept, row, by) PROVE ~Met(batch, row, by)
      OBVIOUS
    <3>1. PICK other \in Range(kept) : RowKey(other, by) = RowKey(row, by)
      BY DEF Met
    <3>2. Met(batch, other, by) <=> Met(batch, row, by)
      BY <3>1, MetAlike
    <3> QED BY <3>2
  <2>8. Adds(stored, batch, by, row) <=> Adds(before, batch, by, row)
    BY <1>2, <2>5, <2>6, <2>7 DEF Adds
  <2> QED BY <1>1, <1>2, <1>5, <1>6, <1>7, <2>1, <2>2, <2>3, <2>4, <2>8
<1> QED BY <1>8 DEF Same

\* Whatever is kept: a row no arriving key matches is as often as before.
LEMMA FoldingKeeps ==
    ASSUME NEW X, NEW kept \in Seq(X), NEW stored \in Seq(X), NEW batch \in Seq(X), NEW by,
           NEW before \in Seq(X), NEW after \in Seq(X),
           Folding(X, before, kept, stored, batch, by, after),
           NEW S, S = {row \in X : ~Met(batch, row, by)}
    PROVE  Same(Only(after, S), Only(before, S))
<1>1. PICK R \in Maps(X, X) : R = Replacing(X, batch, by)
  BY MapsReplacing
<1>2. ASSUME NEW row \in S PROVE Count(after, row) = Count(before, row)
  <2>1. row \in X /\ ~Met(batch, row, by)
    OBVIOUS
  <2>2. Count(after, row) = Count(kept, row)
          + Count(Each(Replacing(X, batch, by), stored), row)
          + IF Adds(stored, batch, by, row) THEN 1 ELSE 0
    BY FoldingCounts
  <2>3. Count(before, row) = Count(kept, row) + Count(stored, row)
    BY FoldingCounts
  <2>4. ~Adds(stored, batch, by, row)
    BY <2>1 DEF Adds
  <2>5. ASSUME NEW other \in Range(stored) PROVE R[other] = row <=> other = row
    <3>1. other \in X
      BY ElementsType
    <3>2. R[other] = Folded(batch, other, by)
      BY <1>1, <3>1 DEF Replacing
    <3>3. RowKey(R[other], by) = RowKey(other, by)
      BY <3>2, FoldedKey
    <3>4. ASSUME RowKey(other, by) = RowKey(row, by) PROVE R[other] = other
      <4>1. ~Met(batch, other, by)
        BY <2>1, <3>4, MetAlike
      <4> QED BY <3>2, <4>1, FoldedUnmet
    <3> QED BY <3>3, <3>4
  <2>6. Count(Each(R, stored), row) = Count(stored, row)
    BY <2>5, CountEachAlike
  <2>7. Count(kept, row) \in Nat
    BY CountType
  <2>8. Count(stored, row) \in Nat
    BY CountType
  <2> QED BY <1>1, <2>2, <2>3, <2>4, <2>6, <2>7, <2>8
<1>3. ASSUME NEW row PROVE Count(Only(after, S), row) = Count(Only(before, S), row)
  <2>1. Count(Only(after, S), row) = IF row \in S THEN Count(after, row) ELSE 0
    BY CountOnly
  <2>2. Count(Only(before, S), row) = IF row \in S THEN Count(before, row) ELSE 0
    BY CountOnly
  <2> QED BY <1>2, <2>1, <2>2
<1> QED BY <1>3 DEF Same
=============================================================================
