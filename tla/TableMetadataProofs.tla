------------------------- MODULE TableMetadataProofs -------------------------
(***************************************************************************)
(* What TableMetadata promises, for any number of snapshots, names, ages   *)
(* and clocks: a document stays valid, a fast-forward keeps its history,   *)
(* and an expiry drops what the retention rules let go, all of it at once. *)
(*                                                                         *)
(* The walk along parents is a recursive function; what it computes is     *)
(* proved by induction, in the form the provers can use: a set of numbers  *)
(* that holds 0 and each member's successor holds them all.                *)
(***************************************************************************)
EXTENDS TableMetadata, FiniteSetTheorems, WellFoundedInduction, TLAPS

-----------------------------------------------------------------------------
(* Induction.                                                              *)

\* The intervals from 0 are finite sets, which strict inclusion orders well.
LEMMA Least ==
    ASSUME NEW T \in SUBSET Nat, T # {}
    PROVE  \E x \in T : \A y \in T : x <= y
<1> DEFINE U == {0..n : n \in T}
<1>1. \A n \in Nat : IsFiniteSet(0..n) /\ 0..n \in SUBSET Nat
  BY FS_Interval
<1>2. U \subseteq FiniteSubsetsOf(Nat) /\ U # {}
  BY <1>1 DEF FiniteSubsetsOf
<1>3. IsWellFoundedOn(StrictSubsetOrdering(Nat), FiniteSubsetsOf(Nat))
  BY FS_StrictSubsetOrderingWellFounded
<1>4. PICK s \in U : \A t \in U : <<t, s>> \notin StrictSubsetOrdering(Nat)
  BY <1>2, <1>3, WFMin
<1>5. PICK x \in T : s = 0..x
  BY <1>4
<1>6. ASSUME NEW y \in T, ~(x <= y) PROVE FALSE
  <2>1. 0..y \in U /\ 0..y \subseteq s /\ 0..y # s
    BY <1>5, <1>6
  <2>2. <<0..y, s>> \in StrictSubsetOrdering(Nat)
    BY <1>1, <1>5, <1>6, <2>1 DEF StrictSubsetOrdering
  <2> QED BY <1>4, <2>1, <2>2
<1> QED BY <1>6

LEMMA Inductive ==
    ASSUME NEW T \in SUBSET Nat, 0 \in T, \A n \in T : n + 1 \in T
    PROVE  T = Nat
<1> SUFFICES ASSUME Nat \ T # {} PROVE FALSE
  OBVIOUS
<1>1. PICK x \in Nat \ T : \A y \in Nat \ T : x <= y
  BY Least
<1>2. x # 0 /\ x - 1 \in Nat /\ x - 1 \notin Nat \ T
  BY <1>1
<1> QED BY <1>1, <1>2

-----------------------------------------------------------------------------
(* Walking parents.                                                        *)

Steps == 1..(MaxSnapshots + 1)

\* The equation the first N steps of a walk satisfy.
UpTo(step, N, id, held) ==
    step = [n \in 1..N |->
               IF n = 1 THEN id ELSE IF step[n - 1] \in held THEN parent[step[n - 1]] ELSE 0]

\* A walk of any length exists, so the recursive function satisfies its equation.
LEMMA WalkExists ==
    ASSUME NEW id, NEW held, NEW N \in Nat
    PROVE  \E step : UpTo(step, N, id, held)
<1> DEFINE Go(step, n) ==
               IF n = 1 THEN id ELSE IF step[n - 1] \in held THEN parent[step[n - 1]] ELSE 0
           T == {m \in Nat : \E step : UpTo(step, m, id, held)}
<1>1. 0 \in T
  <2> DEFINE e == [n \in 1..0 |-> 0]
  <2>1. UpTo(e, 0, id, held)
    BY 1..0 = {} DEF UpTo
  <2> QED BY <2>1
<1>2. ASSUME NEW m \in T PROVE m + 1 \in T
  <2>1. PICK step : UpTo(step, m, id, held)
    BY <1>2
  <2> DEFINE longer == [n \in 1..(m + 1) |-> IF n \in 1..m THEN step[n] ELSE Go(step, n)]
  <2>2. \A n \in 1..m : step[n] = Go(step, n)
    BY <2>1 DEF UpTo
  <2>3. \A n \in 1..(m + 1) : n # 1 => longer[n - 1] = step[n - 1]
    OBVIOUS
  <2>4. \A n \in 1..(m + 1) : Go(longer, n) = Go(step, n)
    BY <2>3
  <2>5. \A n \in 1..(m + 1) : longer[n] = Go(longer, n)
    BY <2>2, <2>4
  <2>6. longer = [n \in 1..(m + 1) |-> Go(longer, n)]
    <3>1. longer = [n \in 1..(m + 1) |-> longer[n]]
      OBVIOUS
    <3> HIDE DEF longer, Go
    <3> QED BY <2>5, <3>1
  <2> HIDE DEF longer
  <2> QED BY <2>6 DEF UpTo
<1>3. T = Nat
  <2> HIDE DEF T
  <2>1. T \subseteq Nat
    BY DEF T
  <2> QED BY <1>1, <1>2, <2>1, Inductive
<1> QED BY <1>3

LEMMA WalkIs ==
    ASSUME NEW id, NEW held
    PROVE  /\ Walk(id, held)[1] = id
           /\ \A n \in Steps : n # 1 =>
                 Walk(id, held)[n] = IF Walk(id, held)[n - 1] \in held
                                     THEN parent[Walk(id, held)[n - 1]] ELSE 0
<1>1. \E step : UpTo(step, MaxSnapshots + 1, id, held)
  BY WalkExists, MetadataAssumption
<1>2. Walk(id, held) = CHOOSE step : UpTo(step, MaxSnapshots + 1, id, held)
  BY DEF Walk, UpTo
<1>3. UpTo(Walk(id, held), MaxSnapshots + 1, id, held)
  BY <1>1, <1>2
<1>4. 1 \in Steps
  BY MetadataAssumption DEF Steps
<1> QED BY <1>3, <1>4 DEF UpTo, Steps
\* A parent is older: its id is smaller, and 0 is none.
Tree == parent \in [Ids -> 0..MaxSnapshots] /\ \A i \in Ids : parent[i] < i

\* A walk only goes up: past retained snapshots, each below the one before.
LEMMA WalkDescends ==
    ASSUME Tree, NEW id \in 0..MaxSnapshots, NEW held \in SUBSET Ids
    PROVE  \A n \in Steps :
              /\ Walk(id, held)[n] \in 0..MaxSnapshots
              /\ Walk(id, held)[n] # 0 =>
                    \A m \in 1..(n - 1) : /\ Walk(id, held)[m] \in held
                                          /\ Walk(id, held)[n] + (n - m) <= Walk(id, held)[m]
<1> DEFINE up == Walk(id, held)
           P(n) == /\ up[n] \in 0..MaxSnapshots
                   /\ up[n] # 0 => \A m \in 1..(n - 1) : up[m] \in held /\ up[n] + (n - m) <= up[m]
           T == {n \in Nat : n + 1 \in Steps => P(n + 1)}
<1>1. up[1] = id /\ \A n \in Steps : n # 1 =>
          up[n] = IF up[n - 1] \in held THEN parent[up[n - 1]] ELSE 0
  BY WalkIs
<1>2. MaxSnapshots \in Nat
  BY MetadataAssumption
<1> HIDE DEF up
<1>3. 0 \in T
  <2>1. P(1)
    BY <1>1
  <2> QED BY <2>1
<1>4. ASSUME NEW n \in T PROVE n + 1 \in T
  <2> SUFFICES ASSUME n + 2 \in Steps PROVE P(n + 2)
    <3>1. n \in Nat
      OBVIOUS
    <3>2. (n + 1) + 1 = n + 2
      BY <3>1
    <3> HIDE DEF P
    <3> QED BY <3>1, <3>2
  <2>1. n \in Nat /\ n + 1 \in Steps
    BY <1>2 DEF Steps
  <2>2. P(n + 1)
    BY <2>1
  <2>3. up[n + 2] = IF up[n + 1] \in held THEN parent[up[n + 1]] ELSE 0
    <3>1. n + 2 # 1 /\ (n + 2) - 1 = n + 1
      BY <2>1
    <3> QED BY <1>1, <3>1
  <2>4. CASE up[n + 1] \notin held
    BY <1>2, <2>3, <2>4
  <2>5. CASE up[n + 1] \in held
    <3>1. up[n + 1] \in Ids /\ up[n + 2] = parent[up[n + 1]]
      BY <2>3, <2>5
    <3>2. up[n + 2] \in 0..MaxSnapshots /\ up[n + 2] < up[n + 1] /\ up[n + 1] # 0
      BY <1>2, <3>1 DEF Tree, Ids
    <3>3. ASSUME up[n + 2] # 0, NEW m \in 1..(n + 1)
          PROVE  up[m] \in held /\ up[n + 2] + (n + 2 - m) <= up[m]
      <4>1. CASE m = n + 1
        BY <2>1, <2>5, <3>2, <4>1
      <4>2. CASE m # n + 1
        <5>1. m \in 1..((n + 1) - 1)
          BY <2>1, <4>2
        <5>2. up[m] \in held /\ up[n + 1] + ((n + 1) - m) <= up[m]
          BY <2>2, <3>2, <5>1
        <5>3. up[m] \in Nat /\ up[n + 1] \in Nat /\ up[n + 2] \in Nat
          <6>1. up[m] \in Ids
            BY <5>2
          <6>2. up[n + 1] \in Ids
            BY <2>5
          <6>3. Ids \subseteq Nat /\ 0..MaxSnapshots \subseteq Nat
            BY <1>2 DEF Ids
          <6> HIDE DEF P, T
          <6> QED BY <3>2, <6>1, <6>2, <6>3
        <5> QED BY <2>1, <3>2, <5>1, <5>2, <5>3
      <4> QED BY <4>1, <4>2
    <3>4. 1..((n + 2) - 1) = 1..(n + 1)
      BY <2>1
    <3> QED BY <3>2, <3>3, <3>4
  <2> QED BY <2>4, <2>5
<1>5. T = Nat
  <2> HIDE DEF T
  <2>1. T \subseteq Nat
    BY DEF T
  <2> QED BY <1>3, <1>4, <2>1, Inductive
<1>6. ASSUME NEW n \in Steps PROVE P(n)
  <2>1. n - 1 \in Nat /\ (n - 1) + 1 = n
    BY <1>2 DEF Steps
  <2>2. n - 1 \in T
    BY <1>5, <2>1
  <2> HIDE DEF P
  <2> QED BY <2>1, <2>2
<1> QED BY <1>6 DEF up

\* Where a walk goes on from is where a walk from there goes.
LEMMA WalkGoesOn ==
    ASSUME NEW id, NEW held, NEW n \in Steps
    PROVE  \A m \in Steps : n + m - 1 \in Steps =>
              Walk(Walk(id, held)[n], held)[m] = Walk(id, held)[n + m - 1]
<1> DEFINE up == Walk(id, held)
           on == Walk(up[n], held)
           P(m) == n + m - 1 \in Steps => on[m] = up[n + m - 1]
           T == {m \in Nat : m + 1 \in Steps => P(m + 1)}
<1>1. \A k \in Steps : k # 1 => up[k] = IF up[k - 1] \in held THEN parent[up[k - 1]] ELSE 0
  BY WalkIs
<1>2. on[1] = up[n] /\ \A k \in Steps : k # 1 =>
          on[k] = IF on[k - 1] \in held THEN parent[on[k - 1]] ELSE 0
  BY WalkIs
<1>3. MaxSnapshots \in Nat /\ n \in Nat
  BY MetadataAssumption DEF Steps
<1> HIDE DEF up, on
<1>4. 0 \in T
  <2>1. n + 1 - 1 = n
    BY <1>3
  <2> QED BY <1>2, <2>1
<1>5. ASSUME NEW m \in T PROVE m + 1 \in T
  <2> SUFFICES ASSUME (m + 1) + 1 \in Steps, n + ((m + 1) + 1) - 1 \in Steps
               PROVE  on[(m + 1) + 1] = up[n + ((m + 1) + 1) - 1]
    OBVIOUS
  <2>1. m \in Nat /\ m + 1 \in Steps /\ n + (m + 1) - 1 \in Steps
    BY <1>3 DEF Steps
  <2>2. on[m + 1] = up[n + (m + 1) - 1]
    BY <2>1
  <2>3. /\ (m + 1) + 1 # 1 /\ ((m + 1) + 1) - 1 = m + 1
        /\ n + ((m + 1) + 1) - 1 # 1 /\ (n + ((m + 1) + 1) - 1) - 1 = n + (m + 1) - 1
    BY <1>3, <2>1 DEF Steps
  <2>4. on[(m + 1) + 1] = IF on[m + 1] \in held THEN parent[on[m + 1]] ELSE 0
    BY <1>2, <2>3
  <2>5. up[n + ((m + 1) + 1) - 1]
           = IF up[n + (m + 1) - 1] \in held THEN parent[up[n + (m + 1) - 1]] ELSE 0
    BY <1>1, <2>3
  <2> QED BY <2>2, <2>4, <2>5
<1>6. T = Nat
  <2> HIDE DEF T
  <2>1. T \subseteq Nat
    BY DEF T
  <2> QED BY <1>4, <1>5, <2>1, Inductive
<1>7. ASSUME NEW m \in Steps PROVE P(m)
  <2>1. m - 1 \in Nat /\ (m - 1) + 1 = m
    BY <1>3 DEF Steps
  <2>2. m - 1 \in T
    BY <1>6, <2>1
  <2> HIDE DEF P
  <2> QED BY <2>1, <2>2
<1> QED BY <1>7 DEF up, on

\* Two retained sets that hold what a walk passes give the same walk.
LEMMA WalkAgrees ==
    ASSUME NEW id, NEW held, NEW kept, NEW n \in Steps,
           \A m \in 1..(n - 1) : Walk(id, held)[m] \in held /\ Walk(id, held)[m] \in kept
    PROVE  \A m \in 1..n : Walk(id, kept)[m] = Walk(id, held)[m]
<1> DEFINE up == Walk(id, held)
           on == Walk(id, kept)
           P(m) == m \in 1..n => on[m] = up[m]
           T == {m \in Nat : P(m + 1)}
<1>1. up[1] = id /\ \A k \in Steps : k # 1 => up[k] = IF up[k - 1] \in held THEN parent[up[k - 1]] ELSE 0
  BY WalkIs
<1>2. on[1] = id /\ \A k \in Steps : k # 1 => on[k] = IF on[k - 1] \in kept THEN parent[on[k - 1]] ELSE 0
  BY WalkIs
<1>3. MaxSnapshots \in Nat /\ n \in Nat /\ n <= MaxSnapshots + 1
  BY MetadataAssumption DEF Steps
<1>4. \A m \in 1..(n - 1) : up[m] \in held /\ up[m] \in kept
  OBVIOUS
<1> HIDE DEF up, on
<1>5. 0 \in T
  BY <1>1, <1>2
<1>6. ASSUME NEW m \in T PROVE m + 1 \in T
  <2> SUFFICES ASSUME (m + 1) + 1 \in 1..n PROVE on[(m + 1) + 1] = up[(m + 1) + 1]
    OBVIOUS
  <2>1. m \in Nat /\ m + 1 \in 1..n /\ m + 1 \in 1..(n - 1) /\ (m + 1) + 1 \in Steps
    BY <1>3 DEF Steps
  <2>2. on[m + 1] = up[m + 1]
    BY <2>1
  <2>3. (m + 1) + 1 # 1 /\ ((m + 1) + 1) - 1 = m + 1
    BY <2>1
  <2>4. on[(m + 1) + 1] = IF on[m + 1] \in kept THEN parent[on[m + 1]] ELSE 0
    BY <1>2, <2>1, <2>3
  <2>5. up[(m + 1) + 1] = IF up[m + 1] \in held THEN parent[up[m + 1]] ELSE 0
    BY <1>1, <2>1, <2>3
  <2> QED BY <1>4, <2>1, <2>2, <2>4, <2>5
<1>7. T = Nat
  <2> HIDE DEF T
  <2>1. T \subseteq Nat
    BY DEF T
  <2> QED BY <1>5, <1>6, <2>1, Inductive
<1>8. ASSUME NEW m \in 1..n PROVE on[m] = up[m]
  <2>1. m - 1 \in Nat /\ (m - 1) + 1 = m
    BY <1>3
  <2>2. m - 1 \in T
    BY <1>7, <2>1
  <2> QED BY <2>1, <2>2
<1> QED BY <1>8 DEF up, on

\* A walk meets no snapshot twice: among its first n retained ones are n.
LEMMA WalkCounts ==
    ASSUME Tree, NEW id \in 0..MaxSnapshots, NEW held \in SUBSET Ids, NEW n \in Steps,
           NEW kept, IsFiniteSet(kept), \A m \in 1..n : Walk(id, held)[m] \in kept \ {0}
    PROVE  n <= Cardinality(kept)
<1> DEFINE up == Walk(id, held)
           f == [m \in 1..n |-> up[m]]
<1>1. n \in Nat /\ \A m \in 1..n : m \in Steps
  BY MetadataAssumption DEF Steps
<1>2. \A k, m \in 1..n : m < k => up[k] < up[m]
  <2> TAKE k, m \in 1..n
  <2> HAVE m < k
  <2>1. m \in 1..(k - 1) /\ k \in Steps /\ up[k] # 0
    BY <1>1
  <2>2. up[k] \in 0..MaxSnapshots /\ up[m] \in 0..MaxSnapshots /\ up[k] + (k - m) <= up[m]
    BY <1>1, <2>1, WalkDescends
  <2> QED BY <1>1, <2>2, MetadataAssumption
<1>3. \A k \in 1..n : up[k] \in kept /\ up[k] \in Nat
  BY <1>1, WalkDescends, MetadataAssumption
<1> HIDE DEF up
<1>4. f \in [1..n -> kept] /\ \A k, m \in 1..n : k # m => f[k] # f[m]
  <2>1. \A k, m \in 1..n : k # m => (k < m \/ m < k)
    BY <1>1
  <2> QED BY <1>2, <1>3, <2>1
<1>5. f \in Injection(1..n, kept)
  BY <1>4 DEF Injection, IsInjective
<1>6. IsFiniteSet(1..n) /\ Cardinality(1..n) = n
  BY <1>1, FS_Interval
<1> QED BY <1>5, <1>6, FS_Injection
-----------------------------------------------------------------------------
(* The document.                                                           *)

MetadataType ==
    /\ nextId \in 1..(MaxSnapshots + 1)
    /\ snapshots \subseteq 1..(nextId - 1)
    /\ Tree
    /\ time \in [Ids -> Nat]
    /\ current \in 0..MaxSnapshots
    /\ \A n \in DOMAIN refs : refs[n] \in Ref
    /\ now \in Nat
    /\ expired \in Nat \cup {None}

DocumentInv == MetadataType /\ DocumentHolds

\* What a document's ids are.
LEMMA IdsAre ==
    ASSUME DocumentInv
    PROVE  /\ MaxSnapshots \in Nat /\ Ids \subseteq Nat \ {0}
           /\ snapshots \in SUBSET Ids /\ IsFiniteSet(snapshots) /\ 0 \notin snapshots
           /\ current \in snapshots \cup {0}
           /\ \A n \in DOMAIN refs : refs[n].id \in snapshots
<1>1. MaxSnapshots \in Nat /\ Ids \subseteq Nat \ {0}
  BY MetadataAssumption DEF Ids
<1>2. snapshots \in SUBSET Ids /\ 0 \notin snapshots
  BY <1>1 DEF DocumentInv, MetadataType, Ids
<1>3. IsFiniteSet(Ids)
  BY <1>1, FS_Interval DEF Ids
<1> QED BY <1>1, <1>2, <1>3, FS_Subset DEF DocumentInv, DocumentHolds

LEMMA SnapshotsFit ==
    ASSUME DocumentInv
    PROVE  Cardinality(snapshots) <= MaxSnapshots /\ Cardinality(snapshots) \in Nat
<1> DEFINE all == Ids
<1>1. MaxSnapshots \in Nat /\ snapshots \subseteq all
  BY IdsAre
<1>2. IsFiniteSet(all) /\ Cardinality(all) = MaxSnapshots
  BY <1>1, FS_Interval DEF Ids
<1> HIDE DEF all
<1>3. IsFiniteSet(snapshots) /\ Cardinality(snapshots) <= Cardinality(all)
  BY <1>1, <1>2, FS_Subset
<1> QED BY <1>2, <1>3, FS_CardinalityType

LEMMA WithoutIs ==
    ASSUME NEW names
    PROVE  /\ DOMAIN Without(names) = DOMAIN refs \ names
           /\ \A n \in DOMAIN refs \ names : Without(names)[n] = refs[n]
BY DEF Without

LEMMA PlainRefs ==
    ASSUME NEW id \in Ids
    PROVE  /\ Branch(id) \in Ref /\ Branch(id).id = id
           /\ Tag(id) \in Ref /\ Tag(id).id = id
BY DEF Branch, Tag, Ref

LEMMA DocumentInitially == Init => DocumentInv
BY MetadataAssumption DEF Init, DocumentInv, DocumentHolds, MetadataType, Tree, Ids, None

LEMMA CommitKeeps == ASSUME DocumentInv, CommitSnapshot PROVE DocumentInv'
<1>1. /\ MaxSnapshots \in Nat /\ snapshots \in SUBSET Ids /\ current \in snapshots \cup {0}
      /\ 0 \notin snapshots
  BY IdsAre
<1>2. nextId \in Ids /\ snapshots \subseteq 1..(nextId - 1) /\ nextId \in Nat /\ current < nextId
  BY <1>1 DEF CommitSnapshot, DocumentInv, MetadataType, Ids
<1>3. Tree'
  BY <1>1, <1>2 DEF CommitSnapshot, DocumentInv, MetadataType, Tree, Ids
<1>4. time' \in [Ids -> Nat]
  BY <1>2 DEF CommitSnapshot, DocumentInv, MetadataType
<1>5. refs' = With("main", Branch(nextId)) /\ Branch(nextId) \in Ref /\ Branch(nextId).id = nextId
  BY <1>2, PlainRefs DEF CommitSnapshot
<1>6. /\ DOMAIN refs' = DOMAIN refs \cup {"main"} /\ refs'["main"] = Branch(nextId)
      /\ \A n \in DOMAIN refs \ {"main"} : refs'[n] = refs[n]
  <2> DEFINE ref == Branch(nextId)
  <2> HIDE DEF ref
  <2>1. refs' = With("main", ref)
    BY <1>5 DEF ref
  <2> QED BY <2>1 DEF With, ref
<1>7. MetadataType'
  <2>1. nextId' = nextId + 1 /\ snapshots' = snapshots \cup {nextId} /\ current' = nextId
        /\ now' = now /\ expired' = None
    BY DEF CommitSnapshot
  <2>2. nextId' \in 1..(MaxSnapshots + 1) /\ snapshots' \subseteq 1..(nextId' - 1)
        /\ current' \in 0..MaxSnapshots
    BY <1>1, <1>2, <2>1 DEF Ids
  <2>3. \A n \in DOMAIN refs' : refs'[n] \in Ref
    BY <1>5, <1>6 DEF DocumentInv, MetadataType
  <2> QED BY <1>3, <1>4, <2>1, <2>2, <2>3 DEF DocumentInv, MetadataType
<1>8. DocumentHolds'
  BY <1>5, <1>6 DEF CommitSnapshot, DocumentInv, DocumentHolds
<1> QED BY <1>7, <1>8 DEF DocumentInv

\* What a reference operation needs to leave a document's types alone.
LEMMA OnlyRefsTyped ==
    ASSUME DocumentInv, OnlyRefs, current' \in snapshots \cup {0},
           \A n \in DOMAIN refs' : refs'[n] \in Ref
    PROVE  MetadataType'
<1>1. /\ snapshots' = snapshots /\ parent' = parent /\ time' = time /\ now' = now
      /\ nextId' = nextId /\ expired' = None
  BY DEF OnlyRefs
<1>2. current' \in 0..MaxSnapshots
  BY IdsAre DEF Ids
<1>3. Tree'
  BY <1>1 DEF DocumentInv, MetadataType, Tree
<1> QED BY <1>1, <1>2, <1>3 DEF DocumentInv, MetadataType

\* Pointing a name at a retained snapshot keeps main and current one thing.
LEMMA PointKeeps ==
    ASSUME DocumentInv, NEW name, NEW ref \in Ref, ref.id \in snapshots,
           Point(name, ref), OnlyRefs
    PROVE  DocumentInv'
<1>1. /\ DOMAIN refs' = DOMAIN refs \cup {name} /\ refs'[name] = ref
      /\ \A n \in DOMAIN refs \ {name} : refs'[n] = refs[n]
  <2>1. refs' = With(name, ref)
    BY DEF Point
  <2> QED BY <2>1 DEF With
<1>2. current' = current \/ current' = ref.id
  BY DEF Point
<1>3. MetadataType'
  <2>1. \A n \in DOMAIN refs' : refs'[n] \in Ref
    BY <1>1 DEF DocumentInv, MetadataType
  <2>2. current' \in snapshots \cup {0}
    BY <1>2, IdsAre
  <2> QED BY <2>1, <2>2, OnlyRefsTyped
<1>4. DocumentHolds'
  BY <1>1 DEF OnlyRefs, Point, DocumentInv, DocumentHolds
<1> QED BY <1>3, <1>4 DEF DocumentInv

LEMMA RefsKeep ==
    ASSUME DocumentInv, NEW name \in AllNames,
           SetRef(name) \/ CreateRef(name) \/ RemoveRef(name) \/ FastForward(name)
    PROVE  DocumentInv'
<1>1. CASE SetRef(name)
  BY <1>1, PointKeeps DEF SetRef
<1>2. CASE CreateRef(name)
  <2>1. PICK id \in snapshots : \E ref \in {Branch(id), Tag(id)} : Point(name, ref)
    BY <1>2 DEF CreateRef
  <2>2. id \in Ids
    BY <2>1, IdsAre
  <2> QED BY <1>2, <2>1, <2>2, PlainRefs, PointKeeps DEF CreateRef
<1>3. CASE FastForward(name)
  <2>1. PICK id \in snapshots : Point(name, [refs[name] EXCEPT !.id = id])
    BY <1>3 DEF FastForward
  <2>2. id \in Ids /\ refs[name] \in Ref
    BY <1>3, <2>1, IdsAre DEF FastForward, DocumentInv, MetadataType
  <2> DEFINE ref == [refs[name] EXCEPT !.id = id]
  <2>3. ref \in Ref /\ ref.id = id
    BY <2>2 DEF Ref
  <2> HIDE DEF ref
  <2>4. Point(name, ref)
    BY <2>1 DEF ref
  <2> QED BY <1>3, <2>1, <2>3, <2>4, PointKeeps DEF FastForward
<1>4. CASE RemoveRef(name)
  <2>1. /\ DOMAIN refs' = DOMAIN refs \ {name}
        /\ \A n \in DOMAIN refs \ {name} : refs'[n] = refs[n]
    BY <1>4, WithoutIs DEF RemoveRef
  <2>2. MetadataType'
    <3>1. \A n \in DOMAIN refs' : refs'[n] \in Ref
      BY <2>1 DEF DocumentInv, MetadataType
    <3>2. current' \in snapshots \cup {0} /\ OnlyRefs
      BY <1>4, IdsAre DEF RemoveRef
    <3> QED BY <3>1, <3>2, OnlyRefsTyped
  <2>3. DocumentHolds'
    BY <1>4, <2>1 DEF RemoveRef, OnlyRefs, DocumentInv, DocumentHolds
  <2> QED BY <2>2, <2>3 DEF DocumentInv
<1> QED BY <1>1, <1>2, <1>3, <1>4

LEMMA RenameKeeps ==
    ASSUME DocumentInv, NEW from \in Names, NEW to \in AllNames, RenameRef(from, to)
    PROVE  DocumentInv'
<1>1. from \in DOMAIN refs /\ from # "main" /\ to \notin DOMAIN refs
  BY DEF RenameRef
<1>2. /\ DOMAIN refs' = (DOMAIN refs \ {from}) \cup {to} /\ refs'[to] = refs[from]
      /\ \A n \in DOMAIN refs \ {from} : refs'[n] = refs[n]
  BY <1>1 DEF RenameRef
<1>3. refs[from].id \in snapshots /\ refs[from].id \in Ids
  BY <1>1, IdsAre
<1>4. MetadataType'
  BY <1>1, <1>2, <1>3, IdsAre DEF RenameRef, OnlyRefs, DocumentInv, MetadataType, Tree, Ids
<1>5. DocumentHolds'
  BY <1>1, <1>2, <1>3 DEF RenameRef, OnlyRefs, DocumentInv, DocumentHolds
<1> QED BY <1>4, <1>5 DEF DocumentInv

\* An expiry drops nothing that is named, and the name of nothing it keeps.
LEMMA ExpiryKeeps ==
    ASSUME DocumentInv, NEW cutoff \in 0..(MaxTime + 1), Expire(cutoff)
    PROVE  DocumentInv'
<1> DEFINE gone == Outlived(refs, now)
<1>1. cutoff \in Nat
  BY MetadataAssumption
<1>2. CASE Doomed(cutoff) = {}
  <2>1. /\ snapshots' = snapshots /\ refs' = refs /\ logged' = logged /\ expired' = cutoff
        /\ UNCHANGED <<parent, time, current, now, nextId>>
    BY <1>2 DEF Expire
  <2>2. MetadataType'
    BY <1>1, <2>1 DEF DocumentInv, MetadataType, Tree
  <2>3. DocumentHolds'
    BY <2>1 DEF DocumentInv, DocumentHolds
  <2> QED BY <2>2, <2>3 DEF DocumentInv
<1>3. CASE Doomed(cutoff) # {}
  <2>1. /\ snapshots' = snapshots \ Doomed(cutoff) /\ logged' = logged \ Doomed(cutoff)
        /\ refs' = Without(gone) /\ current' = current
    BY <1>3 DEF Expire
  <2>2. /\ DOMAIN refs' = DOMAIN refs \ gone /\ "main" \notin gone
        /\ \A n \in DOMAIN refs \ gone : refs'[n] = refs[n]
    BY <2>1, WithoutIs DEF Outlived
  <2>3. \A n \in DOMAIN refs' : refs'[n].id \in Retained(cutoff)
    BY <2>1 DEF Retained
  <2>4. \A n \in DOMAIN refs' : refs'[n].id \in snapshots'
    BY <2>1, <2>2, <2>3, IdsAre DEF Doomed
  <2>5. MetadataType'
    BY <1>1, <2>1, <2>2 DEF Expire, DocumentInv, MetadataType, Tree, Ids
  <2>6. DocumentHolds'
    BY <2>1, <2>2, <2>4 DEF DocumentInv, DocumentHolds
  <2> QED BY <2>5, <2>6 DEF DocumentInv
<1> QED BY <1>2, <1>3

LEMMA DocumentStays == DocumentInv /\ [Next]_vars => DocumentInv'
<1> SUFFICES ASSUME DocumentInv, [Next]_vars PROVE DocumentInv'
  OBVIOUS
<1>1. CASE UNCHANGED vars
  BY <1>1 DEF vars, document, DocumentInv, DocumentHolds, MetadataType, Tree, Ids
<1>2. CASE Tick
  BY <1>2 DEF Tick, document, DocumentInv, DocumentHolds, MetadataType, Tree, Ids
<1>3. ASSUME NEW id \in Ids, RemoveSnapshot(id) PROVE DocumentInv'
  BY <1>3 DEF RemoveSnapshot, DocumentInv, DocumentHolds, MetadataType, Tree, Ids
<1> QED BY <1>1, <1>2, <1>3, CommitKeeps, RefsKeep, RenameKeeps, ExpiryKeeps DEF Next

\* Every name and log entry of a document resolves, and main and the current
\* snapshot are one thing, after any commits, reference operations, expiries.
THEOREM DocumentsHold == Spec => []DocumentHolds
<1>1. DocumentInv => DocumentHolds
  BY DEF DocumentInv
<1> QED BY <1>1, DocumentInitially, DocumentStays, PTL DEF Spec
-----------------------------------------------------------------------------
(* Fast-forwarding.                                                        *)

\* What the head's walk reaches, the target's reaches too: the target's walk
\* meets the head and goes on from there, and has the steps for it.
LEMMA FastForwardReaches ==
    ASSUME DocumentInv, NEW name \in AllNames, FastForward(name)
    PROVE  Reached(refs[name].id, snapshots) \subseteq Reached(refs'[name].id, snapshots)
<1> DEFINE from == refs[name].id
<1>1. PICK id \in snapshots :
        DescendsFrom(id, from) /\ Point(name, [refs[name] EXCEPT !.id = id])
  BY DEF FastForward
<1>2. PICK n \in 1..Cardinality(snapshots) : Walk(id, snapshots)[n] = from
  BY <1>1 DEF DescendsFrom
<1>3. /\ MaxSnapshots \in Nat /\ Ids \subseteq Nat \ {0} /\ Ids = 1..MaxSnapshots
      /\ snapshots \in SUBSET Ids /\ IsFiniteSet(snapshots) /\ 0 \notin snapshots
      /\ id \in 0..MaxSnapshots /\ from \in snapshots /\ from \in 0..MaxSnapshots
  BY <1>1, IdsAre DEF FastForward, Ids
<1>4. Cardinality(snapshots) <= MaxSnapshots /\ Cardinality(snapshots) \in Nat
  BY SnapshotsFit
<1>5. n \in Steps /\ n \in Nat
  BY <1>2, <1>3, <1>4 DEF Steps
<1>6. refs'[name].id = id
  <2> DEFINE ref == [refs[name] EXCEPT !.id = id]
  <2>1. ref.id = id
    BY <1>1 DEF FastForward, DocumentInv, MetadataType, Ref
  <2> HIDE DEF ref
  <2>2. refs' = With(name, ref)
    BY <1>1 DEF Point, ref
  <2> QED BY <2>1, <2>2 DEF With
<1> HIDE DEF from
<1> DEFINE on == Walk(from, snapshots)
           up == Walk(id, snapshots)
<1>7. Tree
  BY DEF DocumentInv, MetadataType
<1>8. \A k \in Steps : up[k] # 0 => \A m \in 1..(k - 1) : up[k] + (k - m) <= up[m]
  BY <1>3, <1>7, WalkDescends
<1>9. \A k \in Steps : on[k] # 0 => \A m \in 1..(k - 1) : on[k] + (k - m) <= on[m]
  BY <1>3, <1>7, WalkDescends
<1>10. up[1] = id /\ on[1] = from
  BY WalkIs
<1>11. \A m \in Steps : n + m - 1 \in Steps => on[m] = up[n + m - 1]
  <2>1. \A m \in Steps : n + m - 1 \in Steps =>
          Walk(Walk(id, snapshots)[n], snapshots)[m] = Walk(id, snapshots)[n + m - 1]
    BY <1>5, WalkGoesOn
  <2> QED BY <1>2, <2>1
<1>12. up[n] = from
  BY <1>2
<1> HIDE DEF up, on
<1>13. id \in Nat /\ from \in Nat /\ from # 0 /\ id <= MaxSnapshots
  BY <1>3
<1>14. from + (n - 1) <= id
  <2>1. CASE n = 1
    BY <1>10, <1>12, <1>13, <2>1
  <2>2. CASE n # 1
    <3>1. 1 \in 1..(n - 1)
      BY <1>5, <2>2 DEF Steps
    <3>2. up[n] + (n - 1) <= up[1]
      BY <1>5, <1>8, <1>12, <1>13, <3>1
    <3> QED BY <1>10, <1>12, <3>2
  <2> QED BY <2>1, <2>2
<1>15. ASSUME NEW m \in Steps, on[m] \in snapshots
       PROVE  \E k \in Steps : up[k] = on[m]
  <2>1. m \in Nat /\ m >= 1 /\ on[m] # 0 /\ on[m] \in Nat
    <3>1. on[m] \in Ids
      BY <1>3, <1>15
    <3> QED BY <1>3, <3>1 DEF Steps
  <2>2. on[m] + (m - 1) <= from
    <3>1. CASE m = 1
      BY <1>10, <1>13, <3>1
    <3>2. CASE m # 1
      <4>1. 1 \in 1..(m - 1)
        BY <2>1, <3>2
      <4>2. on[m] + (m - 1) <= on[1]
        BY <1>9, <1>15, <2>1, <4>1
      <4> QED BY <1>10, <4>2
    <3> QED BY <3>1, <3>2
  <2>3. n + m - 1 \in Steps
    BY <1>3, <1>5, <1>13, <1>14, <2>1, <2>2 DEF Steps
  <2> QED BY <1>11, <1>15, <2>3
<1> QED BY <1>6, <1>15 DEF Reached, Steps, from, up, on

\* Fast-forwarding is the one branch move that cannot lose history: whatever a
\* branch reached before, it reaches afterwards.
THEOREM FastForwardsKeepHistory == Spec => FastForwardKeepsHistory
<1>1. DocumentInv /\ [Next]_vars =>
        [\A name \in AllNames : FastForward(name) =>
            Reached(refs[name].id, snapshots) \subseteq Reached(refs'[name].id, snapshots)]_vars
  BY FastForwardReaches
<1> QED BY <1>1, DocumentInitially, DocumentStays, PTL DEF Spec, FastForwardKeepsHistory
-----------------------------------------------------------------------------
(* Expiry.                                                                 *)

Oldest(ref, cutoff) == IF ref.age = None THEN cutoff ELSE now - ref.age
Fewest(ref) == IF ref.keep = None THEN 1 ELSE ref.keep

\* A walk that meets a retained snapshot passed only retained ones, no more
\* than there are.
LEMMA WalkPasses ==
    ASSUME DocumentInv, NEW id \in snapshots, NEW k \in Steps, Walk(id, snapshots)[k] \in snapshots
    PROVE  k <= Cardinality(snapshots) /\ \A m \in 1..k : Walk(id, snapshots)[m] \in snapshots
<1>1. /\ MaxSnapshots \in Nat /\ snapshots \in SUBSET Ids /\ IsFiniteSet(snapshots)
      /\ 0 \notin snapshots /\ id \in 0..MaxSnapshots /\ Tree
  BY IdsAre DEF Ids, DocumentInv, MetadataType
<1>2. \A m \in 1..(k - 1) : Walk(id, snapshots)[m] \in snapshots
  BY <1>1, WalkDescends
<1>3. \A m \in 1..k : m \in 1..(k - 1) \/ m = k
  BY <1>1 DEF Steps
<1>4. \A m \in 1..k : Walk(id, snapshots)[m] \in snapshots \ {0}
  BY <1>1, <1>2, <1>3
<1> QED BY <1>1, <1>4, WalkCounts

\* When no clock was behind its parent's, times only fall along a walk.
LEMMA WalkGetsOlder ==
    ASSUME DocumentInv, ClocksAgree, NEW id \in snapshots
    PROVE  \A n \in Steps : Walk(id, snapshots)[n] \in snapshots =>
              \A m \in 1..n : time[Walk(id, snapshots)[n]] <= time[Walk(id, snapshots)[m]]
<1> DEFINE up == Walk(id, snapshots)
           P(n) == up[n] \in snapshots => \A m \in 1..n : time[up[n]] <= time[up[m]]
           T == {n \in Nat : n + 1 \in Steps => P(n + 1)}
<1>1. \A n \in Steps : n # 1 => up[n] = IF up[n - 1] \in snapshots THEN parent[up[n - 1]] ELSE 0
  BY WalkIs
<1>2. MaxSnapshots \in Nat /\ 0 \notin snapshots /\ \A i \in snapshots : time[i] \in Nat
  BY IdsAre DEF DocumentInv, MetadataType
<1>3. \A i \in snapshots : parent[i] # 0 => time[parent[i]] <= time[i]
  BY DEF ClocksAgree, DocumentInv, MetadataType
<1>4. \A n \in Steps : up[n] \in snapshots => \A m \in 1..n : up[m] \in snapshots
  BY WalkPasses
<1> HIDE DEF up
<1>5. 0 \in T
  <2>1. P(1)
    BY <1>2
  <2> QED BY <2>1
<1>6. ASSUME NEW n \in T PROVE n + 1 \in T
  <2> SUFFICES ASSUME n + 2 \in Steps, up[n + 2] \in snapshots, NEW m \in 1..(n + 2)
               PROVE  time[up[n + 2]] <= time[up[m]]
    <3>1. n \in Nat
      OBVIOUS
    <3>2. (n + 1) + 1 = n + 2
      BY <3>1
    <3>3. P(n + 2) => n + 1 \in T
      BY <3>1, <3>2
    <3> QED BY <3>3
  <2>1. n \in Nat /\ n + 1 \in Steps /\ n + 1 \in 1..(n + 2)
    BY <1>2 DEF Steps
  <2>2. up[n + 1] \in snapshots /\ up[m] \in snapshots
    BY <1>4, <2>1
  <2>3. P(n + 1)
    BY <2>1
  <2>4. n + 2 # 1 /\ (n + 2) - 1 = n + 1
    BY <2>1
  <2>5. up[n + 2] = parent[up[n + 1]]
    BY <1>1, <2>2, <2>4
  <2>6. time[up[n + 2]] <= time[up[n + 1]]
    BY <1>2, <1>3, <2>2, <2>5
  <2>7. CASE m = n + 2
    BY <1>2, <2>7
  <2>8. CASE m # n + 2
    <3>1. m \in 1..(n + 1)
      BY <2>1, <2>8
    <3>2. time[up[n + 1]] <= time[up[m]]
      BY <2>2, <2>3, <3>1
    <3>3. time[up[n + 2]] \in Nat /\ time[up[n + 1]] \in Nat /\ time[up[m]] \in Nat
      BY <1>2, <2>2
    <3> QED BY <2>6, <3>2, <3>3
  <2> QED BY <2>7, <2>8
<1>7. T = Nat
  <2> HIDE DEF T
  <2>1. T \subseteq Nat
    BY DEF T
  <2> QED BY <1>5, <1>6, <2>1, Inductive
<1>8. ASSUME NEW n \in Steps PROVE P(n)
  <2>1. n - 1 \in Nat /\ (n - 1) + 1 = n
    BY <1>2 DEF Steps
  <2>2. n - 1 \in T
    BY <1>7, <2>1
  <2> HIDE DEF P
  <2> QED BY <2>1, <2>2
<1> QED BY <1>8 DEF up
\* What an expiry keeps of the snapshots: those it retains.
LEMMA ExpiryLeaves ==
    ASSUME DocumentInv, NEW CONSTANT cutoff, Expire(cutoff)
    PROVE  /\ snapshots' = snapshots \cap Retained(cutoff)
           /\ UNCHANGED <<parent, time, current, now, nextId>> /\ expired' = cutoff
<1>1. CASE Doomed(cutoff) = {}
  BY <1>1 DEF Expire, Doomed
<1>2. CASE Doomed(cutoff) # {}
  BY <1>2 DEF Expire, Doomed
<1> QED BY <1>1, <1>2

\* The references alive stay, and no other anchors a snapshot the next time.
LEMMA ExpiryLeavesLive ==
    ASSUME DocumentInv, NEW CONSTANT cutoff, Expire(cutoff)
    PROVE  Without(Outlived(refs, now))' = Without(Outlived(refs, now))
<1> DEFINE live == Without(Outlived(refs, now))
<1>1. time' = time /\ now' = now
  BY DEF Expire
<1>2. CASE Doomed(cutoff) = {}
  <2>1. refs' = refs
    BY <1>2 DEF Expire
  <2> QED BY <1>1, <2>1, Zenon DEF Without, Outlived
<1>3. CASE Doomed(cutoff) # {}
  <2>1. refs' = live
    BY <1>3 DEF Expire
  <2>2. DOMAIN live = DOMAIN refs \ Outlived(refs, now)
        /\ \A n \in DOMAIN live : live[n] = refs[n]
    BY WithoutIs
  <2>3. live = [n \in DOMAIN live |-> live[n]]
    BY DEF Without
  <2> HIDE DEF live
  <2>4. Outlived(refs, now)' = {}
    BY <1>1, <2>1, <2>2 DEF Outlived
  <2>5. Without(Outlived(refs, now))' = [n \in DOMAIN live \ {} |-> live[n]]
    BY <2>1, <2>4 DEF Without
  <2>6. DOMAIN live \ {} = DOMAIN live
    OBVIOUS
  <2> QED BY <2>3, <2>5, <2>6 DEF live
<1> QED BY <1>2, <1>3

\* What an expiry retains of a live branch: what its walk meets within the
\* branch's number of snapshots, and what is not old.
LEMMA BranchRetains ==
    ASSUME DocumentInv, NEW cutoff, NEW n \in DOMAIN refs \ Outlived(refs, now),
           NEW k \in Steps, Walk(refs[n].id, snapshots)[k] \in snapshots,
           k = 1 \/ /\ refs[n].kind = "branch"
                    /\ \/ k <= Fewest(refs[n])
                       \/ time[Walk(refs[n].id, snapshots)[k]] >= Oldest(refs[n], cutoff)
    PROVE  Walk(refs[n].id, snapshots)[k] \in Retained(cutoff)
<1> DEFINE live == Without(Outlived(refs, now))
           ref == refs[n]
           up == Walk(ref.id, snapshots)
<1>1. n \in DOMAIN live /\ live[n] = ref
  BY WithoutIs
<1>2. ref.id \in snapshots
  BY IdsAre
<1>3. CASE k = 1
  <2>1. up[k] = ref.id
    BY <1>3, WalkIs
  <2> QED BY <1>1, <2>1 DEF Retained
<1>4. CASE k # 1 /\ ref.kind = "branch"
                 /\ (k <= Fewest(ref) \/ time[up[k]] >= Oldest(ref, cutoff))
  <2>1. k \in 2..Cardinality(snapshots)
    <3>1. k <= Cardinality(snapshots)
      BY <1>2, WalkPasses
    <3> QED BY <1>4, <3>1, SnapshotsFit, MetadataAssumption DEF Steps
  <2>2. up[k] \in BranchKeeps(ref, cutoff, now)
    BY <1>4, <2>1 DEF BranchKeeps, Fewest, Oldest
  <2> HIDE DEF ref, live, up
  <2>3. n \in {m \in DOMAIN live : live[m].kind = "branch"}
    BY <1>1, <1>4
  <2>4. up[k] \in BranchKeeps(live[n], cutoff, now)
    BY <1>1, <2>2
  <2>5. up[k] \in UNION {BranchKeeps(live[m], cutoff, now) :
                            m \in {m \in DOMAIN live : live[m].kind = "branch"}}
    BY <2>3, <2>4
  <2> QED BY <2>5 DEF Retained, live, up, ref
<1> QED BY <1>3, <1>4
\* The walk of a live branch, up to what an expiry retained of it, is the walk
\* in the document the expiry left: nothing in between went.
LEMMA WalkSurvives ==
    ASSUME DocumentInv, ClocksAgree, NEW CONSTANT cutoff, cutoff \in Nat, Expire(cutoff),
           NEW n \in DOMAIN refs \ Outlived(refs, now), refs[n].kind = "branch",
           NEW k \in Steps, Walk(refs[n].id, snapshots)[k] \in snapshots,
           \/ k <= Fewest(refs[n])
           \/ time[Walk(refs[n].id, snapshots)[k]] >= Oldest(refs[n], cutoff)
    PROVE  /\ Walk(refs[n].id, snapshots')[k] = Walk(refs[n].id, snapshots)[k]
           /\ k <= Cardinality(snapshots')
<1> DEFINE ref == refs[n]
           up == Walk(ref.id, snapshots)
<1>1. /\ MaxSnapshots \in Nat /\ snapshots \in SUBSET Ids /\ IsFiniteSet(snapshots) /\ 0 \notin snapshots
      /\ ref.id \in snapshots /\ ref.id \in 0..MaxSnapshots /\ Tree
      /\ \A i \in snapshots : time[i] \in Nat
  <2>1. MaxSnapshots \in Nat /\ snapshots \in SUBSET Ids /\ IsFiniteSet(snapshots) /\ 0 \notin snapshots
    BY IdsAre
  <2>2. ref.id \in snapshots
    BY IdsAre
  <2>3. Tree /\ time \in [Ids -> Nat]
    BY DEF DocumentInv, MetadataType
  <2> HIDE DEF ref
  <2>4. ref.id \in Ids
    BY <2>1, <2>2
  <2>5. ref.id \in 0..MaxSnapshots
    BY <2>1, <2>4 DEF Ids
  <2> QED BY <2>1, <2>2, <2>3, <2>5
<1>2. snapshots' = snapshots \cap Retained(cutoff)
  BY ExpiryLeaves
<1>3. \A m \in 1..k : m \in Steps /\ up[m] \in snapshots /\ time[up[k]] <= time[up[m]]
  <2>1. \A m \in 1..k : m \in Steps
    BY <1>1 DEF Steps
  <2> QED BY <1>1, <2>1, WalkPasses, WalkGetsOlder
<1>4. ref \in Ref /\ now \in Nat /\ k \in Nat /\ Fewest(ref) \in Nat /\ Oldest(ref, cutoff) \in Int
  <2>1. ref \in Ref /\ now \in Nat /\ k \in Nat
    BY <1>1 DEF DocumentInv, MetadataType, Steps
  <2>2. ref.keep \in Nat \cup {None} /\ ref.age \in Nat \cup {None}
    BY <2>1, MetadataAssumption DEF Ref
  <2> QED BY <2>1, <2>2 DEF Fewest, Oldest
<1>5. ASSUME NEW m \in 1..k PROVE up[m] \in snapshots'
  <2>1. CASE k <= Fewest(ref)
    <3>1. m <= Fewest(ref)
      BY <1>4, <2>1
    <3>2. up[m] \in Retained(cutoff)
      BY <1>3, <3>1, BranchRetains
    <3> QED BY <1>2, <1>3, <3>2
  <2>2. CASE time[up[k]] >= Oldest(ref, cutoff)
    <3>1. time[up[m]] \in Nat /\ time[up[k]] \in Nat /\ time[up[k]] <= time[up[m]]
      BY <1>1, <1>3
    <3>2. time[up[m]] >= Oldest(ref, cutoff)
      BY <1>4, <2>2, <3>1
    <3>3. up[m] \in Retained(cutoff)
      BY <1>3, <3>2, BranchRetains
    <3> QED BY <1>2, <1>3, <3>3
  <2> QED BY <2>1, <2>2
<1>6. PICK held : held = snapshots'
  OBVIOUS
<1>7. IsFiniteSet(held) /\ 0 \notin held
  BY <1>1, <1>2, <1>6, FS_Subset
<1>8. \A m \in 1..k : up[m] \in held \ {0} /\ up[m] \in snapshots
  BY <1>3, <1>5, <1>6, <1>7
<1>9. k <= Cardinality(held)
  BY <1>1, <1>7, <1>8, WalkCounts
<1>10. \A m \in 1..(k - 1) : up[m] \in snapshots /\ up[m] \in held
  <2>1. \A m \in 1..(k - 1) : m \in 1..k
    BY <1>4
  <2> QED BY <1>8, <2>1
<1>11. k \in 1..k
  BY <1>4 DEF Steps
<1>12. Walk(ref.id, held)[k] = up[k]
  BY <1>10, <1>11, WalkAgrees
<1> QED BY <1>6, <1>9, <1>12

\* What an expiry left, the same expiry would retain.
LEMMA ExpiryCompletes ==
    ASSUME DocumentInv, ClocksAgree, NEW CONSTANT cutoff, cutoff \in Nat, Expire(cutoff)
    PROVE  Doomed(expired)' = {}
<1> DEFINE live == Without(Outlived(refs, now))
<1>1. /\ snapshots' = snapshots \cap Retained(cutoff)
      /\ time' = time /\ current' = current /\ now' = now /\ parent' = parent /\ expired' = cutoff
  BY ExpiryLeaves
<1>2. live' = live
  BY ExpiryLeavesLive
<1>3. DOMAIN live = DOMAIN refs \ Outlived(refs, now) /\ \A n \in DOMAIN live : live[n] = refs[n]
  BY WithoutIs
<1>4. MaxSnapshots \in Nat /\ Cardinality(snapshots) <= MaxSnapshots /\ Cardinality(snapshots) \in Nat
  BY SnapshotsFit, MetadataAssumption
<1> SUFFICES ASSUME NEW CONSTANT x, x \in snapshots' PROVE x \in Retained(expired)'
  BY DEF Doomed
<1>5. x \in snapshots /\ x \in Retained(cutoff)
  BY <1>1
<1>6. CASE x \in {current} \ {0}
  BY <1>1, <1>6 DEF Retained
<1>7. CASE x \in {live[n].id : n \in DOMAIN live}
  <2>1. x \in {live[n].id : n \in DOMAIN live}'
    BY <1>2, <1>7
  <2> QED BY <2>1 DEF Retained
<1>8. CASE \E n \in DOMAIN live : live[n].kind = "branch" /\ x \in BranchKeeps(live[n], cutoff, now)
  <2>1. PICK n \in DOMAIN live : live[n].kind = "branch" /\ x \in BranchKeeps(live[n], cutoff, now)
    BY <1>8
  <2>2. n \in DOMAIN refs \ Outlived(refs, now) /\ refs[n].kind = "branch" /\ live[n] = refs[n]
    BY <1>3, <2>1
  <2> HIDE DEF live
  <2> DEFINE up == Walk(refs[n].id, snapshots)
  <2>3. PICK k \in 2..Cardinality(snapshots) :
          /\ x = up[k] /\ up[k] \in snapshots
          /\ k <= Fewest(refs[n]) \/ time[up[k]] >= Oldest(refs[n], cutoff)
    BY <2>1, <2>2 DEF BranchKeeps, Fewest, Oldest
  <2>4. k \in Steps
    BY <1>4, <2>3 DEF Steps
  <2>5. Walk(refs[n].id, snapshots')[k] = up[k] /\ k <= Cardinality(snapshots')
    BY <2>2, <2>3, <2>4, WalkSurvives
  <2> HIDE DEF up
  <2>6. PICK ref : ref = refs[n]
    OBVIOUS
  <2>7. Walk(ref.id, snapshots)' = Walk(ref.id, snapshots')
    BY <1>1 DEF Walk
  <2>8. Cardinality(snapshots') \in Nat
    <3>1. IsFiniteSet(snapshots)
      BY IdsAre
    <3>2. IsFiniteSet(snapshots')
      BY <1>1, <3>1, FS_Subset
    <3> QED BY <3>2, FS_CardinalityType
  <2>9. k \in 2..Cardinality(snapshots')
    BY <2>3, <2>5, <2>8
  <2>10. x \in BranchKeeps(ref, expired, now)'
    BY <1>1, <2>3, <2>5, <2>6, <2>7, <2>9 DEF BranchKeeps, Fewest, Oldest
  <2>11. n \in DOMAIN live' /\ live'[n] = ref /\ live'[n].kind = "branch"
    BY <1>2, <2>1, <2>2, <2>6
  <2>12. (x \in UNION {BranchKeeps(live[m], expired, now) :
                         m \in {m \in DOMAIN live : live[m].kind = "branch"}})'
    BY <2>10, <2>11
  <2> QED BY <2>12 DEF Retained, live
<1>9. \/ x \in {current} \ {0}
      \/ x \in {live[n].id : n \in DOMAIN live}
      \/ \E n \in DOMAIN live : live[n].kind = "branch" /\ x \in BranchKeeps(live[n], cutoff, now)
  BY <1>5 DEF Retained
<1> QED BY <1>6, <1>7, <1>8, <1>9
\* Every other step forgets the expiry before it.
LEMMA OthersForget ==
    ASSUME Next PROVE expired' = None \/ \E cutoff \in 0..(MaxTime + 1) : Expire(cutoff)
<1>1. CASE CommitSnapshot \/ Tick \/ \E id \in Ids : RemoveSnapshot(id)
  BY <1>1 DEF CommitSnapshot, Tick, RemoveSnapshot
<1>2. CASE \E name \in AllNames :
             SetRef(name) \/ CreateRef(name) \/ RemoveRef(name) \/ FastForward(name)
  BY <1>2 DEF SetRef, CreateRef, RemoveRef, FastForward, OnlyRefs
<1>3. CASE \E from \in Names, to \in AllNames : RenameRef(from, to)
  BY <1>3 DEF RenameRef, OnlyRefs
<1> QED BY <1>1, <1>2, <1>3 DEF Next

\* Expiring twice drops no more than expiring once, when no snapshot was
\* committed by a clock behind its parent's (Table::expire_snapshots).
THEOREM ExpiriesAreComplete == Spec => []ExpiryIsComplete
<1>1. Init => ExpiryIsComplete
  BY DEF Init, ExpiryIsComplete
<1>2. DocumentInv /\ ExpiryIsComplete /\ [Next]_vars => ExpiryIsComplete'
  <2> SUFFICES ASSUME DocumentInv, ExpiryIsComplete, [Next]_vars PROVE ExpiryIsComplete'
    OBVIOUS
  <2>1. CASE UNCHANGED vars
    <3>1. /\ snapshots' = snapshots /\ parent' = parent /\ time' = time /\ current' = current
          /\ refs' = refs /\ now' = now /\ nextId' = nextId /\ expired' = expired
      BY <2>1 DEF vars, document
    <3>2. ClocksAgree' <=> ClocksAgree
      BY <3>1 DEF ClocksAgree
    <3>3. Doomed(expired)' = Doomed(expired)
      BY <2>1 DEF vars, document, Doomed, Retained, BranchKeeps, Walk, Without, Outlived
    <3> QED BY <3>1, <3>2, <3>3 DEF ExpiryIsComplete
  <2>2. CASE expired' = None
    BY <2>2 DEF ExpiryIsComplete
  <2>3. ASSUME NEW CONSTANT cutoff \in 0..(MaxTime + 1), Expire(cutoff) PROVE ExpiryIsComplete'
    <3>1. cutoff \in Nat
      BY MetadataAssumption
    <3>2. ClocksAgree' => ClocksAgree
      BY <2>3 DEF Expire, ClocksAgree
    <3> QED BY <2>3, <3>1, <3>2, ExpiryCompletes DEF ExpiryIsComplete
  <2> QED BY <2>1, <2>2, <2>3, OthersForget
<1> QED BY <1>1, <1>2, DocumentInitially, DocumentStays, PTL DEF Spec

\* What an expiry owes one reference it found alive.
LEMMA ExpirySpares ==
    ASSUME DocumentInv, NEW CONSTANT cutoff, cutoff \in Nat, Expire(cutoff),
           NEW n \in DOMAIN refs \ Outlived(refs, now)
    PROVE  /\ refs[n].id \in snapshots'
           /\ refs[n].kind = "branch" =>
                /\ \A id \in Reached(refs[n].id, snapshots) :
                      time[id] >= Oldest(refs[n], cutoff) => id \in snapshots'
                /\ refs[n].keep # None =>
                      LET had == Reached(refs[n].id, snapshots)
                          has == had \cap snapshots'
                      IN Cardinality(has) >= refs[n].keep \/ has = had
<1> DEFINE ref == refs[n]
           up == Walk(ref.id, snapshots)
           had == Reached(ref.id, snapshots)
           has == had \cap snapshots'
<1>1. snapshots' = snapshots \cap Retained(cutoff)
  BY ExpiryLeaves
<1>2. had = {up[k] : k \in Steps} \cap snapshots
  BY DEF Reached, Steps
<1>3. /\ MaxSnapshots \in Nat /\ snapshots \in SUBSET Ids /\ IsFiniteSet(snapshots) /\ 0 \notin snapshots
      /\ Cardinality(snapshots) \in Nat /\ Cardinality(snapshots) <= MaxSnapshots
      /\ ref.id \in snapshots
  BY IdsAre, SnapshotsFit
<1>4. Tree /\ ref \in Ref
  BY DEF DocumentInv, MetadataType
<1>5. ref.id \in 0..MaxSnapshots
  <2> HIDE DEF ref
  <2>1. ref.id \in Ids
    BY <1>3
  <2> QED BY <1>3, <2>1 DEF Ids
<1>6. \A k \in Steps : up[k] \in snapshots /\ (k = 1 \/ /\ ref.kind = "branch"
                                                        /\ \/ k <= Fewest(ref)
                                                           \/ time[up[k]] >= Oldest(ref, cutoff))
                         => up[k] \in snapshots'
  BY <1>1, BranchRetains
<1>7. ref.id \in snapshots'
  <2>1. 1 \in Steps /\ up[1] = ref.id
    BY <1>3, WalkIs DEF Steps
  <2> QED BY <1>3, <1>6, <2>1
<1>8. ASSUME ref.kind = "branch", NEW id \in had, time[id] >= Oldest(ref, cutoff)
      PROVE  id \in snapshots'
  <2>1. PICK k \in Steps : id = up[k] /\ up[k] \in snapshots
    BY <1>2
  <2> HIDE DEF up
  <2> QED BY <1>6, <1>8, <2>1
<1>9. ASSUME ref.kind = "branch", ref.keep # None
      PROVE  Cardinality(has) >= ref.keep \/ has = had
  <2>1. ref.keep \in Nat /\ ref.keep >= 1 /\ Fewest(ref) = ref.keep
    <3> HIDE DEF ref
    <3>1. ref.keep \in Keeps
      BY <1>4, <1>9 DEF Ref
    <3>2. ref.keep \in Nat \ {0}
      BY <3>1, MetadataAssumption
    <3>3. Fewest(ref) = ref.keep
      BY <1>9 DEF Fewest
    <3> HIDE DEF up, had, has
    <3> QED BY <3>2, <3>3
  <2>2. \A k \in Steps : up[k] \in snapshots /\ k <= ref.keep => up[k] \in has
    <3> HIDE DEF ref, up, had
    <3> QED BY <1>2, <1>6, <1>9, <2>1
  <2>3. CASE \E k \in Steps : k <= ref.keep /\ up[k] \notin snapshots
    <3>1. PICK k \in Steps : k <= ref.keep /\ up[k] \notin snapshots
      BY <2>3
    <3>2. ASSUME NEW m \in Steps, up[m] \in snapshots PROVE m <= ref.keep
      <4>1. k \notin 1..m
        BY <1>3, <3>1, <3>2, WalkPasses
      <4> QED BY <2>1, <3>1, <4>1 DEF Steps
    <3> HIDE DEF ref, up, had
    <3>3. had \subseteq has
      BY <1>2, <2>2, <3>2
    <3> QED BY <3>3
  <2>4. CASE \A k \in Steps : k <= ref.keep => up[k] \in snapshots
    <3>1. ref.keep <= MaxSnapshots
      <4> SUFFICES ASSUME ~(ref.keep <= MaxSnapshots) PROVE FALSE
        OBVIOUS
      <4>1. MaxSnapshots + 1 \in Steps /\ MaxSnapshots + 1 <= ref.keep
        BY <1>3, <2>1 DEF Steps
      <4>2. MaxSnapshots + 1 <= Cardinality(snapshots)
        BY <1>3, <2>4, <4>1, WalkPasses
      <4> QED BY <1>3, <4>2
    <3>2. ref.keep \in Steps
      BY <1>3, <2>1, <3>1 DEF Steps
    <3>3. \A k \in 1..ref.keep : k \in Steps /\ k <= ref.keep
      BY <1>3, <2>1, <3>1 DEF Steps
    <3>4. PICK kept : kept = has
      OBVIOUS
    <3>5. IsFiniteSet(kept) /\ 0 \notin kept
      <4>1. has \subseteq snapshots
        BY <1>2
      <4> HIDE DEF has
      <4> QED BY <1>3, <3>4, <4>1, FS_Subset
    <3>6. \A k \in 1..ref.keep : up[k] \in kept \ {0}
      <4> HIDE DEF ref, up, had, has
      <4> QED BY <2>2, <2>4, <3>3, <3>4, <3>5
    <3>7. ref.keep <= Cardinality(kept)
      BY <1>3, <1>4, <1>5, <3>2, <3>5, <3>6, WalkCounts
    <3>8. Cardinality(kept) \in Nat
      BY <3>5, FS_CardinalityType
    <3> QED BY <2>1, <3>4, <3>7, <3>8
  <2> QED BY <2>3, <2>4
<1> QED BY <1>7, <1>8, <1>9

\* What survives an expiry is what the retention rules name, of each branch and
\* tag the expiry found alive (expire_snapshots_older_than).
THEOREM ExpiriesKeepWhatRefsName == Spec => ExpiryKeepsWhatRefsName
<1> DEFINE Spares ==
      expired' # None =>
         \A n \in DOMAIN refs \ Outlived(refs, now) :
            LET ref == refs[n]
                had == Reached(ref.id, snapshots)
                has == had \cap snapshots'
                oldest == IF ref.age = None THEN expired' ELSE now - ref.age
            IN /\ ref.id \in snapshots'
               /\ ref.kind = "branch" =>
                    /\ \A id \in had : time[id] >= oldest => id \in snapshots'
                    /\ ref.keep # None => Cardinality(has) >= ref.keep \/ has = had
<1>1. DocumentInv /\ Next => Spares
  <2> SUFFICES ASSUME DocumentInv, Next, expired' # None PROVE Spares
    OBVIOUS
  <2>1. PICK cutoff \in 0..(MaxTime + 1) : Expire(cutoff)
    BY OthersForget
  <2>2. cutoff \in Nat /\ expired' = cutoff
    BY <2>1, MetadataAssumption DEF Expire
  <2> QED BY <2>1, <2>2, ExpirySpares DEF Oldest
<1>2. DocumentInv /\ [Next]_vars => [Spares]_vars
  BY <1>1
<1> QED BY <1>2, DocumentInitially, DocumentStays, PTL DEF Spec, ExpiryKeepsWhatRefsName

=============================================================================
