-------------------------- MODULE FormatProbeProofs --------------------------
(***************************************************************************)
(* Proofs about FormatProbe for any number of definitions, any image, any  *)
(* size of batches and any budget: the report is true, tiers come in       *)
(* order, nothing is left behind, and the selection is the one the image   *)
(* asks for.                                                               *)
(***************************************************************************)
EXTENDS FormatProbe, FiniteSetTheorems, NaturalsInduction, TLAPS

(***************************************************************************)
(* Arithmetic of the scores.                                               *)
(***************************************************************************)

\* A clamped number is within its limits.
LEMMA ClampRange ==
  ASSUME NEW x \in Int, NEW low \in Int, NEW high \in Int, low <= high
  PROVE  Clamp(x, low, high) \in low..high
  BY DEF Clamp

\* A set of numbers that is not empty has a least member.
LEMMA SmallestNat ==
  ASSUME NEW S, S \subseteq Nat, S # {}
  PROVE  Smallest(S) \in S /\ \A m \in S : Smallest(S) <= m
<1> DEFINE less == {p \in Nat \X Nat : p[1] < p[2]}
<1>1. IsWellFoundedOn(less, Nat)
  BY NatLessThanWellFounded DEF OpToRel
<1>2. PICK n \in S : \A m \in S : <<m, n>> \notin less
  <2> HIDE DEF less
  <2> QED  BY <1>1, WFMin
<1>3. ASSUME NEW m \in S PROVE n <= m
  <2>1. n \in Nat /\ m \in Nat /\ <<m, n>> \in Nat \X Nat  OBVIOUS
  <2>2. ~(<<m, n>>[1] < <<m, n>>[2])  BY <2>1, <1>2
  <2> QED  BY <2>1, <2>2
<1> QED  BY <1>3 DEF Smallest

\* The smallest of three numbers.
LEMMA SmallestOfThree ==
  ASSUME NEW a \in Nat, NEW b \in Nat, NEW c \in Nat
  PROVE  /\ Smallest({a, b, c}) \in {a, b, c}
         /\ Smallest({a, b, c}) <= a
         /\ Smallest({a, b, c}) <= b
         /\ Smallest({a, b, c}) <= c
  BY SmallestNat

\* Points and degrees are small numbers.
LEMMA PointsType ==
  ASSUME NEW b \in BOOLEAN, NEW n \in Nat
  PROVE  Points(b, n) \in {0, n}
  BY DEF Points

LEMMA DegreeType ==
  ASSUME NEW d \in {"main", "some", "none"}
  PROVE  Degree(d) \in {0, 7, 12} /\ (Degree(d) = 0 => d = "none")
  BY DEF Degree

\* Whatever is known of an image, a definition's tier and score are in range.
LEMMA TierType ==
  ASSUME NEW f \in Formats, image \in Images
  PROVE  PriorityTier(f) \in 0..6
<1> DEFINE x == image.fact[f]
<1>1. ImdTier(x) \in 0..6
  <2> DEFINE S == {t \in 0..6 :
    \/ t = 0 /\ x.exact /\ Layout(x) = 3
    \/ t = 1 /\ x.exact /\ Layout(x) >= 1
    \/ t = 2 /\ x.exact
    \/ t = 3 /\ Layout(x) = 3
    \/ t = 4 /\ (Layout(x) >= 2 \/ x.geom >= 2)
    \/ t = 5 /\ (Layout(x) >= 1 \/ x.geom >= 1)
    \/ t = 6}
  <2>1. S \subseteq 0..6 /\ 6 \in S  OBVIOUS
  <2>2. ImdTier(x) = Smallest(S)  BY DEF ImdTier
  <2> HIDE DEF S
  <2>3. S \subseteq Nat /\ S # {}  BY <2>1
  <2>4. Smallest(S) \in S  BY <2>3, SmallestNat
  <2> QED  BY <2>1, <2>2, <2>4
<1>2. RawTier(x) \in 0..6
  <2> DEFINE S == {t \in 0..5 :
    \/ t = 0 /\ x.exact /\ x.geom = 3
    \/ t = 1 /\ x.exact
    \/ t \in 2..4 /\ x.geom = 5 - t
    \/ t = 5}
  <2>1. S \subseteq 0..6 /\ 5 \in S  OBVIOUS
  <2>2. RawTier(x) = Smallest(S)  BY DEF RawTier
  <2> HIDE DEF S
  <2>3. S \subseteq Nat /\ S # {}  BY <2>1
  <2>4. Smallest(S) \in S  BY <2>3, SmallestNat
  <2> QED  BY <2>1, <2>2, <2>4
<1> QED  BY <1>1, <1>2 DEF PriorityTier

LEMMA FactType ==
  ASSUME NEW f \in Formats, image \in Images
  PROVE  image.fact[f] \in Facts /\ image.imd \in BOOLEAN
  BY ProbeAssumption

LEMMA ScoreType ==
  ASSUME NEW f \in Formats, image \in Images
  PROVE  PhysicalScore(f) \in -50..100
<1> DEFINE x == image.fact[f]
<1>1. x \in Facts  BY FactType
<1>2. /\ Points(x.exact, 60) \in Int /\ Points(x.track, 18) \in Int
      /\ Points(x.exact, 55) \in Int /\ Points(~x.exact /\ x.sized, 25) \in Int
      /\ Degree(x.sec) \in Int /\ Degree(x.spt) \in Int /\ x.geom \in Int
  BY <1>1 DEF Points, Degree, Facts
<1> DEFINE a == Points(x.exact, 60) + Points(x.track, 18) + Degree(x.sec)
                  + Degree(x.spt) + 3 * x.geom
           b == Points(x.exact, 55) - Points(~x.exact /\ x.sized, 25) + 12 * x.geom
<1>3. a \in Int /\ b \in Int  BY <1>2
<1>4. Clamp(a, -50, 100) \in -50..100 /\ Clamp(b, -50, 100) \in -50..100
  <2> HIDE DEF a, b
  <2> QED  BY <1>3 DEF Clamp
<1> QED  BY <1>4 DEF PhysicalScore

(***************************************************************************)
(* The ranking.                                                            *)
(***************************************************************************)

Ahead(f) == {g \in Formats : Before(ranked[g], ranked[f], g, f)}

\* A definition's place is one behind all that are before it.
LEMMA RankingFields ==
  ASSUME image \in Images, ranked = Ranking
  PROVE  /\ ranked = [f \in Formats |-> ranked[f]]
         /\ \A f \in Formats :
              /\ ranked[f] = [tier |-> Tier(f), score |-> Physical(f), place |-> Rank(f)]
              /\ Tier(f) = PriorityTier(f) /\ Tier(f) \in 0..6
              /\ Physical(f) = PhysicalScore(f) /\ Physical(f) \in -50..100
              /\ Rank(f) = 1 + Cardinality(Ahead(f))
<1> DEFINE c == [f \in Formats |-> [tier |-> PriorityTier(f), score |-> PhysicalScore(f)]]
           place(f) == 1 + Cardinality({g \in Formats : Before(c[g], c[f], g, f)})
<1>1. ranked = [f \in Formats |->
                  [tier |-> c[f].tier, score |-> c[f].score, place |-> place(f)]]
  BY DEF Ranking
<1>2. ranked = [f \in Formats |-> ranked[f]]
  <2> DEFINE entry(f) == [tier |-> c[f].tier, score |-> c[f].score, place |-> place(f)]
  <2> HIDE DEF c, place
  <2>1. \A f \in Formats : ranked[f] = entry(f)  BY <1>1
  <2> QED  BY <1>1, <2>1
<1> SUFFICES ASSUME NEW f \in Formats
             PROVE  /\ ranked[f] = [tier |-> Tier(f), score |-> Physical(f), place |-> Rank(f)]
                    /\ Tier(f) = PriorityTier(f) /\ Tier(f) \in 0..6
                    /\ Physical(f) = PhysicalScore(f) /\ Physical(f) \in -50..100
                    /\ Rank(f) = 1 + Cardinality(Ahead(f))
  BY <1>2
<1>3. \A g \in Formats : ranked[g].tier = c[g].tier /\ ranked[g].score = c[g].score
  BY <1>1
<1>4. \A g, h \in Formats : Before(c[g], c[h], g, h) <=> Before(ranked[g], ranked[h], g, h)
  BY <1>3 DEF Before
<1>5. {g \in Formats : Before(c[g], c[f], g, f)} = Ahead(f)
  BY <1>4 DEF Ahead
<1>6. ranked[f] = [tier |-> c[f].tier, score |-> c[f].score, place |-> place(f)]
  BY <1>1
<1>7. place(f) = 1 + Cardinality(Ahead(f))  BY <1>5
<1>8. c[f].tier = PriorityTier(f) /\ c[f].score = PhysicalScore(f)  OBVIOUS
<1>9. PriorityTier(f) \in 0..6 /\ PhysicalScore(f) \in -50..100
  BY TierType, ScoreType
<1> HIDE DEF c, place
<1> QED  BY <1>6, <1>7, <1>8, <1>9 DEF Tier, Physical, Rank

LEMMA Comparable ==
  ASSUME image \in Images, ranked = Ranking
  PROVE  \A f \in Formats :
           /\ ranked[f].tier = Tier(f) /\ Tier(f) \in Int
           /\ ranked[f].score = Physical(f) /\ Physical(f) \in Int
           /\ Alphabet[f] \in Int
           /\ \A g \in Formats : Alphabet[f] = Alphabet[g] => f = g
<1>1. \A f \in Formats : Tier(f) \in 0..6 /\ Physical(f) \in -50..100
  BY RankingFields
<1>2. \A f \in Formats : Tier(f) \in Int /\ Physical(f) \in Int
  BY <1>1
<1>3. \A f \in Formats : ranked[f].tier = Tier(f) /\ ranked[f].score = Physical(f)
  BY DEF Tier, Physical
<1> QED  BY <1>2, <1>3, ProbeAssumption

\* What the rest of the proofs needs of the ranking: places are 1 to Count, one
\* of each, and in the order of the tiers.
Order ==
  /\ ranked \in [Formats -> [tier: 0..6, score: -50..100, place: 1..Count]]
  /\ \A f, g \in Formats : Rank(f) = Rank(g) => f = g
  /\ \A i \in 1..Count : Ranked(i) \in Formats /\ Rank(Ranked(i)) = i
  /\ \A f, g \in Formats : Tier(f) < Tier(g) => Rank(f) < Rank(g)
  /\ \A f \in Formats : Physical(f) = PhysicalScore(f)

LEMMA CountType == Count \in Nat
  BY ProbeAssumption, FS_CardinalityType DEF Count

LEMMA AheadFinite ==
  ASSUME NEW f \in Formats
  PROVE  IsFiniteSet(Ahead(f)) /\ Cardinality(Ahead(f)) \in Nat /\ Ahead(f) \subseteq Formats
<1>1. Ahead(f) \in SUBSET Formats  BY DEF Ahead
<1> QED  BY <1>1, ProbeAssumption, FS_Subset, FS_CardinalityType

\* A set that is contained in another and lacks one of its members is smaller.
LEMMA Smaller ==
  ASSUME NEW S, NEW T, IsFiniteSet(T), S \subseteq T, NEW x \in T, x \notin S
  PROVE  IsFiniteSet(S) /\ Cardinality(S) \in Nat /\ Cardinality(T) \in Nat
         /\ Cardinality(S) + 1 <= Cardinality(T)
<1>1. S \in SUBSET T /\ S # T  OBVIOUS
<1>2. IsFiniteSet(S) /\ Cardinality(S) <= Cardinality(T) /\ Cardinality(S) # Cardinality(T)
  BY <1>1, FS_Subset
<1>3. Cardinality(S) \in Nat /\ Cardinality(T) \in Nat  BY <1>2, FS_CardinalityType
<1> QED  BY <1>2, <1>3

\* The better of two definitions has the smaller place.
LEMMA RankMonotone ==
  ASSUME image \in Images, ranked = Ranking, NEW f \in Formats, NEW g \in Formats,
         Before(ranked[f], ranked[g], f, g)
  PROVE  Rank(f) < Rank(g)
<1>1. \A h \in Formats : /\ ranked[h].tier \in Int /\ ranked[h].score \in Int
                          /\ Alphabet[h] \in Int
  BY Comparable
<1>2. Ahead(f) \subseteq Ahead(g)
  BY <1>1 DEF Ahead, Before
<1>3. f \in Ahead(g)  BY DEF Ahead
<1>4. f \notin Ahead(f)  BY <1>1 DEF Ahead, Before
<1>5. Cardinality(Ahead(f)) + 1 <= Cardinality(Ahead(g))
  BY <1>2, <1>3, <1>4, AheadFinite, Smaller
<1>6. Cardinality(Ahead(f)) \in Nat /\ Cardinality(Ahead(g)) \in Nat  BY AheadFinite
<1> QED  BY <1>5, <1>6, RankingFields

LEMMA RankingOrder ==
  ASSUME image \in Images, ranked = Ranking
  PROVE  Order
<1> USE CountType
<1>1. \A f \in Formats : Rank(f) \in 1..Count
  <2> SUFFICES ASSUME NEW f \in Formats PROVE Rank(f) \in 1..Count  OBVIOUS
  <2>1. f \notin Ahead(f)
    <3>1. ranked[f].tier \in Int /\ ranked[f].score \in Int /\ Alphabet[f] \in Int
      BY Comparable
    <3> QED  BY <3>1 DEF Ahead, Before
  <2>2. Cardinality(Ahead(f)) + 1 <= Cardinality(Formats)
    BY <2>1, AheadFinite, Smaller, ProbeAssumption
  <2> QED  BY <2>2, AheadFinite, RankingFields DEF Count
<1>2. ranked \in [Formats -> [tier: 0..6, score: -50..100, place: 1..Count]]
  <2>1. \A f \in Formats :
          ranked[f] \in [tier: 0..6, score: -50..100, place: 1..Count]
    BY <1>1, RankingFields
  <2>2. ranked = [f \in Formats |-> ranked[f]]  BY RankingFields
  <2> QED  BY <2>1, <2>2
<1>3. \A f, g \in Formats : Rank(f) = Rank(g) => f = g
  <2> SUFFICES ASSUME NEW f \in Formats, NEW g \in Formats, f # g
               PROVE  Rank(f) # Rank(g)
    OBVIOUS
  <2>1. Before(ranked[f], ranked[g], f, g) \/ Before(ranked[g], ranked[f], g, f)
    <3>1. /\ ranked[f].tier \in Int /\ ranked[f].score \in Int /\ Alphabet[f] \in Int
          /\ ranked[g].tier \in Int /\ ranked[g].score \in Int /\ Alphabet[g] \in Int
          /\ Alphabet[f] # Alphabet[g]
      BY Comparable
    <3> QED  BY <3>1 DEF Before
  <2>2. Rank(f) < Rank(g) \/ Rank(g) < Rank(f)  BY <2>1, RankMonotone
  <2> QED  BY <2>2, <1>1
<1>4. \A i \in 1..Count : \E f \in Formats : Rank(f) = i
  <2> DEFINE r == [f \in Formats |-> Rank(f)]
  <2>1. r \in Injection(Formats, 1..Count)
    BY <1>1, <1>3 DEF Injection, IsInjective
  <2>2. IsFiniteSet(1..Count) /\ Cardinality(1..Count) = Count
    BY FS_Interval
  <2>3. r \in Surjection(Formats, 1..Count)
    <3> HIDE DEF r
    <3> QED  BY <2>1, <2>2, FS_Injection DEF Count
  <2>4. \A i \in 1..Count : \E f \in Formats : r[f] = i
    <3> HIDE DEF r
    <3> QED  BY <2>3 DEF Surjection
  <2> QED  BY <2>4
<1>5. \A i \in 1..Count : Ranked(i) \in Formats /\ Rank(Ranked(i)) = i
  BY <1>4 DEF Ranked
<1>6. \A f, g \in Formats : Tier(f) < Tier(g) => Rank(f) < Rank(g)
  BY RankMonotone DEF Before, Tier
<1> QED  BY <1>2, <1>3, <1>5, <1>6, RankingFields DEF Order

\* The end of a tier is the last place of its definitions.
LEMMA TierEnds ==
  ASSUME image \in Images, ranked = Ranking, attempted \in 0..(Count - 1)
  PROVE  /\ TierEnd \in (attempted + 1)..Count
         /\ \A f \in Formats : Rank(f) <= TierEnd <=> Tier(f) <= Tier(Ranked(attempted + 1))
<1> DEFINE h == Ranked(attempted + 1)
           L == {f \in Formats : Tier(f) <= Tier(h)}
<1>1. Order /\ Count \in Nat  BY RankingOrder, CountType
<1>2. h \in Formats /\ Rank(h) = attempted + 1  BY <1>1 DEF Order
<1>3. \A f \in Formats : Tier(f) \in Int /\ Rank(f) \in 1..Count
  BY <1>1 DEF Order, Tier, Rank
<1>4. IsFiniteSet(L) /\ Cardinality(L) \in Nat /\ Cardinality(L) <= Count
  <2>1. L \in SUBSET Formats  OBVIOUS
  <2> QED  BY <2>1, ProbeAssumption, FS_Subset, FS_CardinalityType DEF Count
<1>5. TierEnd = Cardinality(L)  BY DEF TierEnd
<1>6. ASSUME NEW f \in Formats, Tier(f) <= Tier(h) PROVE Rank(f) <= TierEnd
  <2>1. f \in L  BY <1>6
  <2>2. f \notin Ahead(f)
    <3>1. ranked[f].tier \in Int /\ ranked[f].score \in Int /\ Alphabet[f] \in Int
      BY Comparable
    <3> QED  BY <3>1 DEF Ahead, Before
  <2>3. Ahead(f) \subseteq L
    BY <1>3, <1>2, <1>6 DEF Ahead, Before, Tier
  <2>4. Cardinality(Ahead(f)) + 1 <= Cardinality(L)
    BY <2>1, <2>2, <2>3, <1>4, Smaller
  <2> QED  BY <2>4, <1>5, AheadFinite, RankingFields
<1>7. ASSUME NEW f \in Formats, ~(Tier(f) <= Tier(h)) PROVE ~(Rank(f) <= TierEnd)
  <2>1. L \subseteq Ahead(f)
    BY <1>2, <1>3, <1>7 DEF Ahead, Before, Tier
  <2>2. Cardinality(L) <= Cardinality(Ahead(f))
    BY <2>1, AheadFinite, FS_Subset
  <2>3. Rank(f) = 1 + Cardinality(Ahead(f)) /\ Cardinality(Ahead(f)) \in Nat
    BY AheadFinite, RankingFields
  <2> QED  BY <2>2, <2>3, <1>4, <1>5
<1>8. attempted + 1 <= TierEnd
  BY <1>2, <1>3, <1>6
<1> QED  BY <1>4, <1>5, <1>6, <1>7, <1>8, <1>3

(***************************************************************************)
(* The inductive invariant.                                                *)
(***************************************************************************)

\* The ranking never changes.
RankingInv == image \in Images /\ ranked = Ranking

ResultType == result \in [Formats -> [state: States, score: -1..100, files: Nat]]

Busy == phase \in {"launch", "wait", "collect"}

\* How far along the ranking each phase is.
ProgressInv ==
  /\ phase = "start" => launched = 0 /\ attempted = 0 /\ ~tierMounted
  /\ Busy => attempted < Count /\ attempted < Budget
  /\ phase = "launch" => launched < BatchEnd
  /\ phase \in {"wait", "collect"} => launched = BatchEnd
  /\ phase = "done" => launched = attempted /\ attempted <= Budget

\* What a helper may have written.
Truth(f) == {Absent, Rejected} \cup {a \in {Accepted(f)} : image.fact[f].mounts}

\* A definition with an output file belongs to the batch and has no result, the
\* file is its own, and what is in it is true; every other has no helper.
HelperInv ==
  /\ \A f \in Formats :
       IF output[f] = NoOutput THEN proc[f] = "none" /\ ~running[f]
       ELSE /\ Busy /\ Rank(f) \in (attempted + 1)..launched
            /\ result[f].state = "untested"
            /\ proc[f] # "none"
            /\ files[output[f]] \in Truth(f)
            /\ \A g \in Formats : output[g] = output[f] => g = f
  /\ \A n \in Outputs : files[n] # Absent => \E f \in Formats : output[f] = n

\* Those launched and collected are tested, no others, and a mount is reported
\* with its files and its score.
ResultInv ==
  \A f \in Formats :
    /\ result[f].state # "untested" <=> Rank(f) <= launched /\ output[f] = NoOutput
    /\ result[f].state = "mounted" =>
         /\ image.fact[f].mounts
         /\ result[f].files = image.fact[f].files
         /\ result[f].score = MountScore(f, image.fact[f].files)

\* The definition with which the current batch begins.
Leader == Ranked(attempted + 1)

\* While a tier is searched nothing of a better one has mounted, and tierMounted
\* says whether something of it has.
TierInv ==
  Busy =>
    /\ \A f \in Formats : Tier(f) < Tier(Leader) => result[f].state # "mounted"
    /\ tierMounted <=> \E f \in Formats : /\ result[f].state = "mounted"
                                          /\ Rank(f) <= attempted
                                          /\ Tier(f) = Tier(Leader)

\* Why the search ended, and that it selected from all it found.
Ended ==
  /\ selected = Selection
  /\ \A f, g \in Formats : Rank(g) <= attempted /\ Tier(f) < Tier(g) =>
       Rank(f) <= attempted /\ result[f].state # "mounted"
  /\ \/ attempted = Budget
     \/ attempted = Count
     \/ \E m \in Mounted : \A g \in Formats : Tier(g) <= Tier(m) => Rank(g) <= attempted

DoneInv ==
  /\ phase # "done" => selected = {}
  /\ phase = "done" => IF attempted = 0 THEN selected = {} ELSE Ended

IInv ==
  /\ RankingInv /\ TypeOK /\ ResultType /\ ProgressInv /\ HelperInv /\ ResultInv
  /\ TierInv /\ DoneInv

(***************************************************************************)
(* What the actions leave alone.                                           *)
(***************************************************************************)

LEMMA SameRanking ==
  ASSUME ranked' = ranked
  PROVE  /\ \A f \in Formats : /\ Rank(f)' = Rank(f) /\ Tier(f)' = Tier(f)
                               /\ Physical(f)' = Physical(f)
         /\ \A i \in Int : Ranked(i)' = Ranked(i)
         /\ Count' = Count
  BY DEF Rank, Tier, Physical, Ranked, Count

LEMMA SameBatch ==
  ASSUME ranked' = ranked, attempted' = attempted
  PROVE  /\ TierEnd' = TierEnd /\ BatchEnd' = BatchEnd /\ Batch' = Batch
         /\ Leader' = Leader
  BY DEF Rank, Tier, Ranked, TierEnd, BatchEnd, Batch, Leader

LEMMA SameImage ==
  ASSUME RankingInv, image' = image, ranked' = ranked
  PROVE  /\ RankingInv'
         /\ \A f \in Formats : /\ Accepted(f)' = Accepted(f) /\ Truth(f)' = Truth(f)
         /\ \A f \in Formats, n \in Nat : MountScore(f, n)' = MountScore(f, n)
<1>1. Ranking' = Ranking
  BY DEF Ranking, PriorityTier, PhysicalScore
<1> QED  BY <1>1 DEF RankingInv, Accepted, Truth, MountScore, Physical

\* A batch is a stretch of the ranking within one tier.
LEMMA BatchEnds ==
  ASSUME RankingInv, attempted \in 0..(Count - 1), attempted < Budget
  PROVE  /\ Leader \in Formats /\ Rank(Leader) = attempted + 1
         /\ TierEnd \in (attempted + 1)..Count
         /\ BatchEnd \in (attempted + 1)..TierEnd
         /\ BatchEnd \in 0..Count
         /\ BatchEnd <= Budget
         /\ \A f \in Formats : /\ f \in Batch <=> Rank(f) \in (attempted + 1)..BatchEnd
                               /\ Rank(f) <= TierEnd <=> Tier(f) <= Tier(Leader)
                               /\ f \in Batch => Tier(f) = Tier(Leader)
<1>1. Order /\ Count \in Nat  BY RankingOrder, CountType DEF RankingInv
<1>2. Leader \in Formats /\ Rank(Leader) = attempted + 1  BY <1>1 DEF Order, Leader
<1>3. /\ TierEnd \in (attempted + 1)..Count
      /\ \A f \in Formats : Rank(f) <= TierEnd <=> Tier(f) <= Tier(Leader)
  BY TierEnds DEF RankingInv, Leader
<1>4. /\ TierEnd \in Nat /\ attempted + BatchSize \in Nat /\ Budget \in Nat
      /\ attempted + 1 <= attempted + BatchSize /\ attempted + 1 <= Budget
  BY <1>1, <1>3, ProbeAssumption
<1>5. /\ BatchEnd \in {TierEnd, attempted + BatchSize, Budget}
      /\ BatchEnd <= TierEnd /\ BatchEnd <= Budget
  BY <1>4, SmallestOfThree DEF BatchEnd
<1>6. BatchEnd \in (attempted + 1)..TierEnd /\ BatchEnd \in 0..Count
  BY <1>1, <1>3, <1>4, <1>5
<1>7. \A f \in Formats : Tier(f) \in Int /\ Rank(f) \in 1..Count
  BY <1>1 DEF Order, Tier, Rank
<1>8. ASSUME NEW f \in Batch PROVE Tier(f) = Tier(Leader)
  <2>1. f \in Formats /\ Rank(f) >= attempted + 1 /\ Rank(f) <= TierEnd
    <3>1. f \in Formats /\ Rank(f) \in (attempted + 1)..BatchEnd  BY <1>8 DEF Batch
    <3>2. attempted + 1 \in Int /\ BatchEnd \in Int /\ TierEnd \in Int /\ BatchEnd <= TierEnd
      BY <1>4, <1>6
    <3> QED  BY <3>1, <3>2
  <2>2. Tier(f) <= Tier(Leader)  BY <2>1, <1>3
  <2>3. ~(Tier(f) < Tier(Leader))  BY <2>1, <1>1, <1>2, <1>7 DEF Order
  <2> QED  BY <2>1, <2>2, <2>3, <1>2, <1>7
<1> QED  BY <1>2, <1>3, <1>5, <1>6, <1>8 DEF Batch

LEMMA OrderFacts ==
  ASSUME RankingInv
  PROVE  /\ Order /\ Count \in Nat
         /\ \A f \in Formats : Rank(f) \in 1..Count /\ Tier(f) \in 0..6 /\ Physical(f) \in -50..100
<1>1. Order /\ Count \in Nat  BY RankingOrder, CountType DEF RankingInv
<1> QED  BY <1>1 DEF Order, Rank, Tier, Physical

LEMMA BusyFacts ==
  ASSUME IInv, Busy
  PROVE  /\ attempted \in 0..(Count - 1) /\ attempted < Budget
         /\ launched \in attempted..BatchEnd
         /\ Leader \in Formats /\ Rank(Leader) = attempted + 1
         /\ TierEnd \in (attempted + 1)..Count
         /\ BatchEnd \in (attempted + 1)..TierEnd /\ BatchEnd \in 0..Count /\ BatchEnd <= Budget
         /\ \A f \in Formats : /\ f \in Batch <=> Rank(f) \in (attempted + 1)..BatchEnd
                               /\ Rank(f) <= TierEnd <=> Tier(f) <= Tier(Leader)
                               /\ f \in Batch => Tier(f) = Tier(Leader)
<1>1. RankingInv /\ attempted < Count /\ attempted < Budget /\ attempted \in 0..Count
  BY DEF IInv, ProgressInv, TypeOK
<1>2. Count \in Nat  BY CountType
<1>3. attempted \in 0..(Count - 1)  BY <1>1, <1>2
<1>4. launched \in attempted..Count /\ launched <= BatchEnd
  <2>1. BatchEnd \in 0..Count  BY <1>1, <1>3, BatchEnds
  <2>2. launched < BatchEnd \/ launched = BatchEnd  BY DEF Busy, IInv, ProgressInv
  <2>3. launched \in attempted..Count  BY DEF IInv, TypeOK
  <2> QED  BY <2>1, <2>2, <2>3, <1>2, <1>3
<1>5. launched \in attempted..BatchEnd
  <2>1. BatchEnd \in 0..Count  BY <1>1, <1>3, BatchEnds
  <2> QED  BY <1>2, <1>3, <1>4, <2>1
<1> QED  BY <1>1, <1>3, <1>5, BatchEnds

LEMMA InitInv == ASSUME Init PROVE IInv
<1> USE DEF Init
<1>1. RankingInv /\ Count \in Nat /\ Order  BY OrderFacts DEF RankingInv
<1>2. Cardinality({}) = 0  BY FS_EmptySet
<1>3. /\ result = [f \in Formats |-> NoResult]
      /\ NoResult \in [state: States, score: -1..100, files: Nat]
  BY DEF NoResult, States
<1>4. ResultType  BY <1>3 DEF ResultType
<1>5. \A f \in Formats : result[f].state = "untested" /\ result[f].score \in -1..100
  BY <1>3 DEF NoResult
<1>6. TypeOK
  <2>1. ranked \in [Formats -> [tier: 0..6, score: -50..100, place: 1..Count]]
    BY <1>1 DEF Order
  <2>2. files \in [Outputs -> {Absent, Rejected} \cup {Accepted(f) : f \in Formats}]
    OBVIOUS
  <2>3. \A f \in Formats : result[f].state \in States  BY <1>5 DEF States
  <2>4. image \in Images /\ attempted \in 0..Count /\ launched \in attempted..Count
    BY <1>1
  <2>5. /\ proc \in [Formats -> {"none", "working", "answered", "exit", "failed"}]
        /\ running \in [Formats -> BOOLEAN]
        /\ output \in [Formats -> Outputs \cup {NoOutput}]
    OBVIOUS
  <2>6. phase \in {"start", "launch", "wait", "collect", "done"} /\ tierMounted \in BOOLEAN
    OBVIOUS
  <2>7. selected \subseteq Formats /\ Cardinality(selected) <= 1  BY <1>2
  <2> QED  BY <1>5, <2>1, <2>2, <2>3, <2>4, <2>5, <2>6, <2>7 DEF TypeOK
<1>7. ProgressInv  BY <1>1 DEF ProgressInv, Busy
<1>8. HelperInv  BY DEF HelperInv
<1>9. ResultInv  BY <1>1, <1>5, OrderFacts DEF ResultInv
<1>10. TierInv /\ DoneInv  BY DEF TierInv, DoneInv, Busy
<1> QED  BY <1>1, <1>4, <1>6, <1>7, <1>8, <1>9, <1>10 DEF IInv

(***************************************************************************)
(* Every action keeps the invariant.                                       *)
(***************************************************************************)

\* Typing after a step, from the typing of each variable.
LEMMA TypedAfter ==
  ASSUME IInv, image' = image, ranked' = ranked,
         phase' \in {"start", "launch", "wait", "collect", "done"},
         attempted' \in 0..Count, launched' \in attempted'..Count,
         tierMounted' \in BOOLEAN,
         proc' \in [Formats -> {"none", "working", "answered", "exit", "failed"}],
         running' \in [Formats -> BOOLEAN],
         output' \in [Formats -> Outputs \cup {NoOutput}],
         files' \in [Outputs -> {Absent, Rejected} \cup {Accepted(f) : f \in Formats}],
         ResultType',
         selected' \subseteq Formats, Cardinality(selected') <= 1
  PROVE  RankingInv' /\ TypeOK' /\ ResultType'
<1>1. RankingInv /\ TypeOK  BY DEF IInv
<1>2. RankingInv' /\ \A f \in Formats : Accepted(f)' = Accepted(f)
  BY <1>1, SameImage
<1>3. {Accepted(f) : f \in Formats}' = {Accepted(f) : f \in Formats}  BY <1>2
<1>4. {Absent, Rejected}' = {Absent, Rejected}  BY DEF Absent, Rejected
<1>5. Count' = Count  BY SameRanking
<1>6. \A f \in Formats : result'[f].state \in States /\ result'[f].score \in -1..100
  BY DEF ResultType
<1>7. files' \in [Outputs -> {Absent, Rejected} \cup {Accepted(f) : f \in Formats}]'
  BY <1>3, <1>4
<1>8. image' \in Images /\ ranked' \in [Formats -> [tier: 0..6, score: -50..100, place: 1..Count']]
  BY <1>1, <1>5 DEF TypeOK
<1>9. TypeOK'
  BY <1>5, <1>6, <1>7, <1>8 DEF TypeOK
<1> QED  BY <1>2, <1>9

\* The steps before the first batch.
LEMMA BeginInv ==
  ASSUME IInv, NoProbing \/ Begin
  PROVE  IInv'
<1>1. /\ RankingInv /\ TypeOK /\ ResultType /\ ProgressInv /\ HelperInv /\ ResultInv /\ DoneInv
      /\ Count \in Nat /\ Order
      /\ \A f \in Formats : Rank(f) \in 1..Count
  BY OrderFacts DEF IInv
<1>2. /\ phase = "start" /\ attempted = 0 /\ launched = 0 /\ selected = {} /\ ~tierMounted
      /\ UNCHANGED <<image, ranked, attempted, launched, tierMounted, proc, running,
                     output, files, result, selected>>
      /\ phase' = "done" \/ (phase' = "launch" /\ Formats # {})
      /\ \A f \in Formats : /\ output[f] = NoOutput /\ proc[f] = "none" /\ ~running[f]
                            /\ result[f].state = "untested"
  <2>1. phase = "start" /\ attempted = 0 /\ launched = 0 /\ selected = {} /\ ~tierMounted
    BY <1>1 DEF NoProbing, Begin, ProgressInv, DoneInv
  <2>2. ~Busy  BY <2>1 DEF Busy
  <2>3. \A f \in Formats : output[f] = NoOutput /\ proc[f] = "none" /\ ~running[f]
    BY <2>2, <1>1 DEF HelperInv
  <2>4. \A f \in Formats : result[f].state = "untested"
    BY <2>1, <1>1 DEF ResultInv
  <2> QED  BY <2>1, <2>3, <2>4 DEF NoProbing, Begin
<1>3. RankingInv' /\ TypeOK' /\ ResultType'
  <2>1. ResultType'  BY <1>1, <1>2 DEF ResultType
  <2> QED  BY <1>1, <1>2, <2>1, TypedAfter DEF TypeOK
<1>4. (Count > 0 /\ Formats # {}) \/ Formats = {}
  BY <1>1, ProbeAssumption, FS_EmptySet DEF Count
<1>5. ProgressInv'
  <2>1. CASE phase' = "done"
    <3>1. launched' = attempted' /\ attempted' <= Budget  BY <1>2, ProbeAssumption
    <3> QED  BY <2>1, <3>1 DEF ProgressInv, Busy
  <2>2. CASE phase' = "launch" /\ Formats # {}
    <3>1. attempted \in 0..(Count - 1) /\ attempted < Budget
      BY <1>1, <1>2, <1>4, <2>2, ProbeAssumption
    <3>2. BatchEnd \in (attempted + 1)..TierEnd /\ BatchEnd' = BatchEnd /\ Count' = Count
      BY <1>1, <1>2, <3>1, BatchEnds, SameBatch, SameRanking
    <3>3. launched < BatchEnd
      BY <1>2, <3>2
    <3>4. /\ phase' = "launch" /\ launched' < BatchEnd'
          /\ attempted' < Count' /\ attempted' < Budget
      BY <1>1, <1>2, <2>2, <3>1, <3>2, <3>3
    <3> QED  BY <3>4 DEF ProgressInv, Busy
  <2> QED  BY <1>2, <2>1, <2>2
<1>6. HelperInv'
  <2>1. \A n \in Outputs : files[n] # Absent => \E f \in Formats : output[f] = n
    BY <1>1 DEF HelperInv
  <2> QED  BY <1>2, <2>1 DEF HelperInv, Absent
<1>7. ResultInv'
  <2>1. \A f \in Formats : Rank(f)' = Rank(f)  BY <1>2, SameRanking
  <2> QED  BY <1>1, <1>2, <2>1 DEF ResultInv
<1>8. TierInv'
  <2>1. \A f \in Formats : result'[f].state # "mounted"  BY <1>2
  <2> QED  BY <1>2, <2>1 DEF TierInv
<1>9. DoneInv'
  BY <1>2 DEF DoneInv
<1> QED  BY <1>3, <1>5, <1>6, <1>7, <1>8, <1>9 DEF IInv

\* The candidate that is launched next.
LEMMA CurrentFacts ==
  ASSUME IInv, phase = "launch"
  PROVE  /\ Busy
         /\ Current \in Formats /\ Rank(Current) = launched + 1
         /\ launched + 1 \in (attempted + 1)..BatchEnd
         /\ launched + 1 \in 0..Count
         /\ output[Current] = NoOutput /\ result[Current].state = "untested"
         /\ proc[Current] = "none" /\ ~running[Current]
         /\ AfterLaunch \in {"launch", "wait"}
         /\ launched + 1 < BatchEnd <=> AfterLaunch = "launch"
<1>1. Busy  BY DEF Busy
<1>2. RankingInv /\ Order /\ Count \in Nat  BY OrderFacts DEF IInv
<1>3. /\ attempted \in 0..(Count - 1)
      /\ launched \in attempted..BatchEnd /\ launched < BatchEnd
      /\ BatchEnd \in 0..Count
  BY <1>1, BusyFacts DEF IInv, ProgressInv
<1>4. launched + 1 \in (attempted + 1)..BatchEnd /\ launched + 1 \in 1..Count
  BY <1>2, <1>3
<1>5. Current \in Formats /\ Rank(Current) = launched + 1
  BY <1>2, <1>4 DEF Order, Current
<1>6. ~(Rank(Current) <= launched)  BY <1>2, <1>3, <1>5
<1>7. output[Current] = NoOutput /\ proc[Current] = "none" /\ ~running[Current]
  <2>1. launched \in Int /\ attempted + 1 \in Int  BY <1>2, <1>3
  <2>2. Rank(Current) \notin (attempted + 1)..launched  BY <2>1, <1>6, <1>5
  <2> QED  BY <2>2, <1>5 DEF IInv, HelperInv
<1>8. result[Current].state = "untested"  BY <1>5, <1>6 DEF IInv, ResultInv
<1>9. launched + 1 \in Int /\ BatchEnd \in Int /\ launched + 1 <= BatchEnd
  BY <1>2, <1>3, <1>4
<1>10. /\ AfterLaunch \in {"launch", "wait"}
       /\ launched + 1 < BatchEnd <=> AfterLaunch = "launch"
  BY <1>9 DEF AfterLaunch
<1> QED  BY <1>1, <1>2, <1>4, <1>5, <1>7, <1>8, <1>10

\* What both ways of launching share.
LEMMA LaunchedProgress ==
  ASSUME IInv, phase = "launch", launched' = launched + 1, phase' = AfterLaunch,
         UNCHANGED <<image, ranked, attempted, tierMounted, selected>>
  PROVE  ProgressInv' /\ DoneInv'
<1>1. /\ attempted \in 0..(Count - 1) /\ attempted < Budget
      /\ launched + 1 \in (attempted + 1)..BatchEnd
      /\ AfterLaunch \in {"launch", "wait"}
      /\ launched + 1 < BatchEnd <=> AfterLaunch = "launch"
      /\ BatchEnd \in 0..Count /\ Count \in Nat
  BY CurrentFacts, BusyFacts, CountType
<1>2. BatchEnd' = BatchEnd /\ Count' = Count  BY SameBatch, SameRanking
<1>3. attempted < Count  BY <1>1
<1>4. AfterLaunch = "wait" => launched + 1 = BatchEnd
  BY <1>1
<1>5. ProgressInv'
  BY <1>1, <1>2, <1>3, <1>4 DEF ProgressInv, Busy
<1>6. selected = {}  BY DEF IInv, DoneInv
<1>7. DoneInv'  BY <1>1, <1>6 DEF DoneInv
<1> QED  BY <1>5, <1>7

LEMMA LaunchInv ==
  ASSUME IInv, Launch
  PROVE  IInv'
<1>1. /\ RankingInv /\ TypeOK /\ ResultType /\ HelperInv /\ ResultInv /\ TierInv
  BY DEF IInv
<1>2. /\ Busy /\ Current \in Formats /\ Rank(Current) = launched + 1
      /\ launched + 1 \in (attempted + 1)..BatchEnd /\ launched + 1 \in 0..Count
      /\ output[Current] = NoOutput /\ result[Current].state = "untested"
      /\ AfterLaunch \in {"launch", "wait"}
  BY CurrentFacts DEF Launch
<1>3. /\ attempted \in 0..(Count - 1)
      /\ \A f \in Formats : f \in Batch <=> Rank(f) \in (attempted + 1)..BatchEnd
      /\ BatchEnd \in 0..Count /\ launched \in attempted..BatchEnd
  BY <1>2, BusyFacts
<1>4. PICK n \in Outputs : FreeOutput(n) /\ output' = [output EXCEPT ![Current] = n]
  BY DEF Launch
<1> DEFINE k == Current
<1> HIDE DEF k
<1>5. /\ k \in Formats /\ Rank(k) = launched + 1 /\ output[k] = NoOutput
      /\ result[k].state = "untested"
      /\ output' = [output EXCEPT ![k] = n]
      /\ proc' = [proc EXCEPT ![k] = "working"]
      /\ running' = [running EXCEPT ![k] = TRUE]
      /\ launched' = launched + 1 /\ phase' = AfterLaunch
      /\ UNCHANGED <<image, ranked, attempted, tierMounted, files, result, selected>>
  BY <1>2, <1>4 DEF Launch, k
<1>6. Count \in Nat /\ \A f \in Formats : Rank(f) \in 1..Count
  BY <1>1, OrderFacts
<1>7. n # NoOutput  BY ProbeAssumption
<1>8. RankingInv' /\ TypeOK' /\ ResultType'
  <2>1. ResultType'  BY <1>1, <1>5 DEF ResultType
  <2>2. phase' \in {"start", "launch", "wait", "collect", "done"}  BY <1>2, <1>5
  <2>3. attempted' \in 0..Count /\ launched' \in attempted'..Count
    BY <1>2, <1>3, <1>5, <1>6
  <2>4. /\ proc' \in [Formats -> {"none", "working", "answered", "exit", "failed"}]
        /\ running' \in [Formats -> BOOLEAN]
        /\ output' \in [Formats -> Outputs \cup {NoOutput}]
    BY <1>1, <1>5 DEF TypeOK
  <2> QED  BY <1>1, <1>5, <2>1, <2>2, <2>3, <2>4, TypedAfter DEF TypeOK
<1>9. ProgressInv' /\ DoneInv'
  BY <1>5, LaunchedProgress DEF Launch
<1>10. \A f \in Formats : Rank(f)' = Rank(f) /\ Tier(f)' = Tier(f) /\ Truth(f)' = Truth(f)
  BY <1>1, <1>5, SameRanking, SameImage
<1>11. Busy'  BY <1>2, <1>5 DEF Busy
<1>12. \A f \in Formats : output[f] # n
  <2> SUFFICES ASSUME NEW f \in Formats, output[f] = n PROVE FALSE  OBVIOUS
  <2>1. Rank(f) \in (attempted + 1)..launched  BY <1>1, <1>7 DEF HelperInv
  <2>2. launched <= BatchEnd /\ launched \in Int /\ BatchEnd \in Int /\ attempted + 1 \in Int
    BY <1>2, <1>3, <1>6
  <2>3. f \in Batch  BY <2>1, <2>2, <1>3
  <2> QED  BY <2>3, <1>4 DEF FreeOutput
<1>13. HelperInv'
  <2>1. ASSUME NEW f \in Formats
        PROVE  IF output'[f] = NoOutput THEN proc'[f] = "none" /\ ~running'[f]
               ELSE /\ Busy' /\ Rank(f) \in (attempted + 1)..(launched + 1)
                    /\ result[f].state = "untested"
                    /\ proc'[f] # "none"
                    /\ files[output'[f]] \in Truth(f)
                    /\ \A g \in Formats : output'[g] = output'[f] => g = f
    <3>1. CASE f = k
      <4>1. output'[f] = n /\ proc'[f] = "working"
        BY <1>1, <1>5, <3>1 DEF TypeOK
      <4>2. files[n] \in Truth(f)  BY <1>4 DEF FreeOutput, Truth
      <4>3. \A g \in Formats : output'[g] = n => g = f
        BY <1>1, <1>5, <1>12, <3>1 DEF TypeOK
      <4>4. Rank(f) \in (attempted + 1)..(launched + 1)
        BY <1>2, <1>3, <1>5, <1>6, <3>1
      <4> QED  BY <1>5, <1>7, <1>11, <3>1, <4>1, <4>2, <4>3, <4>4
    <3>2. CASE f # k
      <4>1. output'[f] = output[f] /\ proc'[f] = proc[f] /\ running'[f] = running[f]
        BY <1>1, <1>5, <3>2 DEF TypeOK
      <4>2. CASE output[f] = NoOutput
        BY <1>1, <4>1, <4>2 DEF HelperInv
      <4>3. CASE output[f] # NoOutput
        <5>1. /\ Rank(f) \in (attempted + 1)..launched
              /\ result[f].state = "untested" /\ proc[f] # "none"
              /\ files[output[f]] \in Truth(f)
              /\ \A g \in Formats : output[g] = output[f] => g = f
          BY <1>1, <4>3 DEF HelperInv
        <5>2. Rank(f) \in (attempted + 1)..(launched + 1)
          BY <5>1, <1>2, <1>3, <1>6
        <5>3. ASSUME NEW g \in Formats, output'[g] = output'[f] PROVE g = f
          <6>1. g # k  BY <1>1, <1>5, <1>12, <4>1, <5>3 DEF TypeOK
          <6>2. output'[g] = output[g]  BY <1>1, <1>5, <6>1 DEF TypeOK
          <6> QED  BY <5>1, <5>3, <6>2, <4>1
        <5> QED  BY <4>1, <4>3, <5>1, <5>2, <5>3, <1>11
      <4> QED  BY <4>2, <4>3
    <3> QED  BY <3>1, <3>2
  <2>2. ASSUME NEW m \in Outputs, files[m] # Absent
        PROVE  \E f \in Formats : output'[f] = m
    <3>1. PICK f \in Formats : output[f] = m  BY <1>1, <2>2 DEF HelperInv
    <3>2. f # k  BY <3>1, <1>5, ProbeAssumption
    <3> QED  BY <3>1, <3>2, <1>1, <1>5 DEF TypeOK
  <2>3. Absent' = Absent  BY DEF Absent
  <2> QED  BY <2>1, <2>2, <2>3, <1>5, <1>10 DEF HelperInv
<1>14. ResultInv'
  <2> SUFFICES ASSUME NEW f \in Formats
               PROVE  /\ result[f].state # "untested" <=>
                           Rank(f) <= launched + 1 /\ output'[f] = NoOutput
                      /\ result[f].state = "mounted" =>
                           /\ image.fact[f].mounts
                           /\ result[f].files = image.fact[f].files
                           /\ result[f].score = MountScore(f, image.fact[f].files)'
    BY <1>5, <1>10 DEF ResultInv
  <2>1. result[f].state = "mounted" =>
           /\ image.fact[f].mounts
           /\ result[f].files = image.fact[f].files
           /\ result[f].score = MountScore(f, image.fact[f].files)
    BY <1>1 DEF ResultInv
  <2>2. MountScore(f, image.fact[f].files)' = MountScore(f, image.fact[f].files)
    BY <1>5 DEF MountScore, Physical
  <2>3. result[f].state # "untested" <=> Rank(f) <= launched + 1 /\ output'[f] = NoOutput
    <3>1. CASE f = k
      BY <1>1, <1>5, <1>7, <3>1 DEF TypeOK
    <3>2. CASE f # k
      <4>1. output'[f] = output[f]  BY <1>1, <1>5, <3>2 DEF TypeOK
      <4>2. Rank(f) # launched + 1  BY <1>1, <1>5, <3>2, OrderFacts DEF Order
      <4>3. Rank(f) <= launched + 1 <=> Rank(f) <= launched
        BY <4>2, <1>3, <1>6
      <4> QED  BY <1>1, <4>1, <4>3 DEF ResultInv
    <3> QED  BY <3>1, <3>2
  <2> QED  BY <2>1, <2>2, <2>3
<1>15. TierInv'
  <2>1. Leader' = Leader /\ Tier(Leader)' = Tier(Leader)
    BY <1>5, SameBatch, SameRanking DEF Leader, Tier
  <2> QED  BY <1>1, <1>2, <1>5, <1>10, <2>1 DEF TierInv
<1> QED  BY <1>8, <1>9, <1>13, <1>14, <1>15 DEF IInv

LEMMA LaunchFailsInv ==
  ASSUME IInv, LaunchFails
  PROVE  IInv'
<1>1. /\ RankingInv /\ TypeOK /\ ResultType /\ HelperInv /\ ResultInv /\ TierInv
  BY DEF IInv
<1> DEFINE k == Current
           r == Outcome("helper_error", Clamp(Physical(k), 0, 70), 0)
<1>2. /\ Busy /\ k \in Formats /\ Rank(k) = launched + 1
      /\ launched + 1 \in (attempted + 1)..BatchEnd /\ launched + 1 \in 0..Count
      /\ output[k] = NoOutput /\ result[k].state = "untested"
      /\ AfterLaunch \in {"launch", "wait"}
  BY CurrentFacts DEF LaunchFails
<1>3. /\ attempted \in 0..(Count - 1) /\ BatchEnd \in 0..Count
      /\ launched \in attempted..BatchEnd
  BY <1>2, BusyFacts
<1>4. Count \in Nat /\ \A f \in Formats : Rank(f) \in 1..Count /\ Physical(f) \in -50..100
  BY <1>1, OrderFacts
<1>5. /\ r.state = "helper_error" /\ r \in [state: States, score: -1..100, files: Nat]
  <2>1. Physical(k) \in Int  BY <1>2, <1>4
  <2>2. Clamp(Physical(k), 0, 70) \in 0..70  BY <2>1 DEF Clamp
  <2> HIDE DEF k
  <2> QED  BY <2>2 DEF Outcome, States
<1>6. /\ result' = [result EXCEPT ![k] = r]
      /\ launched' = launched + 1 /\ phase' = AfterLaunch
      /\ UNCHANGED <<image, ranked, attempted, tierMounted, proc, running, output,
                     files, selected>>
  BY DEF LaunchFails
<1> HIDE DEF k, r
<1>7. /\ result'[k] = r
      /\ \A f \in Formats : f # k => result'[f] = result[f]
  BY <1>1, <1>2, <1>6 DEF ResultType
<1>8. RankingInv' /\ TypeOK' /\ ResultType'
  <2>1. ResultType'  BY <1>1, <1>2, <1>5, <1>6 DEF ResultType
  <2>2. phase' \in {"start", "launch", "wait", "collect", "done"}  BY <1>2, <1>6
  <2>3. attempted' \in 0..Count /\ launched' \in attempted'..Count
    BY <1>2, <1>3, <1>4, <1>6
  <2> QED  BY <1>1, <1>6, <2>1, <2>2, <2>3, TypedAfter DEF TypeOK
<1>9. ProgressInv' /\ DoneInv'
  BY <1>6, LaunchedProgress DEF LaunchFails
<1>10. \A f \in Formats : Rank(f)' = Rank(f) /\ Tier(f)' = Tier(f) /\ Truth(f)' = Truth(f)
  BY <1>1, <1>6, SameRanking, SameImage
<1>11. Busy'  BY <1>2, <1>6 DEF Busy
<1>12. HelperInv'
  <2>1. ASSUME NEW f \in Formats
        PROVE  IF output[f] = NoOutput THEN proc[f] = "none" /\ ~running[f]
               ELSE /\ Busy' /\ Rank(f) \in (attempted + 1)..(launched + 1)
                    /\ result'[f].state = "untested"
                    /\ proc[f] # "none"
                    /\ files[output[f]] \in Truth(f)
                    /\ \A g \in Formats : output[g] = output[f] => g = f
    <3>1. CASE output[f] = NoOutput
      BY <1>1, <3>1 DEF HelperInv
    <3>2. CASE output[f] # NoOutput
      <4>1. Rank(f) \in (attempted + 1)..launched /\ result[f].state = "untested"
        BY <1>1, <3>2 DEF HelperInv
      <4>2. Rank(f) \in (attempted + 1)..(launched + 1)
        BY <4>1, <1>2, <1>3, <1>4
      <4>3. f # k  BY <1>2, <3>2
      <4>4. result'[f].state = "untested"  BY <4>1, <4>3, <1>7
      <4> QED  BY <1>1, <1>11, <3>2, <4>2, <4>4 DEF HelperInv
    <3> QED  BY <3>1, <3>2
  <2>2. \A m \in Outputs : files[m] # Absent => \E f \in Formats : output[f] = m
    BY <1>1 DEF HelperInv
  <2>3. Absent' = Absent  BY DEF Absent
  <2> QED  BY <2>1, <2>2, <2>3, <1>6, <1>10 DEF HelperInv
<1>13. ResultInv'
  <2> SUFFICES ASSUME NEW f \in Formats
               PROVE  /\ result'[f].state # "untested" <=>
                           Rank(f) <= launched + 1 /\ output[f] = NoOutput
                      /\ result'[f].state = "mounted" =>
                           /\ image.fact[f].mounts
                           /\ result'[f].files = image.fact[f].files
                           /\ result'[f].score = MountScore(f, image.fact[f].files)'
    BY <1>6, <1>10 DEF ResultInv
  <2>1. MountScore(f, image.fact[f].files)' = MountScore(f, image.fact[f].files)
    BY <1>6 DEF MountScore, Physical
  <2>2. CASE f = k
    BY <1>2, <1>4, <1>5, <1>7, <2>2
  <2>3. CASE f # k
    <3>1. Rank(f) # launched + 1  BY <1>1, <1>2, <2>3, OrderFacts DEF Order
    <3>2. Rank(f) <= launched + 1 <=> Rank(f) <= launched
      BY <3>1, <1>3, <1>4
    <3> QED  BY <1>1, <1>7, <2>1, <2>3, <3>2 DEF ResultInv
  <2> QED  BY <2>2, <2>3
<1>14. TierInv'
  <2>1. Leader' = Leader /\ Tier(Leader)' = Tier(Leader)
    BY <1>6, SameBatch, SameRanking DEF Leader, Tier
  <2>2. \A f \in Formats : result'[f].state = "mounted" <=> result[f].state = "mounted"
    BY <1>2, <1>5, <1>7
  <2> QED  BY <1>1, <1>2, <1>6, <1>10, <2>1, <2>2 DEF TierInv
<1> QED  BY <1>8, <1>9, <1>12, <1>13, <1>14 DEF IInv

\* The helpers' steps and the waiting: processes end, answers appear, and the
\* files of the batch stay true.
LEMMA WorkInv ==
  ASSUME IInv,
         UNCHANGED <<image, ranked, attempted, launched, tierMounted, output, result, selected>>,
         phase' = phase \/ (phase = "wait" /\ phase' = "collect"),
         proc' \in [Formats -> {"none", "working", "answered", "exit", "failed"}],
         running' \in [Formats -> BOOLEAN],
         files' \in [Outputs -> {Absent, Rejected} \cup {Accepted(f) : f \in Formats}],
         \A f \in Formats : IF output[f] = NoOutput THEN proc'[f] = "none" /\ ~running'[f]
                            ELSE proc'[f] # "none" /\ files'[output[f]] \in Truth(f),
         \A n \in Outputs : files'[n] # Absent => \E f \in Formats : output[f] = n
  PROVE  IInv'
<1>1. /\ RankingInv /\ TypeOK /\ ResultType /\ ProgressInv /\ HelperInv /\ ResultInv
      /\ TierInv /\ DoneInv
  BY DEF IInv
<1>2. RankingInv' /\ TypeOK' /\ ResultType'
  <2>1. ResultType'  BY <1>1 DEF ResultType
  <2>2. phase' \in {"start", "launch", "wait", "collect", "done"}  BY <1>1 DEF TypeOK
  <2> QED  BY <1>1, <2>1, <2>2, TypedAfter DEF TypeOK
<1>3. BatchEnd' = BatchEnd /\ Count' = Count /\ Leader' = Leader  BY SameBatch, SameRanking
<1>4. \A f \in Formats : Rank(f)' = Rank(f) /\ Tier(f)' = Tier(f) /\ Truth(f)' = Truth(f)
  BY <1>1, SameRanking, SameImage
<1>5. Busy' <=> Busy  BY DEF Busy
<1>6. ProgressInv'  BY <1>1, <1>3, <1>5 DEF ProgressInv
<1>7. HelperInv'
  <2>1. ASSUME NEW f \in Formats, output[f] # NoOutput
        PROVE  /\ Busy' /\ Rank(f) \in (attempted + 1)..launched
               /\ result[f].state = "untested"
               /\ \A g \in Formats : output[g] = output[f] => g = f
    BY <1>1, <1>5, <2>1 DEF HelperInv
  <2>2. Absent' = Absent  BY DEF Absent
  <2> QED  BY <1>4, <2>1, <2>2 DEF HelperInv
<1>8. \A f \in Formats : MountScore(f, image.fact[f].files)' = MountScore(f, image.fact[f].files)
  BY DEF MountScore, Physical
<1>9. ResultInv'  BY <1>1, <1>4, <1>8 DEF ResultInv
<1>10. TierInv'
  <2>1. Tier(Leader)' = Tier(Leader)  BY <1>3 DEF Leader, Tier
  <2> QED  BY <1>1, <1>3, <1>4, <1>5, <2>1 DEF TierInv
<1>11. DoneInv'
  <2>1. phase = "done" <=> phase' = "done"  OBVIOUS
  <2>2. Ended' <=> Ended
    BY <1>3, <1>4 DEF Ended, Selection, Mounted
  <2> QED  BY <1>1, <2>1, <2>2 DEF DoneInv
<1> QED  BY <1>2, <1>6, <1>7, <1>9, <1>10, <1>11 DEF IInv

LEMMA AnswersInv ==
  ASSUME IInv, NEW f \in Formats, NEW a \in Truth(f), Answers(f, a)
  PROVE  IInv'
<1>1. RankingInv /\ TypeOK /\ HelperInv  BY DEF IInv
<1>2. /\ proc[f] = "working" /\ proc' = [proc EXCEPT ![f] = "answered"]
      /\ files' = [files EXCEPT ![output[f]] = a]
      /\ UNCHANGED <<image, ranked, phase, attempted, launched, tierMounted, running,
                     output, result, selected>>
  BY DEF Answers
<1>3. output[f] # NoOutput  BY <1>1, <1>2 DEF HelperInv
<1>4. output[f] \in Outputs  BY <1>1, <1>3 DEF TypeOK
<1>5. /\ proc' \in [Formats -> {"none", "working", "answered", "exit", "failed"}]
      /\ running' \in [Formats -> BOOLEAN]
  BY <1>1, <1>2 DEF TypeOK
<1>6. a \in {Absent, Rejected} \cup {Accepted(g) : g \in Formats}  BY DEF Truth
<1>7. files' \in [Outputs -> {Absent, Rejected} \cup {Accepted(g) : g \in Formats}]
  BY <1>1, <1>2, <1>6 DEF TypeOK
<1>8. ASSUME NEW g \in Formats
      PROVE  IF output[g] = NoOutput THEN proc'[g] = "none" /\ ~running'[g]
             ELSE proc'[g] # "none" /\ files'[output[g]] \in Truth(g)
  <2>1. CASE g = f
    <3>1. proc'[g] = "answered" /\ files'[output[g]] = a
      BY <1>1, <1>2, <1>4, <2>1 DEF TypeOK
    <3> QED  BY <1>3, <2>1, <3>1
  <2>2. CASE g # f
    <3>1. proc'[g] = proc[g]  BY <1>1, <1>2, <2>2 DEF TypeOK
    <3>2. CASE output[g] = NoOutput  BY <1>1, <1>2, <3>1, <3>2 DEF HelperInv
    <3>3. CASE output[g] # NoOutput
      <4>1. output[g] # output[f] /\ output[g] \in Outputs
        BY <1>1, <1>3, <2>2, <3>3 DEF HelperInv, TypeOK
      <4>2. files'[output[g]] = files[output[g]]  BY <1>1, <1>2, <4>1 DEF TypeOK
      <4> QED  BY <1>1, <3>1, <3>3, <4>2 DEF HelperInv
    <3> QED  BY <3>2, <3>3
  <2> QED  BY <2>1, <2>2
<1>9. ASSUME NEW n \in Outputs, files'[n] # Absent
      PROVE  \E g \in Formats : output[g] = n
  <2>1. CASE n = output[f]  BY <2>1
  <2>2. CASE n # output[f]
    <3>1. files'[n] = files[n]  BY <1>1, <1>2, <2>2 DEF TypeOK
    <3> QED  BY <1>1, <1>9, <3>1 DEF HelperInv
  <2> QED  BY <2>1, <2>2
<1> QED  BY <1>2, <1>5, <1>7, <1>8, <1>9, WorkInv

LEMMA HelpersInv ==
  ASSUME IInv, Helper
  PROVE  IInv'
<1>1. RankingInv /\ TypeOK /\ HelperInv  BY DEF IInv
<1>2. PICK f \in Formats :
        HelperAccepts(f) \/ HelperRejects(f) \/ HelperExits(f) \/ HelperFails(f)
  BY DEF Helper
<1>3. CASE HelperAccepts(f) \/ HelperRejects(f)
  <2>1. PICK a \in Truth(f) : Answers(f, a)
    BY <1>3 DEF HelperAccepts, HelperRejects, Truth
  <2> QED  BY <2>1, AnswersInv
<1>4. CASE HelperExits(f) \/ HelperFails(f)
  <2>1. /\ proc[f] # "none"
        /\ \E e \in {"exit", "failed"} : proc' = [proc EXCEPT ![f] = e]
        /\ UNCHANGED <<image, ranked, phase, attempted, launched, tierMounted, running,
                       output, files, result, selected>>
    BY <1>4 DEF HelperExits, HelperFails
  <2>2. /\ proc' \in [Formats -> {"none", "working", "answered", "exit", "failed"}]
        /\ \A g \in Formats : proc'[g] = "none" <=> proc[g] = "none"
    BY <1>1, <2>1 DEF TypeOK
  <2>3. \A g \in Formats : IF output[g] = NoOutput THEN proc'[g] = "none" /\ ~running'[g]
                           ELSE proc'[g] # "none" /\ files'[output[g]] \in Truth(g)
    BY <1>1, <2>1, <2>2 DEF HelperInv
  <2>4. \A n \in Outputs : files'[n] # Absent => \E g \in Formats : output[g] = n
    BY <1>1, <2>1 DEF HelperInv
  <2>5. /\ running' \in [Formats -> BOOLEAN]
        /\ files' \in [Outputs -> {Absent, Rejected} \cup {Accepted(g) : g \in Formats}]
    BY <1>1, <2>1 DEF TypeOK
  <2> QED  BY <2>1, <2>2, <2>3, <2>4, <2>5, WorkInv
<1> QED  BY <1>2, <1>3, <1>4

\* Poll and StopWaiting.
LEMMA WaitInv ==
  ASSUME IInv, StopWaiting \/ \E f \in Formats : Poll(f)
  PROVE  IInv'
<1>1. RankingInv /\ TypeOK /\ HelperInv  BY DEF IInv
<1>2. /\ UNCHANGED <<image, ranked, attempted, launched, tierMounted, proc, output, files,
                     result, selected>>
      /\ phase' = phase \/ (phase = "wait" /\ phase' = "collect")
      /\ running' \in [Formats -> BOOLEAN]
      /\ \A f \in Formats : running'[f] => running[f]
  BY <1>1 DEF StopWaiting, Poll, TypeOK
<1>3. \A g \in Formats : IF output[g] = NoOutput THEN proc'[g] = "none" /\ ~running'[g]
                         ELSE proc'[g] # "none" /\ files'[output[g]] \in Truth(g)
  BY <1>1, <1>2 DEF HelperInv
<1>4. \A n \in Outputs : files'[n] # Absent => \E g \in Formats : output[g] = n
  BY <1>1, <1>2 DEF HelperInv
<1>5. /\ proc' \in [Formats -> {"none", "working", "answered", "exit", "failed"}]
      /\ files' \in [Outputs -> {Absent, Rejected} \cup {Accepted(g) : g \in Formats}]
  BY <1>1, <1>2 DEF TypeOK
<1> QED  BY <1>2, <1>3, <1>4, <1>5, WorkInv

\* What is made of a helper is a typed result, and a mount is a true one.
LEMMA VerdictTrue ==
  ASSUME IInv, NEW f \in Formats, output[f] # NoOutput
  PROVE  /\ Verdict(f) \in [state: States, score: -1..100, files: Nat]
         /\ Verdict(f).state # "untested"
         /\ Verdict(f).state = "mounted" =>
              /\ image.fact[f].mounts
              /\ Verdict(f).files = image.fact[f].files
              /\ Verdict(f).score = MountScore(f, image.fact[f].files)
<1> DEFINE a == files[output[f]]
           n == image.fact[f].files
<1>1. Physical(f) \in Int /\ a \in Truth(f) /\ n \in Nat /\ image.fact[f].mounts \in BOOLEAN
  <2>1. Physical(f) \in Int  BY OrderFacts DEF IInv
  <2>2. a \in Truth(f)  BY DEF IInv, HelperInv
  <2>3. image.fact[f] \in Facts  BY FactType DEF IInv, RankingInv
  <2> QED  BY <2>1, <2>2, <2>3 DEF Facts
<1>2. MountScore(f, n) \in 0..100
  <2>1. Smallest({n, 10}) \in Nat
    <3>1. {n, 10} \subseteq Nat /\ {n, 10} # {}  BY <1>1
    <3>2. Smallest({n, 10}) \in {n, 10}  BY <3>1, SmallestNat
    <3> QED  BY <3>1, <3>2
  <2>2. 55 + Physical(f) + Smallest({n, 10}) \in Int  BY <1>1, <2>1
  <2> HIDE DEF n
  <2> QED  BY <2>2 DEF MountScore, Clamp
<1>3. /\ Clamp(Physical(f) \div 4, 0, 30) \in 0..30
      /\ Clamp(Physical(f) \div 2, 0, 50) \in 0..50
      /\ Clamp(Physical(f), 0, 70) \in 0..70
  BY <1>1 DEF Clamp
<1> DEFINE R == [state: States, score: -1..100, files: Nat]
<1>4. /\ Failed("timeout", f) \in R /\ Failed("timeout", f).state = "timeout"
      /\ Failed("crashed", f) \in R /\ Failed("crashed", f).state = "crashed"
  <2> DEFINE c == Clamp(Physical(f) \div 4, 0, 30)
  <2>1. c \in -1..100  BY <1>3
  <2> HIDE DEF c
  <2>2. \A s \in {"timeout", "crashed"} :
          [state |-> s, score |-> c, files |-> 0] \in R
    BY <2>1 DEF States
  <2> QED  BY <2>2 DEF Failed, Outcome, c
<1>5. LET r == Outcome("crashed", Clamp(Physical(f), 0, 70), 0)
      IN  r \in R /\ r.state = "crashed"
  BY <1>3 DEF Outcome, States
<1>6. LET r == Outcome("rejected", Clamp(Physical(f) \div 2, 0, 50), 0)
      IN  r \in R /\ r.state = "rejected"
  BY <1>3 DEF Outcome, States
<1>7. /\ Absent # Rejected /\ Absent # Accepted(f)
      /\ Accepted(f).mounted /\ Accepted(f).files = n /\ ~Rejected.mounted
  <2>1. Absent.kind = "absent" /\ Rejected.kind = "answer" /\ Accepted(f).kind = "answer"
    BY DEF Absent, Rejected, Accepted
  <2> QED  BY <2>1 DEF Rejected, Accepted
<1> HIDE DEF R
<1>8. CASE running[f]
  BY <1>4, <1>8 DEF Verdict, R
<1>9. CASE ~running[f] /\ proc[f] = "failed"
  BY <1>4, <1>9 DEF Verdict, R
<1>10. CASE ~running[f] /\ proc[f] # "failed" /\ a = Absent
  BY <1>5, <1>10 DEF Verdict, R
<1>11. CASE ~running[f] /\ proc[f] # "failed" /\ a = Rejected
  <2>1. Verdict(f) = Outcome("rejected", Clamp(Physical(f) \div 2, 0, 50), 0)
    BY <1>7, <1>11 DEF Verdict
  <2> QED  BY <1>6, <2>1 DEF R
<1>12. CASE ~running[f] /\ proc[f] # "failed" /\ a = Accepted(f) /\ image.fact[f].mounts
  <2>1. Verdict(f) = Outcome("mounted", MountScore(f, n), n)
    BY <1>7, <1>12 DEF Verdict
  <2> QED  BY <1>1, <1>2, <1>12, <2>1 DEF Outcome, States
<1> QED  BY <1>1, <1>8, <1>9, <1>10, <1>11, <1>12 DEF Truth

LEMMA CollectInv ==
  ASSUME IInv, NEW f \in Formats, Collect(f)
  PROVE  IInv'
<1>1. /\ RankingInv /\ TypeOK /\ ResultType /\ ProgressInv /\ HelperInv /\ ResultInv
      /\ TierInv /\ DoneInv
  BY DEF IInv
<1>2. /\ phase = "collect" /\ Busy /\ output[f] # NoOutput /\ f \in Batch
      /\ result' = [result EXCEPT ![f] = Verdict(f)]
      /\ files' = [files EXCEPT ![output[f]] = Absent]
      /\ proc' = [proc EXCEPT ![f] = "none"]
      /\ running' = [running EXCEPT ![f] = FALSE]
      /\ output' = [output EXCEPT ![f] = NoOutput]
      /\ UNCHANGED <<image, ranked, phase, attempted, launched, tierMounted, selected>>
  BY DEF Collect, Deleted, Busy
<1>3. /\ output[f] \in Outputs /\ Rank(f) \in (attempted + 1)..launched
      /\ result[f].state = "untested"
      /\ \A g \in Formats : output[g] = output[f] => g = f
  BY <1>1, <1>2 DEF HelperInv, TypeOK
<1>4. /\ Verdict(f) \in [state: States, score: -1..100, files: Nat]
      /\ Verdict(f).state # "untested"
      /\ Verdict(f).state = "mounted" =>
              /\ image.fact[f].mounts
              /\ Verdict(f).files = image.fact[f].files
              /\ Verdict(f).score = MountScore(f, image.fact[f].files)
  BY <1>2, VerdictTrue
<1>5. /\ result'[f] = Verdict(f) /\ output'[f] = NoOutput /\ proc'[f] = "none" /\ ~running'[f]
      /\ files'[output[f]] = Absent
      /\ \A g \in Formats : g # f => /\ result'[g] = result[g] /\ output'[g] = output[g]
                                     /\ proc'[g] = proc[g] /\ running'[g] = running[g]
      /\ \A n \in Outputs : n # output[f] => files'[n] = files[n]
  BY <1>1, <1>2, <1>3 DEF TypeOK, ResultType
<1>6. RankingInv' /\ TypeOK' /\ ResultType'
  <2>1. ResultType'  BY <1>1, <1>2, <1>4 DEF ResultType
  <2>2. /\ proc' \in [Formats -> {"none", "working", "answered", "exit", "failed"}]
        /\ running' \in [Formats -> BOOLEAN]
        /\ output' \in [Formats -> Outputs \cup {NoOutput}]
        /\ files' \in [Outputs -> {Absent, Rejected} \cup {Accepted(g) : g \in Formats}]
    BY <1>1, <1>2 DEF TypeOK
  <2> QED  BY <1>1, <1>2, <2>1, <2>2, TypedAfter DEF TypeOK
<1>7. BatchEnd' = BatchEnd /\ Count' = Count /\ Leader' = Leader
  BY <1>2, SameBatch, SameRanking
<1>8. \A g \in Formats : Rank(g)' = Rank(g) /\ Tier(g)' = Tier(g) /\ Truth(g)' = Truth(g)
  BY <1>1, <1>2, SameRanking, SameImage
<1>9. Busy'  BY <1>2 DEF Busy
<1>10. ProgressInv'  BY <1>1, <1>2, <1>7, <1>9 DEF ProgressInv
<1>11. HelperInv'
  <2>1. ASSUME NEW g \in Formats
        PROVE  IF output'[g] = NoOutput THEN proc'[g] = "none" /\ ~running'[g]
               ELSE /\ Rank(g) \in (attempted + 1)..launched
                    /\ result'[g].state = "untested"
                    /\ proc'[g] # "none"
                    /\ files'[output'[g]] \in Truth(g)
                    /\ \A h \in Formats : output'[h] = output'[g] => h = g
    <3>1. CASE g = f  BY <1>5, <3>1
    <3>2. CASE g # f /\ output[g] = NoOutput  BY <1>1, <1>5, <3>2 DEF HelperInv
    <3>3. CASE g # f /\ output[g] # NoOutput
      <4>1. /\ Rank(g) \in (attempted + 1)..launched
            /\ result[g].state = "untested" /\ proc[g] # "none"
            /\ files[output[g]] \in Truth(g)
            /\ \A h \in Formats : output[h] = output[g] => h = g
        BY <1>1, <3>3 DEF HelperInv
      <4>2. output[g] # output[f] /\ output[g] \in Outputs
        BY <1>1, <1>3, <3>3 DEF TypeOK
      <4>3. files'[output'[g]] = files[output[g]]  BY <1>5, <3>3, <4>2
      <4>4. \A h \in Formats : output'[h] = output'[g] => h = g
        BY <1>5, <3>3, <4>1
      <4> QED  BY <1>5, <3>3, <4>1, <4>3, <4>4
    <3> QED  BY <3>1, <3>2, <3>3
  <2>2. ASSUME NEW n \in Outputs, files'[n] # Absent
        PROVE  \E g \in Formats : output'[g] = n
    <3>1. n # output[f]  BY <1>5, <2>2
    <3>2. files[n] # Absent  BY <1>5, <2>2, <3>1
    <3>3. PICK g \in Formats : output[g] = n  BY <1>1, <3>2 DEF HelperInv
    <3> QED  BY <1>5, <3>1, <3>3
  <2>3. Absent' = Absent  BY DEF Absent
  <2> QED  BY <1>2, <1>8, <1>9, <2>1, <2>2, <2>3 DEF HelperInv
<1>12. ResultInv'
  <2> SUFFICES ASSUME NEW g \in Formats
               PROVE  /\ result'[g].state # "untested" <=>
                           Rank(g) <= launched /\ output'[g] = NoOutput
                      /\ result'[g].state = "mounted" =>
                           /\ image.fact[g].mounts
                           /\ result'[g].files = image.fact[g].files
                           /\ result'[g].score = MountScore(g, image.fact[g].files)'
    BY <1>2, <1>8 DEF ResultInv
  <2>1. MountScore(g, image.fact[g].files)' = MountScore(g, image.fact[g].files)
    BY <1>2 DEF MountScore, Physical
  <2>2. CASE g = f
    <3>1. Rank(f) <= launched
      <4>1. Rank(f) \in Int /\ launched \in Int  BY <1>1, OrderFacts DEF TypeOK
      <4> QED  BY <1>3, <4>1
    <3> QED  BY <1>4, <1>5, <2>1, <2>2, <3>1
  <2>3. CASE g # f
    BY <1>1, <1>5, <2>1, <2>3 DEF ResultInv
  <2> QED  BY <2>2, <2>3
<1>13. TierInv'
  <2>1. Tier(Leader)' = Tier(Leader)  BY <1>2, <1>7 DEF Leader, Tier
  <2>2. /\ Tier(f) = Tier(Leader) /\ ~(Rank(f) <= attempted)
        /\ Tier(Leader) \in Int
    <3>1. Tier(f) = Tier(Leader) /\ Leader \in Formats  BY <1>2, BusyFacts
    <3>2. attempted \in Int /\ launched \in Int /\ Rank(f) \in Int /\ Tier(Leader) \in Int
      BY <1>1, <3>1, OrderFacts DEF TypeOK
    <3> QED  BY <1>3, <3>1, <3>2
  <2>3. \A g \in Formats : Tier(g) < Tier(Leader) => result'[g].state # "mounted"
    BY <1>1, <1>2, <1>5, <2>2 DEF TierInv
  <2>4. (\E g \in Formats : /\ result'[g].state = "mounted" /\ Rank(g) <= attempted
                            /\ Tier(g) = Tier(Leader))
        <=> (\E g \in Formats : /\ result[g].state = "mounted" /\ Rank(g) <= attempted
                                /\ Tier(g) = Tier(Leader))
    BY <1>5, <2>2
  <2>5. tierMounted <=> \E g \in Formats : /\ result[g].state = "mounted"
                                           /\ Rank(g) <= attempted
                                           /\ Tier(g) = Tier(Leader)
    BY <1>1, <1>2 DEF TierInv
  <2>6. /\ \A g \in Formats : Tier(g)' < Tier(Leader)' => result'[g].state # "mounted"
        /\ tierMounted' <=> \E g \in Formats : /\ result'[g].state = "mounted"
                                               /\ Rank(g)' <= attempted'
                                               /\ Tier(g)' = Tier(Leader)'
    BY <1>2, <1>8, <2>1, <2>3, <2>4, <2>5
  <2> QED  BY <2>6 DEF TierInv
<1>14. DoneInv'  BY <1>1, <1>2 DEF DoneInv
<1> QED  BY <1>6, <1>10, <1>11, <1>12, <1>13, <1>14 DEF IInv

\* No two definitions are selected.
LEMMA SelectionIsOne ==
  ASSUME ResultType
  PROVE  Selection \subseteq Formats /\ Cardinality(Selection) <= 1
<1>1. Selection \subseteq Formats  BY DEF Selection, Mounted
<1>2. ASSUME NEW f \in Selection, NEW g \in Selection PROVE f = g
  <2> SUFFICES ASSUME f # g PROVE FALSE  OBVIOUS
  <2>1. f \in Mounted \ {g} /\ g \in Mounted \ {f}  BY <1>2 DEF Selection
  <2>2. result[f].score - result[g].score >= 20 /\ result[g].score - result[f].score >= 20
    BY <1>2, <2>1 DEF Selection
  <2>3. result[f].score \in Int /\ result[g].score \in Int
    BY <1>1, <1>2 DEF ResultType
  <2> QED  BY <2>2, <2>3
<1>3. Selection = {} \/ \E f : Selection = {f}  BY <1>2
<1>4. CASE Selection = {}
  <2>1. Cardinality({}) = 0  BY FS_EmptySet
  <2> QED  BY <1>1, <1>4, <2>1
<1>5. CASE \E f : Selection = {f}
  <2>1. Cardinality(Selection) = 1  BY <1>5, FS_Singleton
  <2> QED  BY <1>1, <2>1
<1> QED  BY <1>3, <1>4, <1>5

\* BatchEnds of the next state.
LEMMA BatchEndsNext ==
  ASSUME RankingInv', attempted' \in 0..(Count' - 1), attempted' < Budget
  PROVE  /\ Leader' \in Formats /\ Rank(Leader)' = attempted' + 1
         /\ BatchEnd' \in (attempted' + 1)..TierEnd'
         /\ TierEnd' \in (attempted' + 1)..Count'
<1>1. (/\ RankingInv /\ attempted \in 0..(Count - 1) /\ attempted < Budget
       => /\ Leader \in Formats /\ Rank(Leader) = attempted + 1
          /\ BatchEnd \in (attempted + 1)..TierEnd
          /\ TierEnd \in (attempted + 1)..Count)'
  BY BatchEnds, PTL
<1> QED  BY <1>1

LEMMA EndBatchInv ==
  ASSUME IInv, EndBatch
  PROVE  IInv'
<1>1. /\ RankingInv /\ TypeOK /\ ResultType /\ ProgressInv /\ HelperInv /\ ResultInv
      /\ TierInv /\ DoneInv
  BY DEF IInv
<1> DEFINE m == tierMounted \/ Mounted \cap Batch # {}
           stop == BatchEnd = Budget \/ BatchEnd = Count \/ (m /\ BatchEnd = TierEnd)
<1>2. /\ phase = "collect" /\ Busy /\ launched = BatchEnd /\ attempted' = BatchEnd
      /\ \A f \in Batch : output[f] = NoOutput
      /\ UNCHANGED <<image, ranked, launched, proc, running, output, files, result>>
  BY <1>1 DEF EndBatch, Busy, ProgressInv
<1>3. \/ stop /\ phase' = "done" /\ selected' = Selection /\ tierMounted' = m
      \/ /\ ~stop /\ phase' = "launch" /\ selected' = selected
         /\ tierMounted' = (m /\ BatchEnd # TierEnd)
  BY DEF EndBatch, TierDone
<1>4. /\ attempted \in 0..(Count - 1) /\ attempted < Budget
      /\ Leader \in Formats /\ Rank(Leader) = attempted + 1
      /\ TierEnd \in (attempted + 1)..Count
      /\ BatchEnd \in (attempted + 1)..TierEnd /\ BatchEnd \in 0..Count /\ BatchEnd <= Budget
      /\ \A f \in Formats : /\ f \in Batch <=> Rank(f) \in (attempted + 1)..BatchEnd
                            /\ Rank(f) <= TierEnd <=> Tier(f) <= Tier(Leader)
                            /\ f \in Batch => Tier(f) = Tier(Leader)
  BY <1>2, BusyFacts
<1>5. /\ Order /\ Count \in Nat
      /\ \A f \in Formats : Rank(f) \in Nat /\ Tier(f) \in Nat
  BY <1>1, OrderFacts
<1>6. /\ attempted \in Nat /\ BatchEnd \in Nat /\ TierEnd \in Nat /\ Budget \in Nat
      /\ attempted < BatchEnd /\ BatchEnd <= TierEnd /\ BatchEnd <= Count
  BY <1>4, <1>5, ProbeAssumption
<1>7. \A f \in Formats : output[f] = NoOutput
  <2> SUFFICES ASSUME NEW f \in Formats, output[f] # NoOutput PROVE FALSE  OBVIOUS
  <2>1. Rank(f) \in (attempted + 1)..launched  BY <1>1 DEF HelperInv
  <2> QED  BY <1>2, <1>4, <2>1
<1>8. Mounted = {f \in Formats : result[f].state = "mounted"}  BY DEF Mounted
<1>9. \A f \in Mounted : /\ f \in Formats /\ Rank(f) <= BatchEnd
                         /\ Tier(f) = Tier(Leader)
  <2> SUFFICES ASSUME NEW f \in Mounted
               PROVE  f \in Formats /\ Rank(f) <= BatchEnd /\ Tier(f) = Tier(Leader)
    OBVIOUS
  <2>1. f \in Formats /\ result[f].state = "mounted"  BY <1>8
  <2>2. Rank(f) <= BatchEnd  BY <1>1, <1>2, <2>1 DEF ResultInv
  <2>3. Rank(f) <= TierEnd  BY <1>5, <1>6, <2>1, <2>2
  <2>4. Tier(f) <= Tier(Leader)  BY <1>4, <2>1, <2>3
  <2>5. ~(Tier(f) < Tier(Leader))  BY <1>1, <1>2, <2>1 DEF TierInv
  <2> QED  BY <1>4, <1>5, <2>1, <2>2, <2>4, <2>5
<1>10. m <=> Mounted # {}
  <2>1. tierMounted => Mounted # {}  BY <1>1, <1>2, <1>8 DEF TierInv
  <2>2. ASSUME NEW f \in Mounted, f \notin Batch PROVE tierMounted
    <3>1. f \in Formats /\ Rank(f) <= BatchEnd /\ Tier(f) = Tier(Leader)  BY <1>9, <2>2
    <3>2. ~(Rank(f) \in (attempted + 1)..BatchEnd)  BY <1>4, <2>2, <3>1
    <3>3. Rank(f) <= attempted  BY <1>5, <1>6, <3>1, <3>2
    <3> QED  BY <1>1, <1>2, <1>8, <2>2, <3>1, <3>3 DEF TierInv
  <2> QED  BY <2>1, <2>2
<1> HIDE DEF m
<1>11. /\ \A f \in Formats : Rank(f)' = Rank(f) /\ Tier(f)' = Tier(f) /\ Truth(f)' = Truth(f)
       /\ Count' = Count /\ Mounted' = Mounted /\ Selection' = Selection
  BY <1>1, <1>2, SameRanking, SameImage DEF Mounted, Selection
<1>12. RankingInv' /\ TypeOK' /\ ResultType'
  <2>1. ResultType'  BY <1>1, <1>2 DEF ResultType
  <2>2. selected' \subseteq Formats /\ Cardinality(selected') <= 1
    BY <1>1, <1>3, SelectionIsOne DEF TypeOK
  <2>3. phase' \in {"start", "launch", "wait", "collect", "done"} /\ tierMounted' \in BOOLEAN
    <3>1. m \in BOOLEAN  BY <1>1 DEF m, TypeOK
    <3> QED  BY <1>3, <3>1
  <2>4. attempted' \in 0..Count /\ launched' \in attempted'..Count
    BY <1>2, <1>4, <1>5, <1>6
  <2> QED  BY <1>1, <1>2, <2>1, <2>2, <2>3, <2>4, TypedAfter DEF TypeOK
<1>13. HelperInv'
  <2>1. \A f \in Formats : output'[f] = NoOutput /\ proc'[f] = "none" /\ ~running'[f]
    BY <1>1, <1>2, <1>7 DEF HelperInv
  <2>2. \A n \in Outputs : files'[n] # Absent => \E f \in Formats : output'[f] = n
    BY <1>1, <1>2 DEF HelperInv
  <2>3. Absent' = Absent  BY DEF Absent
  <2> QED  BY <2>1, <2>2, <2>3 DEF HelperInv
<1>14. ResultInv'
  <2>1. \A f \in Formats : MountScore(f, image.fact[f].files)' = MountScore(f, image.fact[f].files)
    BY <1>2 DEF MountScore, Physical
  <2> QED  BY <1>1, <1>2, <1>11, <2>1 DEF ResultInv
<1>15. CASE stop
  <2>1. phase' = "done" /\ selected' = Selection  BY <1>3, <1>15
  <2>2. ~Busy'  BY <2>1 DEF Busy
  <2>3. ProgressInv'  BY <1>2, <1>4, <2>1, <2>2 DEF ProgressInv
  <2>4. TierInv'  BY <2>2 DEF TierInv
  <2>5. ASSUME NEW f \in Formats, NEW g \in Formats, Rank(g) <= BatchEnd, Tier(f) < Tier(g)
        PROVE  Rank(f) <= BatchEnd /\ result[f].state # "mounted"
    <3>1. Rank(f) < Rank(g)  BY <1>5, <2>5 DEF Order
    <3>2. Rank(f) <= BatchEnd /\ Rank(g) <= TierEnd  BY <1>5, <1>6, <2>5, <3>1
    <3>3. Tier(g) <= Tier(Leader)  BY <1>4, <3>2
    <3>4. Tier(f) # Tier(Leader)  BY <1>4, <1>5, <2>5, <3>3
    <3> QED  BY <1>8, <1>9, <3>2, <3>4
  <2>6. \/ BatchEnd = Budget
        \/ BatchEnd = Count
        \/ \E w \in Mounted : \A g \in Formats : Tier(g) <= Tier(w) => Rank(g) <= BatchEnd
    <3>1. SUFFICES ASSUME m, BatchEnd = TierEnd
          PROVE  \E w \in Mounted : \A g \in Formats : Tier(g) <= Tier(w) => Rank(g) <= BatchEnd
      BY <1>15
    <3>2. PICK w \in Mounted : TRUE  BY <1>10, <3>1
    <3>3. Tier(w) = Tier(Leader)  BY <1>9
    <3> QED  BY <1>4, <3>1, <3>3
  <2>7. Ended'  BY <1>2, <1>11, <2>1, <2>5, <2>6, <1>9 DEF Ended
  <2>8. attempted' # 0  BY <1>2, <1>6
  <2>9. DoneInv'  BY <2>1, <2>7, <2>8 DEF DoneInv
  <2> QED  BY <1>12, <1>13, <1>14, <2>3, <2>4, <2>9 DEF IInv
<1>16. CASE ~stop
  <2>1. phase' = "launch" /\ selected' = selected /\ tierMounted' = (m /\ BatchEnd # TierEnd)
    BY <1>3, <1>16
  <2>2. attempted' \in 0..(Count' - 1) /\ attempted' < Budget /\ attempted' < Count'
    BY <1>2, <1>4, <1>5, <1>6, <1>11, <1>16
  <2>3. /\ Leader' \in Formats /\ Rank(Leader') = BatchEnd + 1
        /\ BatchEnd' \in (BatchEnd + 1)..TierEnd'
        /\ TierEnd' \in (BatchEnd + 1)..Count
    <3>1. /\ Leader' \in Formats /\ Rank(Leader)' = attempted' + 1
          /\ BatchEnd' \in (attempted' + 1)..TierEnd'
          /\ TierEnd' \in (attempted' + 1)..Count'
      BY <1>12, <2>2, BatchEndsNext
    <3>2. Rank(Leader)' = Rank(Leader')  BY <1>2 DEF Rank
    <3> QED  BY <1>2, <1>11, <3>1, <3>2
  <2>4. launched' < BatchEnd'  BY <1>2, <1>5, <1>6, <2>3
  <2>5. ProgressInv'  BY <2>1, <2>2, <2>4 DEF ProgressInv
  <2>6. DoneInv'  BY <1>1, <1>2, <2>1 DEF DoneInv
  <2>7. /\ Tier(Leader') >= Tier(Leader)
        /\ BatchEnd = TierEnd <=> Tier(Leader') > Tier(Leader)
    <3>1. Tier(Leader') <= Tier(Leader) <=> BatchEnd + 1 <= TierEnd  BY <1>4, <2>3
    <3>2. ~(Tier(Leader') < Tier(Leader))
      <4>1. Rank(Leader) < Rank(Leader')  BY <1>4, <1>6, <2>3
      <4>2. Tier(Leader') < Tier(Leader) => Rank(Leader') < Rank(Leader)
        BY <1>4, <1>5, <2>3 DEF Order
      <4> QED  BY <1>4, <1>5, <2>3, <4>1, <4>2
    <3> QED  BY <1>4, <1>5, <1>6, <2>3, <3>1, <3>2
  <2>8. ASSUME NEW f \in Formats, Tier(f) < Tier(Leader') PROVE result[f].state # "mounted"
    <3> SUFFICES ASSUME f \in Mounted PROVE FALSE  BY <1>8
    <3>1. Tier(Leader') > Tier(Leader)  BY <1>4, <1>5, <1>9, <2>3, <2>8
    <3>2. BatchEnd = TierEnd  BY <2>7, <3>1
    <3> QED  BY <1>10, <1>16, <3>2
  <2>9. tierMounted' <=> \E f \in Formats : /\ result[f].state = "mounted"
                                            /\ Rank(f) <= BatchEnd
                                            /\ Tier(f) = Tier(Leader')
    <3>1. CASE BatchEnd = TierEnd
      <4>1. ~m  BY <1>16, <3>1
      <4> QED  BY <1>8, <1>10, <2>1, <4>1
    <3>2. CASE BatchEnd # TierEnd
      <4>1. Tier(Leader') = Tier(Leader)  BY <1>4, <1>5, <2>3, <2>7, <3>2
      <4> QED  BY <1>8, <1>9, <1>10, <2>1, <3>2, <4>1
    <3> QED  BY <3>1, <3>2
  <2>10. TierInv'
    <3>1. Tier(Leader)' = Tier(Leader')  BY <1>2 DEF Tier
    <3> QED  BY <1>2, <1>11, <2>8, <2>9, <3>1 DEF TierInv
  <2> QED  BY <1>12, <1>13, <1>14, <2>5, <2>6, <2>10 DEF IInv
<1> QED  BY <1>15, <1>16

LEMMA NextInv ==
  ASSUME IInv, [Next]_vars
  PROVE  IInv'
<1>1. CASE UNCHANGED vars
  <2>1. RankingInv /\ TypeOK /\ HelperInv  BY DEF IInv
  <2>2. UNCHANGED <<image, ranked, phase, attempted, launched, tierMounted, proc, running,
                    output, files, result, selected>>
    BY <1>1 DEF vars
  <2> QED  BY <2>1, <2>2, WorkInv DEF TypeOK, HelperInv
<1>2. CASE Next
  <2>1. CASE NoProbing \/ Begin  BY <2>1, BeginInv
  <2>2. CASE Launch  BY <2>2, LaunchInv
  <2>3. CASE LaunchFails  BY <2>3, LaunchFailsInv
  <2>4. CASE StopWaiting \/ \E f \in Formats : Poll(f)  BY <2>4, WaitInv
  <2>5. CASE \E f \in Formats : Collect(f)  BY <2>5, CollectInv
  <2>6. CASE EndBatch  BY <2>6, EndBatchInv
  <2>7. CASE Helper  BY <2>7, HelpersInv
  <2> QED  BY <1>2, <2>1, <2>2, <2>3, <2>4, <2>5, <2>6, <2>7 DEF Next, Client
<1> QED  BY <1>1, <1>2

THEOREM Invariance == Spec => []IInv
<1>1. Init => IInv  BY InitInv
<1>2. IInv /\ [Next]_vars => IInv'  BY NextInv
<1> QED  BY <1>1, <1>2, PTL DEF Spec

(***************************************************************************)
(* What follows from it.                                                   *)
(***************************************************************************)

\* Every variable has its type: no score leaves its range, no counter passes
\* the number of definitions, and no two definitions are selected.
THEOREM TypeCorrect == Spec => []TypeOK
<1>1. IInv => TypeOK  BY DEF IInv
<1> QED  BY <1>1, Invariance, PTL

\* Whatever helpers do and in whichever order they end, the report says of a
\* definition that it mounts the image only if it does.
THEOREM ReportIsTruthful == Spec => []ReportTruthful
<1>1. IInv => ReportTruthful  BY DEF IInv, ResultInv, ReportTruthful
<1> QED  BY <1>1, Invariance, PTL

\* When probing has ended no helper runs and no output file is left, also after
\* crashes and after the deadline.
THEOREM NothingIsLeft == Spec => []NothingLeft
<1>1. ASSUME IInv, phase = "done"
      PROVE  /\ \A n \in Outputs : files[n] = Absent
             /\ \A f \in Formats : proc[f] = "none"
  <2>1. ~Busy /\ HelperInv  BY <1>1 DEF IInv, Busy
  <2>2. \A f \in Formats : output[f] = NoOutput  BY <2>1 DEF HelperInv
  <2>3. \A n \in Outputs : n # NoOutput  BY ProbeAssumption
  <2> QED  BY <2>1, <2>2, <2>3 DEF HelperInv
<1>2. IInv => NothingLeft  BY <1>1 DEF NothingLeft
<1> QED  BY <1>2, Invariance, PTL

\* In every state the tested definitions are a beginning of the ranking, and
\* those of a better tier than a tested one's have been tested in vain.
LEMMA BetterInVain ==
  ASSUME IInv, NEW f \in Formats, NEW g \in Formats,
         result[g].state # "untested", Tier(f) < Tier(g)
  PROVE  result[f].state \notin {"untested", "mounted"}
<1>1. /\ RankingInv /\ TypeOK /\ ProgressInv /\ HelperInv /\ ResultInv /\ TierInv /\ DoneInv
  BY DEF IInv
<1>2. /\ Order /\ Count \in Nat
      /\ \A h \in Formats : Rank(h) \in 1..Count /\ Tier(h) \in Nat
  BY <1>1, OrderFacts
<1>3. /\ Rank(g) <= launched /\ Rank(f) < Rank(g)
      /\ launched \in Nat /\ attempted \in Nat
  BY <1>1, <1>2 DEF ResultInv, TypeOK, Order
<1>4. CASE Busy
  <2>1. /\ launched \in attempted..BatchEnd /\ BatchEnd \in (attempted + 1)..TierEnd
        /\ Leader \in Formats /\ Rank(Leader) = attempted + 1
        /\ TierEnd \in (attempted + 1)..Count
        /\ \A h \in Formats : Rank(h) <= TierEnd <=> Tier(h) <= Tier(Leader)
    BY <1>4, BusyFacts
  <2>2. Rank(g) <= TierEnd  BY <1>2, <1>3, <2>1
  <2>3. Tier(f) < Tier(Leader)  BY <1>2, <2>1, <2>2
  <2>4. result[f].state # "mounted"  BY <1>1, <1>4, <2>3 DEF TierInv
  <2>5. Rank(f) <= attempted
    <3>1. Rank(f) < Rank(Leader)  BY <1>2, <2>1, <2>3 DEF Order
    <3> QED  BY <1>2, <1>3, <2>1, <3>1
  <2>6. output[f] = NoOutput
    <3>1. ~(Rank(f) \in (attempted + 1)..launched)  BY <1>2, <1>3, <2>5
    <3> QED  BY <1>1, <3>1 DEF HelperInv
  <2>7. Rank(f) <= launched  BY <1>2, <1>3
  <2> QED  BY <1>1, <2>4, <2>6, <2>7 DEF ResultInv
<1>5. CASE ~Busy
  <2>1. output[f] = NoOutput  BY <1>1, <1>5 DEF HelperInv
  <2>2. Rank(f) <= launched  BY <1>2, <1>3
  <2>3. result[f].state # "untested"  BY <1>1, <2>1, <2>2 DEF ResultInv
  <2>4. phase # "start"  BY <1>1, <1>2, <1>3 DEF ProgressInv
  <2>5. phase = "done" /\ launched = attempted
    BY <1>1, <1>5, <2>4 DEF Busy, TypeOK, ProgressInv
  <2>6. attempted # 0  BY <1>2, <1>3, <2>5
  <2>7. Ended  BY <1>1, <2>5, <2>6 DEF DoneInv
  <2> QED  BY <1>3, <2>3, <2>5, <2>7 DEF Ended
<1> QED  BY <1>4, <1>5

\* Why a finished search that found something has tested the whole of the tier
\* in which it found it, as far as the budget goes.
LEMMA FoundTierTested ==
  ASSUME IInv, phase = "done", NEW w \in Mounted, NEW f \in Formats,
         Tier(f) <= Tier(w), Rank(f) <= Budget
  PROVE  result[f].state # "untested"
<1>1. RankingInv /\ TypeOK /\ ProgressInv /\ HelperInv /\ ResultInv /\ DoneInv
  BY DEF IInv
<1>2. /\ Count \in Nat
      /\ \A h \in Formats : Rank(h) \in 1..Count /\ Tier(h) \in Nat
  BY <1>1, OrderFacts
<1>3. w \in Formats /\ result[w].state = "mounted"  BY DEF Mounted
<1>4. launched = attempted /\ attempted \in 0..Count  BY <1>1 DEF ProgressInv, TypeOK
<1>5. attempted # 0
  <2>1. Rank(w) <= launched  BY <1>1, <1>3 DEF ResultInv
  <2> QED  BY <1>2, <1>3, <1>4, <2>1
<1>6. Ended  BY <1>1, <1>5 DEF DoneInv
<1>7. Rank(f) <= attempted
  <2>1. CASE attempted = Budget \/ attempted = Count  BY <1>2, <2>1
  <2>2. ASSUME NEW m \in Mounted, \A g \in Formats : Tier(g) <= Tier(m) => Rank(g) <= attempted
        PROVE  Rank(f) <= attempted
    <3>1. m \in Formats /\ result[m].state = "mounted"  BY DEF Mounted
    <3>2. ~(Tier(m) < Tier(w))  BY <1>3, <3>1, BetterInVain
    <3> QED  BY <1>2, <1>3, <2>2, <3>1, <3>2
  <2> QED  BY <1>6, <2>1, <2>2 DEF Ended
<1>8. output[f] = NoOutput  BY <1>1 DEF HelperInv, Busy
<1> QED  BY <1>1, <1>4, <1>7, <1>8 DEF ResultInv

\* "Lower-priority tiers are reached only when no format in a better tier
\* mounts successfully", and the tier that mounts is searched to its end.
THEOREM BetterTiersFirst == Spec => []TiersInOrder
<1>1. ASSUME IInv, phase = "done", Mounted # {}, NEW f \in Formats,
             Tier(f) = Smallest({Tier(g) : g \in Mounted}), Rank(f) <= Budget
      PROVE  result[f].state # "untested"
  <2> DEFINE S == {Tier(g) : g \in Mounted}
  <2>1. \A g \in Formats : Tier(g) \in Nat  BY <1>1, OrderFacts DEF IInv
  <2>2. S \subseteq Nat /\ S # {}  BY <1>1, <2>1 DEF Mounted
  <2>3. Smallest(S) \in S  BY <2>2, SmallestNat
  <2>4. PICK w \in Mounted : Tier(f) = Tier(w)  BY <1>1, <2>3
  <2>5. Tier(f) <= Tier(w)  BY <2>1, <2>4
  <2> QED  BY <1>1, <2>5, FoundTierTested
<1>2. IInv => TiersInOrder
  BY <1>1, BetterInVain DEF TiersInOrder
<1> QED  BY <1>2, Invariance, PTL

\* A score of 70 needs five points besides those for mounting.
LEMMA SelectedScores ==
  ASSUME IInv, NEW f \in selected
  PROVE  f \in Formats /\ PhysicalScore(f) >= 5
<1>1. RankingInv /\ TypeOK /\ ResultInv /\ DoneInv /\ f \in Formats
  BY DEF IInv, TypeOK
<1>2. selected = Selection  BY <1>1 DEF DoneInv, Ended
<1>3. result[f].state = "mounted" /\ result[f].score >= 70
  BY <1>2 DEF Selection, Mounted
<1> DEFINE n == image.fact[f].files
<1>4. result[f].score = MountScore(f, n)  BY <1>1, <1>3 DEF ResultInv
<1>5. n \in Nat /\ Physical(f) \in Int /\ Physical(f) = PhysicalScore(f)
  <2>1. image.fact[f] \in Facts  BY <1>1, FactType DEF RankingInv
  <2>2. Physical(f) \in Int /\ Physical(f) = PhysicalScore(f)
    BY <1>1, OrderFacts DEF Order
  <2> QED  BY <2>1, <2>2 DEF Facts
<1>6. Smallest({n, 10}) \in Nat /\ Smallest({n, 10}) <= 10
  <2>1. {n, 10} \subseteq Nat /\ {n, 10} # {} /\ 10 \in {n, 10}  BY <1>5
  <2>2. Smallest({n, 10}) \in {n, 10} /\ Smallest({n, 10}) <= 10  BY <2>1, SmallestNat
  <2> QED  BY <2>1, <2>2
<1> HIDE DEF n
<1>7. Physical(f) >= 5
  <2> DEFINE e == Smallest({n, 10})
             x == 55 + Physical(f) + e
  <2>1. Clamp(x, 0, 100) >= 70  BY <1>3, <1>4 DEF MountScore
  <2>2. x \in Int  BY <1>5, <1>6
  <2>3. x >= 70
    <3> HIDE DEF x
    <3> QED  BY <2>1, <2>2 DEF Clamp
  <2> QED  BY <2>3, <1>5, <1>6
<1> QED  BY <1>1, <1>5, <1>7

\* A format is never selected on the strength of its directory alone.
THEOREM SelectionNeedsEvidence == Spec => []SelectionHasEvidence
<1>1. ASSUME IInv, NEW f \in selected
      PROVE  LET x == image.fact[f]
             IN  IF image.imd
                 THEN x.exact \/ x.track \/ x.geom > 0 \/ {x.sec, x.spt} # {"none"}
                 ELSE x.exact \/ x.geom = 3 \/ (~x.sized /\ x.geom > 0)
  <2> DEFINE x == image.fact[f]
  <2>1. f \in Formats /\ PhysicalScore(f) >= 5  BY <1>1, SelectedScores
  <2>2. x \in Facts /\ image.imd \in BOOLEAN
    BY <1>1, <2>1, FactType DEF IInv, RankingInv
  <2>3. CASE image.imd
    <3> SUFFICES ASSUME ~x.exact, ~x.track, ~(x.geom > 0), x.sec = "none", x.spt = "none"
                 PROVE  FALSE
      BY <2>2, <2>3 DEF Facts
    <3>1. x.geom = 0  BY <2>2 DEF Facts
    <3>2. /\ Points(x.exact, 60) = 0 /\ Points(x.track, 18) = 0
          /\ Degree(x.sec) = 0 /\ Degree(x.spt) = 0
      BY DEF Points, Degree
    <3>3. PhysicalScore(f) = Clamp(0, -50, 100)  BY <2>3, <3>1, <3>2 DEF PhysicalScore
    <3> QED  BY <2>1, <3>3 DEF Clamp
  <2>4. CASE ~image.imd
    <3> SUFFICES ASSUME ~x.exact, x.geom # 3, x.sized \/ ~(x.geom > 0)
                 PROVE  FALSE
      BY <2>2, <2>4 DEF Facts
    <3>1. Points(x.exact, 55) = 0
          /\ Points(~x.exact /\ x.sized, 25) = (IF x.sized THEN 25 ELSE 0)
      BY DEF Points
    <3> DEFINE y == Points(x.exact, 55) - Points(~x.exact /\ x.sized, 25) + 12 * x.geom
    <3>2. y \in Int /\ y <= 0  BY <2>2, <3>1 DEF Facts
    <3>3. PhysicalScore(f) = Clamp(y, -50, 100)  BY <2>4 DEF PhysicalScore
    <3> HIDE DEF y
    <3> QED  BY <2>1, <3>2, <3>3 DEF Clamp
  <2> QED  BY <2>3, <2>4
<1>2. IInv => SelectionHasEvidence  BY <1>1 DEF SelectionHasEvidence
<1> QED  BY <1>2, Invariance, PTL

\* If no helper failed or came too late, batches, tiers and the order in which
\* helpers finished made no difference: the selection is what the image alone
\* determines.
THEOREM SelectionIsExpected == Spec => []SelectionAsExpected
<1>1. ASSUME IInv, phase = "done", attempted > 0, \A f \in Formats : Undisturbed(f)
      PROVE  selected = Expected
  <2>1. RankingInv /\ TypeOK /\ ProgressInv /\ HelperInv /\ ResultInv /\ DoneInv
    BY <1>1 DEF IInv
  <2>2. /\ Count \in Nat /\ Budget \in Nat
        /\ \A h \in Formats : Rank(h) \in 1..Count /\ Tier(h) \in Nat
    BY <2>1, OrderFacts, ProbeAssumption
  <2>3. attempted \in 0..Count /\ launched = attempted /\ attempted <= Budget
    BY <1>1, <2>1 DEF TypeOK, ProgressInv
  <2>4. Ended  BY <1>1, <2>1, <2>3 DEF DoneInv
  <2>5. \A f \in Formats : result[f].state \in {"untested", "mounted"} \/ ~image.fact[f].mounts
    BY <1>1 DEF Undisturbed
  <2>6. Mounted \subseteq Mountable
    <3>1. ASSUME NEW f \in Mounted
          PROVE  f \in Formats /\ Rank(f) <= Budget /\ image.fact[f].mounts
      <4>1. /\ f \in Formats /\ image.fact[f].mounts /\ Rank(f) <= launched
        BY <2>1, <3>1 DEF Mounted, ResultInv
      <4> QED  BY <2>2, <2>3, <4>1
    <3> QED  BY <3>1 DEF Mountable
  <2>7. Mounted \subseteq Rivals
    <3>1. ASSUME NEW f \in Mounted, NEW g \in Mountable PROVE Tier(f) <= Tier(g)
      <4>1. f \in Formats /\ result[f].state = "mounted" /\ g \in Formats /\ image.fact[g].mounts
        BY <3>1 DEF Mounted, Mountable
      <4>2. ~(Tier(g) < Tier(f))  BY <1>1, <2>5, <4>1, BetterInVain
      <4> QED  BY <2>2, <4>1, <4>2
    <3> QED  BY <2>6, <3>1 DEF Rivals
  <2>8. Rivals \subseteq Mounted
    <3> SUFFICES ASSUME NEW f \in Rivals PROVE f \in Mounted  OBVIOUS
    <3>1. f \in Formats /\ Rank(f) <= Budget /\ image.fact[f].mounts
      BY DEF Rivals, Mountable
    <3>2. result[f].state # "untested"
      <4>1. CASE attempted = Budget \/ attempted = Count
        <5>1. Rank(f) <= launched  BY <2>2, <2>3, <3>1, <4>1
        <5>2. output[f] = NoOutput  BY <1>1, <2>1, <3>1 DEF HelperInv, Busy
        <5> QED  BY <2>1, <3>1, <5>1, <5>2 DEF ResultInv
      <4>2. CASE \E m \in Mounted : TRUE
        <5>1. PICK m \in Mounted : TRUE  BY <4>2
        <5>2. Tier(f) <= Tier(m)  BY <2>6, <5>1 DEF Rivals
        <5> QED  BY <1>1, <3>1, <5>1, <5>2, FoundTierTested
      <4> QED  BY <2>4, <4>1, <4>2 DEF Ended
    <3> QED  BY <2>5, <3>1, <3>2 DEF Mounted
  <2>9. Rivals = Mounted  BY <2>7, <2>8
  <2>10. \A f \in Mounted : result[f].score = Score(f)
    BY <2>1 DEF Mounted, ResultInv, Score
  <2>11. Expected = Selection
    <3>1. \A f, g \in Mounted : /\ result[f].score = Score(f) /\ result[g].score = Score(g)
      BY <2>10
    <3> QED  BY <2>9, <3>1 DEF Expected, Selection
  <2> QED  BY <2>4, <2>11 DEF Ended
<1>2. IInv => SelectionAsExpected  BY <1>1 DEF SelectionAsExpected
<1> QED  BY <1>2, Invariance, PTL

==============================================================================
