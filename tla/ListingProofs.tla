----------------------------- MODULE ListingProofs -----------------------------
(***************************************************************************)
(* What is proved of ListingStore and of DealFilter for every value of     *)
(* their constants.                                                        *)
(*                                                                         *)
(* ListingStore: its types, that an article with a date is announced once, *)
(* and that the table with all that works on it implements Announcements.  *)
(* The argument: a row is never older than its article, so a row that the  *)
(* retention deletes stands for an article that is too old to be announced *)
(* again; hence what was announced is marked in its row or too old.        *)
(*                                                                         *)
(* DealFilter: a better offer is never rejected where a worse one is       *)
(* posted.  The argument: the verdict goes by the price and the age in     *)
(* three places only, the limit of age, the most that may be paid and the  *)
(* score; the rule is one of the configuration or the median of some, so   *)
(* that both scores are fractions over the same positive number, and each  *)
(* of their terms falls with the price and the age.                        *)
(***************************************************************************)
EXTENDS ListingStore, DealFilter, FiniteSetTheorems, NaturalsInduction, WellFoundedInduction,
        TLAPS

-----------------------------------------------------------------------------
(* ListingStore *)

RowsYounger == \A a \in held : first[a] <= age[a]

Remembered == \A a \in Dated : alerts[a] >= 1 => a \in posted \/ age[a] > MaxListingAge

StoreInv == StoreTypeOK /\ RowsYounger /\ Remembered /\ AlertedOnce

-----------------------------------------------------------------------------

LEMMA LaterFact ==
    ASSUME NEW x \in 0 .. Old
    PROVE  Later(x) \in 0 .. Old /\ x <= Later(x) /\ \A y \in 0 .. Old : x <= y => Later(x) <= Later(y)
  BY KeepAssumption DEF Later

LEMMA LaterAllFact ==
    ASSUME NEW f \in [Article -> 0 .. Old], NEW S
    PROVE  LaterAll(f, S) \in [Article -> 0 .. Old]
<1>1. \A a \in Article : Later(f[a]) \in 0 .. Old
  BY LaterFact
<1> QED
  BY <1>1 DEF LaterAll

LEMMA ZeroFact ==
    ASSUME NEW f \in [Article -> 0 .. Old], NEW S
    PROVE  Zero(f, S) \in [Article -> 0 .. Old]
  BY KeepAssumption DEF Zero

(* Whatever the tier, what is deleted is older than what may be announced. *)
LEMMA KeptFact ==
    ASSUME NEW t \in Tier, NEW keep \in Kept(t)
    PROVE  keep \in Nat /\ keep > MaxListingAge
<1>1. Keep[t] \in Nat /\ MaxListingAge < Keep[t] /\ MaxListingAge < ReclaimFloor
      /\ MaxListingAge \in Nat /\ ReclaimFloor \in Nat
  BY KeepAssumption
<1>2. keep = Keep[t] \/ keep \in ReclaimFloor .. Keep[t]
  BY DEF Kept
<1> QED
  BY <1>1, <1>2

-----------------------------------------------------------------------------

LEMMA StoreTypeStep == StoreTypeOK /\ [StoreNext]_lvars => StoreTypeOK'
<1> SUFFICES ASSUME StoreTypeOK, [StoreNext]_lvars PROVE StoreTypeOK'
  OBVIOUS
<1> USE DEF StoreTypeOK
<1>1. ASSUME NEW a \in Article, Publish(a) PROVE StoreTypeOK'
  BY <1>1 DEF Publish
<1>2. ASSUME NEW a \in Article, Leave(a) PROVE StoreTypeOK'
  BY <1>2 DEF Leave
<1>3. ASSUME NEW S \in SUBSET sale, UpsertListings(S) PROVE StoreTypeOK'
  <2>1. /\ first' \in [Article -> 0 .. Old] /\ seen' \in [Article -> 0 .. Old]
        /\ left' \in [Article -> 0 .. Old]
    BY <1>3, ZeroFact DEF UpsertListings
  <2> QED
    BY <1>3, <2>1 DEF UpsertListings
<1>4. ASSUME NEW Q \in SUBSET Article, AnnouncePage(Q) PROVE StoreTypeOK'
  <2>1. alerts' \in [Article -> Nat]
    BY <1>4 DEF AnnouncePage
  <2> QED
    BY <1>4, <2>1 DEF AnnouncePage, Unposted
<1>5. CASE Reconcile
  <2>1. left' \in [Article -> 0 .. Old]
    BY <1>5, ZeroFact DEF Reconcile
  <2> QED
    BY <1>5, <2>1 DEF Reconcile
<1>6. CASE Retain
  BY <1>6 DEF Retain
<1>7. CASE StoreTick
  <2>1. /\ age' \in [Article -> 0 .. Old] /\ first' \in [Article -> 0 .. Old]
        /\ seen' \in [Article -> 0 .. Old] /\ left' \in [Article -> 0 .. Old]
    BY <1>7, LaterAllFact DEF StoreTick
  <2> QED
    BY <1>7, <2>1 DEF StoreTick
<1>8. CASE UNCHANGED lvars
  BY <1>8 DEF lvars
<1> QED
  BY <1>1, <1>2, <1>3, <1>4, <1>5, <1>6, <1>7, <1>8 DEF StoreNext

(* The variables keep their types. *)
THEOREM StoreTypeAlways == StoreSpec => []StoreTypeOK
<1>1. StoreInit => StoreTypeOK
  BY KeepAssumption DEF StoreInit, StoreTypeOK
<1> QED
  BY <1>1, StoreTypeStep, PTL DEF StoreSpec

-----------------------------------------------------------------------------

LEMMA YoungerStep ==
    ASSUME StoreTypeOK, RowsYounger, [StoreNext]_lvars
    PROVE  RowsYounger'
<1> USE DEF StoreTypeOK, RowsYounger
<1>1. ASSUME NEW S \in SUBSET sale, UpsertListings(S) PROVE RowsYounger'
  BY <1>1, KeepAssumption DEF UpsertListings, Zero
<1>2. CASE Retain
  BY <1>2 DEF Retain
<1>3. CASE StoreTick
  <2>1. ASSUME NEW a \in held PROVE first'[a] <= age'[a]
    <3>1. first'[a] = Later(first[a]) /\ age'[a] = Later(age[a])
      BY <1>3, <2>1 DEF StoreTick, LaterAll
    <3> QED
      BY <3>1, <2>1, LaterFact
  <2> QED
    BY <1>3, <2>1 DEF StoreTick
<1>4. ASSUME NEW a \in Article, Publish(a) \/ Leave(a) PROVE RowsYounger'
  BY <1>4 DEF Publish, Leave
<1>5. ASSUME NEW Q \in SUBSET Article, AnnouncePage(Q) PROVE RowsYounger'
  BY <1>5 DEF AnnouncePage
<1>6. CASE Reconcile \/ UNCHANGED lvars
  BY <1>6 DEF Reconcile, lvars
<1> QED
  BY <1>1, <1>2, <1>3, <1>4, <1>5, <1>6 DEF StoreNext

LEMMA RememberedStep ==
    ASSUME StoreTypeOK, RowsYounger, Remembered, [StoreNext]_lvars
    PROVE  Remembered'
<1> USE DEF StoreTypeOK, Remembered
<1>1. ASSUME NEW S \in SUBSET sale, UpsertListings(S) PROVE Remembered'
  BY <1>1 DEF UpsertListings
<1>2. CASE Retain
  <2>1. PICK t \in Tier : \E keep \in Kept(t) : posted' = posted \ Expired(keep)
    BY <1>2 DEF Retain
  <2>a. PICK keep \in Kept(t) : posted' = posted \ Expired(keep)
    BY <2>1
  <2>2. keep \in Nat /\ keep > MaxListingAge /\ MaxListingAge \in Nat
    BY KeptFact, KeepAssumption
  <2>3. ASSUME NEW a \in Dated, a \in Expired(keep) PROVE age[a] > MaxListingAge
    <3>1. first[a] >= keep /\ first[a] <= age[a] /\ age[a] \in Nat /\ first[a] \in Nat
      BY <2>3, ArticleAssumption DEF Expired, RowsYounger
    <3> QED
      BY <3>1, <2>2
  <2> QED
    BY <1>2, <2>a, <2>3 DEF Retain
<1>3. CASE StoreTick
  <2>1. ASSUME NEW a \in Dated PROVE age'[a] >= age[a]
    <3>1. age'[a] = age[a] \/ age'[a] = Later(age[a])
      BY <1>3, ArticleAssumption DEF StoreTick, LaterAll
    <3>2. age[a] \in 0 .. Old
      BY ArticleAssumption
    <3> QED
      BY <3>1, <3>2, LaterFact
  <2>2. \A a \in Dated : age[a] \in Nat /\ age'[a] \in Int
    BY <1>3, StoreTypeStep, ArticleAssumption DEF StoreNext
  <2> QED
    BY <1>3, <2>1, <2>2, KeepAssumption DEF StoreTick
<1>4. ASSUME NEW a \in Article, Publish(a) \/ Leave(a) PROVE Remembered'
  BY <1>4 DEF Publish, Leave
<1>5. ASSUME NEW Q \in SUBSET Article, AnnouncePage(Q) PROVE Remembered'
  BY <1>5, ArticleAssumption DEF AnnouncePage
<1>6. CASE Reconcile \/ UNCHANGED lvars
  BY <1>6 DEF Reconcile, lvars
<1> QED
  BY <1>1, <1>2, <1>3, <1>4, <1>5, <1>6 DEF StoreNext

(* What is announced was not announced before. *)
LEMMA FirstTime ==
    ASSUME StoreTypeOK, Remembered, NEW Q, AnnouncePage(Q), NEW a \in Q, a \in Dated
    PROVE  alerts[a] = 0 /\ age[a] <= MaxListingAge
<1>1. a \notin posted /\ ~(age[a] > MaxListingAge)
  BY DEF AnnouncePage, Unposted, TooLate
<1>2. ~(alerts[a] >= 1)
  BY <1>1 DEF Remembered
<1>3. alerts[a] \in Nat /\ age[a] \in Nat /\ MaxListingAge \in Nat
  BY ArticleAssumption, KeepAssumption DEF StoreTypeOK
<1> QED
  BY <1>1, <1>2, <1>3

LEMMA OnceStep ==
    ASSUME StoreTypeOK, Remembered, AlertedOnce, [StoreNext]_lvars
    PROVE  AlertedOnce'
<1>1. ASSUME NEW Q \in SUBSET Article, AnnouncePage(Q) PROVE AlertedOnce'
  BY <1>1, FirstTime, ArticleAssumption DEF AlertedOnce, AnnouncePage
<1>2. CASE UNCHANGED alerts
  BY <1>2 DEF AlertedOnce
<1>3. (\E Q \in SUBSET Article : AnnouncePage(Q)) \/ UNCHANGED alerts
  BY DEF StoreNext, Publish, Leave, UpsertListings, Reconcile, Retain, StoreTick, lvars
<1> QED
  BY <1>1, <1>2, <1>3

LEMMA StoreInvAlways == StoreSpec => []StoreInv
<1>1. StoreInit => RowsYounger /\ Remembered /\ AlertedOnce
  BY ArticleAssumption DEF StoreInit, RowsYounger, Remembered, AlertedOnce
<1>2. StoreInit => StoreTypeOK
  BY KeepAssumption DEF StoreInit, StoreTypeOK
<1>3. StoreInv /\ [StoreNext]_lvars => StoreInv'
  BY StoreTypeStep, YoungerStep, RememberedStep, OnceStep DEF StoreInv
<1> QED
  BY <1>1, <1>2, <1>3, PTL DEF StoreSpec, StoreInv

(* An article with a date is announced once, whatever the retention deletes. *)
THEOREM AlertedOnceAlways == StoreSpec => []AlertedOnce
  BY StoreInvAlways, PTL DEF StoreInv

-----------------------------------------------------------------------------
(* The refinement. *)

LEMMA PromiseStep ==
    ASSUME StoreInv, [StoreNext]_lvars
    PROVE  [Promise!Announce \/ Promise!GetOld]_(Promise!avars)
<1> USE DEF StoreInv
<1> DEFINE told == [a \in Dated |-> alerts[a]]
           new == {a \in Dated : age[a] <= MaxListingAge}
<1>1. ASSUME NEW Q \in SUBSET Article, AnnouncePage(Q) PROVE Promise!Announce
  <2> DEFINE S == Q \cap Dated
  <2>1. S \in SUBSET {a \in new : told[a] = 0}
    BY <1>1, FirstTime
  <2>2. told' = [a \in Dated |-> IF a \in S THEN 1 ELSE told[a]]
    BY <1>1, FirstTime, ArticleAssumption DEF AnnouncePage, StoreTypeOK
  <2>3. UNCHANGED new
    BY <1>1 DEF AnnouncePage
  <2> QED
    BY <2>1, <2>2, <2>3 DEF Promise!Announce
<1>2. CASE StoreTick
  <2>1. ASSUME NEW a \in Dated, age'[a] <= MaxListingAge PROVE age[a] <= MaxListingAge
    <3>1. age'[a] = age[a] \/ age'[a] = Later(age[a])
      BY <1>2, ArticleAssumption DEF StoreTick, LaterAll, StoreTypeOK
    <3>2. age[a] \in 0 .. Old /\ MaxListingAge \in Nat
      BY ArticleAssumption, KeepAssumption DEF StoreTypeOK
    <3>3. age[a] <= age'[a] /\ age'[a] \in 0 .. Old
      BY <3>1, <3>2, LaterFact
    <3> QED
      BY <2>1, <3>2, <3>3
  <2>2. new' \subseteq new /\ UNCHANGED told
    BY <1>2, <2>1 DEF StoreTick
  <2> QED
    BY <2>2 DEF Promise!GetOld
<1>3. CASE UNCHANGED <<alerts, age>>
  BY <1>3 DEF Promise!avars
<1>4. \/ \E Q \in SUBSET Article : AnnouncePage(Q)
      \/ StoreTick
      \/ UNCHANGED <<alerts, age>>
  BY DEF StoreNext, Publish, Leave, UpsertListings, Reconcile, Retain, lvars
<1> QED
  BY <1>1, <1>2, <1>3, <1>4

(* Every behaviour of the table is one that the promise allows. *)
THEOREM StoreKeepsPromise == StoreSpec => AnnouncedAsPromised
<1>1. StoreInit => Promise!AnnounceInit
  <2>1. ASSUME StoreInit PROVE [a \in Dated |-> alerts[a]] = [a \in Dated |-> 0]
                               /\ {a \in Dated : age[a] <= MaxListingAge} = Dated
    BY <2>1, ArticleAssumption, KeepAssumption DEF StoreInit
  <2> QED
    BY <2>1 DEF Promise!AnnounceInit
<1>2. StoreInv /\ [StoreNext]_lvars => [Promise!Announce \/ Promise!GetOld]_(Promise!avars)
  BY PromiseStep
<1> QED
  BY <1>1, <1>2, StoreInvAlways, PTL DEF StoreSpec, Promise!AnnounceSpec, AnnouncedAsPromised

-----------------------------------------------------------------------------
(* DealFilter: the greatest and the least of finite sets. *)

\* What has the greatest value: the one that has the most others under it.
LEMMA Heaviest ==
    ASSUME NEW S, IsFiniteSet(S), S # {}, NEW v \in [S -> Int]
    PROVE  \E x \in S : \A y \in S : v[x] >= v[y]
<1> DEFINE Lighter(x) == {y \in S : v[y] < v[x]}
<1>1. PICK n \in Nat : n = Cardinality(S)
  BY FS_CardinalityType
<1>2. \A x \in S : Cardinality(Lighter(x)) \in Nat /\ Cardinality(Lighter(x)) <= n
  <2>1. SUFFICES ASSUME NEW x \in S
                 PROVE  Cardinality(Lighter(x)) \in Nat /\ Cardinality(Lighter(x)) <= n
    OBVIOUS
  <2>2. Lighter(x) \in SUBSET S
    OBVIOUS
  <2>3. IsFiniteSet(Lighter(x)) /\ Cardinality(Lighter(x)) <= Cardinality(S)
    BY <2>2, FS_Subset
  <2> QED
    BY <2>3, <1>1, FS_CardinalityType
<1> DEFINE Above == {n - Cardinality(Lighter(x)) : x \in S}
<1>3. Above \subseteq Nat /\ Above # {}
  <2> HIDE DEF Lighter
  <2>1. \A x \in S : n - Cardinality(Lighter(x)) \in Nat
    BY <1>1, <1>2
  <2> QED
    BY <2>1
<1> DEFINE Less == {p \in Nat \X Nat : p[1] < p[2]}
<1>4. IsWellFoundedOn(Less, Nat)
  <2>1. Less = OpToRel(<, Nat)
    BY Zenon DEF OpToRel
  <2> QED
    BY <2>1, NatLessThanWellFounded, Zenon
<1>5. PICK m \in Above : \A k \in Above : ~(k < m)
  <2> HIDE DEF Above
  <2>1. PICK m \in Above : \A k \in Above : <<k, m>> \notin Less
    BY <1>3, <1>4, WFMin, Zenon
  <2> QED
    BY <2>1, <1>3
<1>6. PICK x \in S : m = n - Cardinality(Lighter(x))
  BY <1>5
<1>7. ASSUME NEW y \in S, ~(v[x] >= v[y])
      PROVE  FALSE
  <2>1. Lighter(x) \cup {x} \subseteq Lighter(y) /\ x \notin Lighter(x)
    BY <1>7
  <2>2. IsFiniteSet(Lighter(x)) /\ IsFiniteSet(Lighter(y))
    <3>1. Lighter(x) \in SUBSET S /\ Lighter(y) \in SUBSET S
      OBVIOUS
    <3> QED
      BY <3>1, FS_Subset
  <2> HIDE DEF Lighter
  <2>3. Cardinality(Lighter(x) \cup {x}) = Cardinality(Lighter(x)) + 1
    BY <2>1, <2>2, FS_AddElement
  <2>4. Cardinality(Lighter(x) \cup {x}) <= Cardinality(Lighter(y))
    BY <2>1, <2>2, FS_Subset
  <2>5. n - Cardinality(Lighter(y)) \in Above
    OBVIOUS
  <2>6. ~(n - Cardinality(Lighter(y)) < m)
    BY <2>5, <1>5
  <2> QED
    BY <2>3, <2>4, <2>6, <1>1, <1>2, <1>6
<1> QED
  BY <1>7

(* Min is the least element of a finite set of integers. *)
LEMMA Smallest ==
    ASSUME NEW S \in SUBSET Int, IsFiniteSet(S), S # {}
    PROVE  Min(S) \in S /\ \A y \in S : Min(S) <= y
<1> DEFINE v == [y \in S |-> 0 - y]
<1>1. v \in [S -> Int] /\ \A y \in S : v[y] = 0 - y /\ y \in Int
  OBVIOUS
<1>2. \E x \in S : \A y \in S : v[x] >= v[y]
  <2> HIDE DEF v
  <2> QED
    BY <1>1, Heaviest
<1>3. PICK x \in S : \A y \in S : v[x] >= v[y]
  BY <1>2
<1>4. \A y \in S : x <= y
  <2> HIDE DEF v
  <2> QED
    BY <1>1, <1>3
<1> QED
  BY <1>4 DEF Min

(* Max is the greatest. *)
LEMMA Greatest ==
    ASSUME NEW S \in SUBSET Int, IsFiniteSet(S), S # {}
    PROVE  Max(S) \in S /\ \A y \in S : Max(S) >= y
<1> DEFINE v == [y \in S |-> y]
<1>1. v \in [S -> Int] /\ \A y \in S : v[y] = y /\ y \in Int
  OBVIOUS
<1>2. PICK x \in S : \A y \in S : v[x] >= v[y]
  <2> HIDE DEF v
  <2> QED
    BY <1>1, Heaviest
<1>3. \A y \in S : x >= y
  <2> HIDE DEF v
  <2> QED
    BY <1>1, <1>2
<1> QED
  BY <1>3 DEF Max

LEMMA Pair ==
    ASSUME NEW x \in Int, NEW y \in Int
    PROVE  /\ Min({x, y}) = IF x <= y THEN x ELSE y
           /\ Max({x, y}) = IF x <= y THEN y ELSE x
  BY DEF Min, Max

-----------------------------------------------------------------------------
(* Products, quotients and what the score makes of them grow with what they *)
(* are made from.                                                           *)

LEMMA Product ==
    ASSUME NEW x \in Int, NEW y \in Int, NEW c \in Nat, x <= y
    PROVE  x * c \in Int /\ y * c \in Int /\ x * c <= y * c
<1>1. y * c = x * c + (y - x) * c
  OBVIOUS
<1>2. (y - x) * c >= 0
  OBVIOUS
<1> QED
  BY <1>1, <1>2

LEMMA Quotient ==
    ASSUME NEW x \in Int, NEW y \in Int, NEW d \in Nat \ {0}, x <= y
    PROVE  x \div d \in Int /\ y \div d \in Int /\ x \div d <= y \div d
<1>1. PICK q \in Int : q = x \div d /\ d * q <= x /\ x < d * q + d
  OBVIOUS
<1>2. PICK r \in Int : r = y \div d /\ d * r <= y /\ y < d * r + d
  OBVIOUS
<1>3. ASSUME r < q
      PROVE  FALSE
  <2>1. (r + 1) * d <= q * d
    BY <1>3, Product
  <2>2. d * q = q * d /\ (r + 1) * d = d * r + d
    OBVIOUS
  <2> QED
    BY <1>1, <1>2, <2>1, <2>2
<1> QED
  BY <1>1, <1>2, <1>3

LEMMA RoundGrows ==
    ASSUME NEW m \in Int, NEW n \in Int, NEW d \in Nat \ {0}, m <= n
    PROVE  Round(m, d) \in Int /\ Round(n, d) \in Int /\ Round(m, d) <= Round(n, d)
<1>1. 2 * d \in Nat \ {0} /\ 2 * m + d \in Int /\ 2 * n + d \in Int /\ 2 * m + d <= 2 * n + d
  OBVIOUS
<1> QED
  BY <1>1, Quotient DEF Round

LEMMA PercentGrows ==
    ASSUME NEW f \in Nat, NEW m \in Int, NEW n \in Int, NEW d \in Nat, m <= n
    PROVE  /\ Percent(f, m, d) \in Nat /\ Percent(f, n, d) \in Nat
           /\ Percent(f, m, d) <= Percent(f, n, d)
<1>1. PICK cap \in Nat : cap = 100 * d
  OBVIOUS
<1>2. PICK fm \in Int : fm = f * m /\ fm = m * f
  OBVIOUS
<1>3. PICK fn \in Int : fn = f * n /\ fn = n * f
  OBVIOUS
<1>4. fm <= fn
  BY <1>2, <1>3, Product
<1>5. (0 < m => 0 <= fm) /\ (0 < n => 0 <= fn)
  BY <1>2, <1>3
<1>6. /\ Percent(f, m, d) = IF m <= 0 THEN 0 ELSE IF cap <= fm THEN cap ELSE fm
      /\ Percent(f, n, d) = IF n <= 0 THEN 0 ELSE IF cap <= fn THEN cap ELSE fn
  BY <1>1, <1>2, <1>3, Pair DEF Percent
<1> QED
  BY <1>1, <1>4, <1>5, <1>6

\* A younger listing has no fewer points for its freshness.
LEMMA FreshnessFalls ==
    ASSUME NEW s \in Nat, NEW t \in Nat, s <= t, s # NoValue, t # NoValue
    PROVE  Freshness(s) \in Nat /\ Freshness(t) \in Nat /\ Freshness(t) <= Freshness(s)
<1> DEFINE Fits(a) == {u \in DOMAIN Scoring.freshness : a <= u}
<1>1. /\ Fits(s) \in SUBSET Int /\ Fits(t) \in SUBSET Int /\ Fits(t) \subseteq Fits(s)
      /\ Fits(s) \in SUBSET DOMAIN Scoring.freshness
      /\ Fits(t) \in SUBSET DOMAIN Scoring.freshness
  BY ScoringAssumption
<1>2. IsFiniteSet(Fits(s)) /\ IsFiniteSet(Fits(t))
  BY <1>1, ScoringAssumption, FS_Subset
<1>3. /\ Freshness(s) = IF Fits(s) = {} THEN 0 ELSE 10 * Scoring.freshness[Min(Fits(s))]
      /\ Freshness(t) = IF Fits(t) = {} THEN 0 ELSE 10 * Scoring.freshness[Min(Fits(t))]
  BY DEF Freshness
<1> HIDE DEF Fits
<1>4. Fits(s) # {} => Min(Fits(s)) \in Fits(s) /\ \A y \in Fits(s) : Min(Fits(s)) <= y
  BY <1>1, <1>2, Smallest
<1>5. Fits(t) # {} => Min(Fits(t)) \in Fits(t)
  BY <1>1, <1>2, Smallest
<1>6. CASE Fits(t) = {}
  BY <1>1, <1>3, <1>4, <1>6, ScoringAssumption
<1>7. CASE Fits(t) # {}
  <2>1. PICK i \in DOMAIN Scoring.freshness : i = Min(Fits(t)) /\ i \in Fits(s)
    BY <1>1, <1>5, <1>7
  <2>2. PICK j \in DOMAIN Scoring.freshness : j = Min(Fits(s)) /\ j <= i
    BY <1>1, <1>4, <2>1
  <2>3. /\ Scoring.freshness[i] \in Nat /\ Scoring.freshness[j] \in Nat
        /\ Scoring.freshness[i] <= Scoring.freshness[j]
    BY <2>2, ScoringAssumption
  <2> QED
    BY <1>1, <1>3, <1>7, <2>1, <2>2, <2>3
<1> QED
  BY <1>6, <1>7

-----------------------------------------------------------------------------
(* The score.  Both prices have the same rule, so the fractions that are    *)
(* compared have the same denominator.                                      *)

Weights == Scoring.weights
Total == Weights.margin + Weights.below + Weights.brand + Weights.rarity
            + Weights.category + Weights.freshness

LEMMA TotalFact ==
    /\ Total \in Nat \ {0}
    /\ Weights.margin \in Nat /\ Weights.below \in Nat /\ Weights.brand \in Nat
    /\ Weights.rarity \in Nat /\ Weights.category \in Nat /\ Weights.freshness \in Nat
<1>1. \A k \in Term : Weights[k] \in Nat
  BY ScoringAssumption DEF Weights
<1>2. /\ Weights.margin \in Nat /\ Weights.below \in Nat /\ Weights.brand \in Nat
      /\ Weights.rarity \in Nat /\ Weights.category \in Nat /\ Weights.freshness \in Nat
  BY <1>1 DEF Term
<1>3. PICK k \in Term : Weights[k] > 0
  BY ScoringAssumption DEF Weights
<1>4. /\ Weights["margin"] = Weights.margin /\ Weights["below"] = Weights.below
      /\ Weights["brand"] = Weights.brand /\ Weights["rarity"] = Weights.rarity
      /\ Weights["category"] = Weights.category /\ Weights["freshness"] = Weights.freshness
  OBVIOUS
<1>5. \/ Weights.margin > 0 \/ Weights.below > 0 \/ Weights.brand > 0
      \/ Weights.rarity > 0 \/ Weights.category > 0 \/ Weights.freshness > 0
  BY <1>3, <1>4 DEF Term
<1> QED
  <2>1. PICK a \in Nat, b \in Nat, c \in Nat :
             a = Weights.margin /\ b = Weights.below /\ c = Weights.brand
    BY <1>2
  <2>2. PICK d \in Nat, e \in Nat, f \in Nat :
             d = Weights.rarity /\ e = Weights.category /\ f = Weights.freshness
    BY <1>2
  <2>3. Total = a + b + c + d + e + f
    BY <2>1, <2>2 DEF Total
  <2>4. a > 0 \/ b > 0 \/ c > 0 \/ d > 0 \/ e > 0 \/ f > 0
    BY <1>5, <2>1, <2>2, Zenon
  <2>5. a + b + c + d + e + f \in Nat \ {0}
    BY <2>4
  <2> QED
    BY <1>2, <2>3, <2>5

LEMMA Clamp ==
    ASSUME NEW x \in Int
    PROVE  Max({0, Min({100, x})}) = IF x < 0 THEN 0 ELSE IF x > 100 THEN 100 ELSE x
<1>1. PICK i \in Int : i = Min({100, x}) /\ i = IF 100 <= x THEN 100 ELSE x
  BY Pair
<1>2. Max({0, i}) = IF 0 <= i THEN i ELSE 0
  BY <1>1, Pair
<1> QED
  BY <1>1, <1>2

LEMMA Clamped ==
    ASSUME NEW m \in Int, NEW n \in Int, n <= m
    PROVE  /\ Max({0, Min({100, m})}) \in Nat /\ Max({0, Min({100, n})}) \in Nat
           /\ Max({0, Min({100, n})}) <= Max({0, Min({100, m})})
<1>1. PICK i \in Int : /\ i = Max({0, Min({100, m})})
                       /\ i = IF m < 0 THEN 0 ELSE IF m > 100 THEN 100 ELSE m
  BY Clamp
<1>2. PICK j \in Int : /\ j = Max({0, Min({100, n})})
                       /\ j = IF n < 0 THEN 0 ELSE IF n > 100 THEN 100 ELSE n
  BY Clamp
<1>3. i \in Nat /\ j \in Nat /\ j <= i
  BY <1>1, <1>2
<1> QED
  BY <1>1, <1>2, <1>3

\* The cheaper and fresher of two offers has no lower score.
LEMMA ScoreGrows ==
    ASSUME NEW rule, IsRule(rule), NEW maxBuy \in Nat \ {0}, NEW brandScore \in Nat,
           NEW guessed \in BOOLEAN,
           NEW p \in Nat, NEW q \in Nat, p <= q,
           NEW s, NEW t, Freshness(s) \in Nat, Freshness(t) \in Nat, Freshness(t) <= Freshness(s)
    PROVE  /\ ScoreDeal(p, rule, maxBuy, brandScore, s, guessed) \in Nat
           /\ ScoreDeal(q, rule, maxBuy, brandScore, t, guessed) \in Nat
           /\ ScoreDeal(q, rule, maxBuy, brandScore, t, guessed)
                 <= ScoreDeal(p, rule, maxBuy, brandScore, s, guessed)
<1> DEFINE Profit(x) == (rule.resell - x) * maxBuy
           unit == rule.resell * maxBuy
           Margin(x) == Percent(140, Profit(x), unit)
           Off(x) == Percent(130, Profit(x), unit)
           Below(x) == Min({100 * unit, Off(x) + Steal(x, rule, maxBuy)})
           kept == brandScore * Weights.brand + Scoring.rarity[rule.rarity] * Weights.rarity
                      + (IF guessed THEN 55 ELSE 100) * Weights.category
           Points(x, a) == Margin(x) * Weights.margin + Below(x) * Weights.below
                              + unit * (kept + Freshness(a) * Weights.freshness)
           Score(x, a) == Max({0, Min({100, Round(Points(x, a), unit * Total)})})
<1>1. rule.resell \in Nat \ {0} /\ rule.rarity \in DOMAIN Scoring.rarity
  BY DEF IsRule
<1>2. unit \in Nat \ {0}
  BY <1>1
<1>3. Profit(p) \in Int /\ Profit(q) \in Int /\ Profit(q) <= Profit(p)
  <2>1. rule.resell - q <= rule.resell - p /\ rule.resell - q \in Int /\ rule.resell - p \in Int
    BY <1>1
  <2> QED
    BY <2>1, Product
<1>4. /\ Steal(p, rule, maxBuy) \in Int /\ Steal(q, rule, maxBuy) \in Int
      /\ Steal(q, rule, maxBuy) <= Steal(p, rule, maxBuy)
  <2>1. /\ 15 * (maxBuy - q) <= 15 * (maxBuy - p)
        /\ 15 * (maxBuy - q) \in Int /\ 15 * (maxBuy - p) \in Int
    OBVIOUS
  <2> QED
    BY <2>1, <1>1, Product DEF Steal
<1>5. /\ Margin(p) \in Nat /\ Margin(q) \in Nat /\ Margin(q) <= Margin(p)
      /\ Off(p) \in Nat /\ Off(q) \in Nat /\ Off(q) <= Off(p)
  <2>1. PICK a \in Int, b \in Int : a = Profit(p) /\ b = Profit(q) /\ b <= a
    BY <1>3
  <2>2. PICK d \in Nat : d = unit
    BY <1>2
  <2> HIDE DEF Profit, unit, Margin, Off
  <2>3. /\ Percent(140, a, d) \in Nat /\ Percent(140, b, d) \in Nat
        /\ Percent(140, b, d) <= Percent(140, a, d)
    BY <2>1, <2>2, PercentGrows
  <2>4. /\ Percent(130, a, d) \in Nat /\ Percent(130, b, d) \in Nat
        /\ Percent(130, b, d) <= Percent(130, a, d)
    BY <2>1, <2>2, PercentGrows
  <2> QED
    BY <2>1, <2>2, <2>3, <2>4 DEF Margin, Off
<1>6. Below(p) \in Int /\ Below(q) \in Int /\ Below(q) <= Below(p)
  <2>1. PICK cap \in Nat : cap = 100 * unit
    BY <1>2
  <2> HIDE DEF unit, Off
  <2>2. \A x \in {p, q} : /\ Off(x) + Steal(x, rule, maxBuy) \in Int
                          /\ Below(x) = IF cap <= Off(x) + Steal(x, rule, maxBuy)
                                        THEN cap ELSE Off(x) + Steal(x, rule, maxBuy)
    BY <1>4, <1>5, <2>1, Pair
  <2> HIDE DEF Below
  <2> QED
    BY <1>4, <1>5, <2>1, <2>2
<1>7. kept \in Nat
  <2>1. Scoring.rarity[rule.rarity] \in Nat
    BY <1>1, ScoringAssumption
  <2>2. \A a \in Nat, b \in Nat : a * b \in Nat
    OBVIOUS
  <2> QED
    BY <2>1, <2>2, TotalFact
<1>8. /\ Points(p, s) \in Int /\ Points(q, t) \in Int /\ Points(q, t) <= Points(p, s)
  <2> HIDE DEF Margin, Below, unit, kept
  <2>1. PICK m \in Int, n \in Int : /\ m = Margin(p) * Weights.margin
                                    /\ n = Margin(q) * Weights.margin /\ n <= m
    BY <1>5, TotalFact, Product
  <2>2. PICK b \in Int, c \in Int : /\ b = Below(p) * Weights.below
                                    /\ c = Below(q) * Weights.below /\ c <= b
    BY <1>6, TotalFact, Product
  <2>3. PICK f \in Int, g \in Int : /\ f = Freshness(s) * Weights.freshness
                                    /\ g = Freshness(t) * Weights.freshness /\ g <= f
    BY TotalFact, Product
  <2>4. PICK u \in Int, v \in Int : /\ u = unit * (kept + f) /\ v = unit * (kept + g) /\ v <= u
    <3>1. kept + g <= kept + f /\ kept + g \in Int /\ kept + f \in Int /\ unit \in Nat
      BY <1>2, <1>7, <2>3
    <3>2. /\ (kept + g) * unit \in Int /\ (kept + f) * unit \in Int
          /\ (kept + g) * unit <= (kept + f) * unit
      BY <3>1, Product
    <3>3. (kept + g) * unit = unit * (kept + g) /\ (kept + f) * unit = unit * (kept + f)
      BY <3>1
    <3> QED
      BY <3>2, <3>3
  <2>5. Points(p, s) = m + b + u /\ Points(q, t) = n + c + v
    BY <2>1, <2>2, <2>3, <2>4
  <2> HIDE DEF Points
  <2> QED
    BY <2>1, <2>2, <2>4, <2>5
<1>9. unit * Total \in Nat \ {0}
  BY <1>2, TotalFact
<1>10. Score(p, s) \in Nat /\ Score(q, t) \in Nat /\ Score(q, t) <= Score(p, s)
  <2>1. PICK m \in Int, n \in Int : /\ m = Round(Points(p, s), unit * Total)
                                    /\ n = Round(Points(q, t), unit * Total) /\ n <= m
    <3> HIDE DEF Points, unit
    <3> QED
      BY <1>8, <1>9, RoundGrows
  <2>2. Score(p, s) = Max({0, Min({100, m})}) /\ Score(q, t) = Max({0, Min({100, n})})
    BY <2>1
  <2>3. /\ Max({0, Min({100, m})}) \in Nat /\ Max({0, Min({100, n})}) \in Nat
        /\ Max({0, Min({100, n})}) <= Max({0, Min({100, m})})
    <3>1. n <= m /\ m \in Int /\ n \in Int
      BY <2>1
    <3> HIDE DEF Score, Points, unit, kept, Below, Off, Margin, Profit
    <3> QED
      BY <3>1, Clamped, Zenon
  <2> HIDE DEF Score
  <2> QED
    BY <2>2, <2>3
<1>11. /\ ScoreDeal(p, rule, maxBuy, brandScore, s, guessed) = Score(p, s)
       /\ ScoreDeal(q, rule, maxBuy, brandScore, t, guessed) = Score(q, t)
  BY DEF ScoreDeal, Weights, Total
<1> QED
  BY <1>10, <1>11

-----------------------------------------------------------------------------
(* The rule.  A rule that is made up from the others is a rule: the upper   *)
(* median of their prices exists, and it is one of them.                    *)

LEMMA MedianIs ==
    ASSUME NEW C, IsFiniteSet(C), C # {}, NEW rules, DOMAIN rules = C, NEW field,
           \A c \in C : rules[c][field] \in Nat
    PROVE  \E c \in C : Median(rules, field) = rules[c][field]
<1> DEFINE f == [c \in C |-> rules[c][field]]
           Under(x) == {c \in C : f[c] < x}
<1>1. f \in [C -> Nat] /\ \A c \in C : f[c] = rules[c][field]
  OBVIOUS
<1>2. Median(rules, field) =
        CHOOSE v \in {f[c] : c \in C} : /\ Cardinality(Under(v)) <= Cardinality(C) \div 2
                                        /\ Cardinality(Under(v + 1)) > Cardinality(C) \div 2
  <2>1. {f[c] : c \in C} = {rules[c][field] : c \in DOMAIN rules}
    OBVIOUS
  <2>2. \A x : Under(x) = {c \in DOMAIN rules : rules[c][field] < x}
    OBVIOUS
  <2> QED
    BY <2>1, <2>2 DEF Median
<1> HIDE DEF f
<1>3. PICK n \in Nat : n = Cardinality(C)
  BY FS_CardinalityType
<1>4. PICK h \in Nat : h = n \div 2 /\ (n > 0 => h < n)
  <2>1. n \div 2 \in Nat /\ (n > 0 => n \div 2 < n)
    BY <1>3
  <2> QED
    BY <2>1
<1>5. n > 0
  BY <1>3, FS_EmptySet
<1>6. \A x \in Int : /\ Under(x) \in SUBSET C /\ IsFiniteSet(Under(x))
                     /\ Cardinality(Under(x)) \in Nat
  <2>1. SUFFICES ASSUME NEW x \in Int
                 PROVE  /\ Under(x) \in SUBSET C /\ IsFiniteSet(Under(x))
                        /\ Cardinality(Under(x)) \in Nat
    OBVIOUS
  <2>2. Under(x) \in SUBSET C
    OBVIOUS
  <2>3. IsFiniteSet(Under(x))
    BY <2>2, FS_Subset
  <2> QED
    BY <2>2, <2>3, FS_CardinalityType
\* The greatest of those that have at most half of the rules under them.
<1> DEFINE Low == {c \in C : Cardinality(Under(f[c])) <= h}
<1>7. Low \in SUBSET C /\ IsFiniteSet(Low)
  BY FS_Subset
<1>8. Low # {}
  <2>1. [c \in C |-> 0 - f[c]] \in [C -> Int]
    BY <1>1
  <2>2. PICK c \in C : \A d \in C : [e \in C |-> 0 - f[e]][c] >= [e \in C |-> 0 - f[e]][d]
    BY <2>1, Heaviest, Zenon
  <2>3. \A d \in C : f[c] <= f[d]
    BY <2>2, <1>1
  <2>4. Under(f[c]) = {}
    BY <2>3, <1>1
  <2>5. Cardinality(Under(f[c])) = 0
    BY <2>4, FS_EmptySet
  <2> QED
    BY <2>5, <1>4
<1>9. PICK c \in Low : \A d \in Low : f[c] >= f[d]
  <2>1. [e \in Low |-> f[e]] \in [Low -> Int]
    BY <1>1, <1>7
  <2>2. PICK c \in Low : \A d \in Low : [e \in Low |-> f[e]][c] >= [e \in Low |-> f[e]][d]
    BY <2>1, <1>7, <1>8, Heaviest, Zenon
  <2> QED
    BY <2>2
<1>10. c \in C /\ f[c] \in Nat /\ f[c] + 1 \in Int /\ Cardinality(Under(f[c])) <= h
  BY <1>1, <1>9
<1>11. Cardinality(Under(f[c] + 1)) > h
  <2>1. SUFFICES ASSUME ~(Cardinality(Under(f[c] + 1)) > h)
                 PROVE  FALSE
    OBVIOUS
  <2> DEFINE Over == C \ Under(f[c] + 1)
  <2>2. Over \in SUBSET C /\ IsFiniteSet(Over)
    BY FS_Subset
  <2>3. Over # {}
    <3>1. Under(f[c] + 1) # C
      <4> HIDE DEF Under
      <4> QED
        BY <2>1, <1>3, <1>4, <1>5, <1>6, <1>10
    <3> QED
      BY <3>1, <1>6, <1>10
  <2>4. \A d \in C : d \in Over <=> f[d] > f[c]
    BY <1>1, <1>10
  <2>5. [e \in Over |-> 0 - f[e]] \in [Over -> Int]
    BY <1>1
  <2>6. PICK d \in Over : \A e \in Over :
            [y \in Over |-> 0 - f[y]][d] >= [y \in Over |-> 0 - f[y]][e]
    <3> HIDE DEF Over
    <3> QED
      BY <2>2, <2>3, <2>5, Heaviest, Zenon
  <2>7. \A e \in Over : f[d] <= f[e]
    BY <2>6, <1>1
  <2>8. d \in C /\ f[d] > f[c] /\ f[d] \in Nat
    BY <2>4, <2>6, <1>1
  <2>9. Under(f[d]) = Under(f[c] + 1)
    <3>1. \A e \in C : f[e] < f[d] <=> f[e] < f[c] + 1
      <4>1. SUFFICES ASSUME NEW e \in C
                     PROVE  f[e] < f[d] <=> f[e] < f[c] + 1
        OBVIOUS
      <4>2. f[e] \in Nat
        BY <1>1
      <4>3. f[e] > f[c] => f[d] <= f[e]
        BY <2>4, <2>7
      <4> QED
        BY <4>2, <4>3, <2>8, <1>10
    <3> QED
      BY <3>1
  <2>10. d \in Low
    <3>1. Cardinality(Under(f[d])) <= h
      <4> HIDE DEF Under
      <4> QED
        BY <2>1, <2>9, <1>4, <1>6, <1>10
    <3> QED
      BY <3>1, <2>8
  <2> QED
    <3> HIDE DEF Low, Under
    <3>1. f[c] >= f[d]
      BY <2>10, <1>9
    <3> QED
      BY <3>1, <2>8, <1>10
<1>12. \E v \in {f[e] : e \in C} : /\ Cardinality(Under(v)) <= Cardinality(C) \div 2
                                   /\ Cardinality(Under(v + 1)) > Cardinality(C) \div 2
  <2>1. f[c] \in {f[e] : e \in C}
    BY <1>10
  <2> HIDE DEF Under
  <2> QED
    BY <2>1, <1>3, <1>4, <1>10, <1>11
<1>13. Median(rules, field) \in {f[e] : e \in C}
  <2> HIDE DEF Under
  <2> QED
    BY <1>2, <1>12
<1> QED
  BY <1>13, <1>1

LEMMA MedianRuleIs ==
    ASSUME NEW items, IsFiniteSet(DOMAIN items), DOMAIN items # {},
           \A c \in DOMAIN items : IsRule(items[c])
    PROVE  IsRule(MedianRule(items))
<1> DEFINE clothes == DOMAIN items \ ShoeCategories
           C == IF clothes = {} THEN DOMAIN items ELSE clothes
           rules == [c \in C |-> items[c]]
<1>1. C # {} /\ C \in SUBSET DOMAIN items
  OBVIOUS
<1>2. IsFiniteSet(C)
  BY <1>1, FS_Subset
<1>3. DOMAIN rules = C /\ \A c \in C : IsRule(rules[c])
  BY <1>1
<1>4. MedianRule(items) = [maxBuy |-> Median(rules, "maxBuy"), resell |-> Median(rules, "resell"),
                           rarity |-> "medium"]
  BY DEF MedianRule
<1> HIDE DEF C, rules
<1>5. \A c \in C : /\ rules[c]["maxBuy"] \in Nat \ {0}
                   /\ rules[c]["resell"] \in Nat \ {0}
  BY <1>3 DEF IsRule
<1>6. Median(rules, "maxBuy") \in Nat \ {0}
  <2>1. PICK c \in C : Median(rules, "maxBuy") = rules[c]["maxBuy"]
    BY <1>1, <1>2, <1>3, <1>5, MedianIs
  <2> QED
    BY <2>1, <1>5
<1>7. Median(rules, "resell") \in Nat \ {0}
  <2>1. PICK c \in C : Median(rules, "resell") = rules[c]["resell"]
    BY <1>1, <1>2, <1>3, <1>5, MedianIs
  <2> QED
    BY <2>1, <1>5
<1> QED
  BY <1>4, <1>6, <1>7, ScoringAssumption DEF IsRule

LEMMA DetectedIsAllowed ==
    ASSUME NEW l, NEW allowed
    PROVE  DetectCategory(l, allowed) \in allowed \cup {NoValue}
<1> DEFINE hits == {i \in DOMAIN CategoryWords :
                       /\ CategoryWords[i].category \in allowed
                       /\ CategoryWords[i].words \cap l.words # {}}
<1>1. DOMAIN CategoryWords = 1 .. Len(CategoryWords) /\ Len(CategoryWords) \in Nat
  BY CategoryAssumption
<1>2. IsFiniteSet(DOMAIN CategoryWords) /\ DOMAIN CategoryWords \subseteq Int
  BY <1>1, FS_Interval
<1>3. hits \in SUBSET Int /\ hits \in SUBSET DOMAIN CategoryWords
  BY <1>2
<1>4. IsFiniteSet(hits)
  BY <1>2, <1>3, FS_Subset
<1>5. hits # {} => Min(hits) \in hits
  <2> HIDE DEF hits
  <2> QED
    BY <1>3, <1>4, Smallest
<1> QED
  BY <1>5 DEF DetectCategory

LEMMA ResolvedIsRule ==
    ASSUME NEW l, NEW b \in DOMAIN Deals, ResolveCategory(l, Deals[b])[1] # NoValue
    PROVE  /\ IsRule(ResolveCategory(l, Deals[b])[2])
           /\ ResolveCategory(l, Deals[b])[3] \in BOOLEAN
<1> DEFINE items == Deals[b].items
           heard == DetectCategory(l, AnyCategory)
           named == IF heard \in ShoeCategories \ DOMAIN items /\ "chaussure" \in DOMAIN items
                    THEN "chaussure" ELSE heard
           own == DetectCategory(l, DOMAIN items)
           guess == IF Deals[b].shoesOnly /\ "chaussure" \in DOMAIN items
                    THEN <<"chaussure", items["chaussure"], TRUE>>
                    ELSE IF ~DealSettings.useFallback \/ DOMAIN items = {}
                    THEN <<NoValue, NoValue, FALSE>>
                    ELSE IF "default" \in DOMAIN items THEN <<"default", items["default"], TRUE>>
                    ELSE <<"default", MedianRule(items), TRUE>>
<1>1. IsFiniteSet(DOMAIN items) /\ \A c \in DOMAIN items : IsRule(items[c])
  BY DealAssumption
<1>2. own \in DOMAIN items \cup {NoValue}
  BY DetectedIsAllowed
<1>3. ResolveCategory(l, Deals[b]) =
        CASE named \in DOMAIN items -> <<named, items[named], FALSE>>
          [] named \notin DOMAIN items /\ own # NoValue -> <<own, items[own], FALSE>>
          [] OTHER -> guess
  BY DEF ResolveCategory
<1>4. DOMAIN items # {} => IsRule(MedianRule(items))
  BY <1>1, MedianRuleIs
<1> HIDE DEF items, named, own
<1>5. CASE named \in DOMAIN items
  <2>1. ResolveCategory(l, Deals[b]) = <<named, items[named], FALSE>>
    <3> HIDE DEF guess
    <3> QED
      BY <1>3, <1>5
  <2> QED
    BY <2>1, <1>1, <1>5
<1>6. CASE named \notin DOMAIN items /\ own # NoValue
  <2>1. ResolveCategory(l, Deals[b]) = <<own, items[own], FALSE>>
    <3> HIDE DEF guess
    <3> QED
      BY <1>3, <1>6
  <2> QED
    BY <2>1, <1>1, <1>2, <1>6
<1>7. CASE named \notin DOMAIN items /\ ~(own # NoValue)
  <2>1. ResolveCategory(l, Deals[b]) = guess
    <3> HIDE DEF guess
    <3> QED
      BY <1>3, <1>7
  <2>2. CASE Deals[b].shoesOnly /\ "chaussure" \in DOMAIN items
    <3>1. ResolveCategory(l, Deals[b]) = <<"chaussure", items["chaussure"], TRUE>>
      BY <2>1, <2>2
    <3> QED
      BY <3>1, <2>2, <1>1
  <2>3. CASE /\ ~(Deals[b].shoesOnly /\ "chaussure" \in DOMAIN items)
             /\ ~DealSettings.useFallback \/ DOMAIN items = {}
    <3>1. ResolveCategory(l, Deals[b]) = <<NoValue, NoValue, FALSE>>
      BY <2>1, <2>3
    <3> QED
      BY <3>1
  <2>4. CASE /\ ~(Deals[b].shoesOnly /\ "chaussure" \in DOMAIN items)
             /\ ~(~DealSettings.useFallback \/ DOMAIN items = {})
             /\ "default" \in DOMAIN items
    <3>1. ResolveCategory(l, Deals[b]) = <<"default", items["default"], TRUE>>
      BY <2>1, <2>4
    <3> QED
      BY <3>1, <2>4, <1>1
  <2>5. CASE /\ ~(Deals[b].shoesOnly /\ "chaussure" \in DOMAIN items)
             /\ ~(~DealSettings.useFallback \/ DOMAIN items = {})
             /\ "default" \notin DOMAIN items
    <3>1. ResolveCategory(l, Deals[b]) = <<"default", MedianRule(items), TRUE>>
      BY <2>1, <2>5
    <3> QED
      BY <3>1, <2>5, <1>4
  <2> QED
    BY <2>2, <2>3, <2>4, <2>5
<1> QED
  BY <1>5, <1>6, <1>7

-----------------------------------------------------------------------------
(* The verdict. *)

LEMMA LevelHolds ==
    ASSUME NEW s \in Nat, NEW t \in Nat, t <= s, Level(t) # "skip"
    PROVE  Level(s) # "skip"
<1>1. PICK p \in Nat, b \in Nat, w \in Nat :
          p = Scoring.pepite /\ b = Scoring.bonDeal /\ w = Scoring.surveillance
  BY ScoringAssumption
<1>2. t > p \/ t \in b .. p \/ t \in w .. b - 1
  BY <1>1 DEF Level
<1>3. s > p \/ s \in b .. p \/ s \in w .. b - 1
  BY <1>2
<1> QED
  BY <1>1, <1>3 DEF Level

LEMMA OfScoreGrows ==
    ASSUME NEW s \in Nat, NEW t \in Nat, t <= s, NEW guessed, OfScore(t, guessed).post
    PROVE  OfScore(s, guessed).post /\ OfScore(s, guessed).score >= OfScore(t, guessed).score
<1>1. t >= DealSettings.minScore /\ Level(t) # "skip"
  BY DEF OfScore, Reject
<1>2. s >= DealSettings.minScore /\ Level(s) # "skip"
  BY <1>1, LevelHolds, DealAssumption
<1> QED
  BY <1>1, <1>2 DEF OfScore, Post

LEMMA OfRuleGrows ==
    ASSUME NEW x, NEW y, x.price \in Nat, y.price \in Nat, x.price <= y.price,
           Freshness(x.age) \in Nat, Freshness(y.age) \in Nat,
           Freshness(y.age) <= Freshness(x.age),
           NEW brandScore \in Nat, NEW category, NEW rule, NEW guessed,
           category # NoValue => IsRule(rule) /\ guessed \in BOOLEAN,
           OfRule(y, brandScore, category, rule, guessed).post
    PROVE  /\ OfRule(x, brandScore, category, rule, guessed).post
           /\ OfRule(x, brandScore, category, rule, guessed).score
                 >= OfRule(y, brandScore, category, rule, guessed).score
<1> DEFINE maxBuy == rule.maxBuy * DealSettings.multiplier
           Points(l) == ScoreDeal(l.price, rule, maxBuy, brandScore, l.age, guessed)
<1>1. category # NoValue /\ ~(y.price > maxBuy)
  BY DEF OfRule, Reject
<1>2. IsRule(rule) /\ guessed \in BOOLEAN
  BY <1>1
<1>3. maxBuy \in Nat \ {0}
  BY <1>2, DealAssumption DEF IsRule
<1>4. ~(x.price > maxBuy)
  BY <1>1, <1>3
<1>5. Points(x) \in Nat /\ Points(y) \in Nat /\ Points(y) <= Points(x)
  <2> HIDE DEF maxBuy
  <2> QED
    BY <1>2, <1>3, ScoreGrows
<1>6. \A l \in {x, y} : OfRule(l, brandScore, category, rule, guessed) = OfScore(Points(l), guessed)
  BY <1>1, <1>4 DEF OfRule
<1> HIDE DEF Points
<1>7. OfScore(Points(y), guessed).post
  BY <1>6
<1>8. /\ OfScore(Points(x), guessed).post
      /\ OfScore(Points(x), guessed).score >= OfScore(Points(y), guessed).score
  BY <1>5, <1>7, OfScoreGrows
<1> QED
  BY <1>6, <1>8

\* What a verdict goes by that is neither a price nor an age.
SameGoods(a, b) == a.brand = b.brand /\ a.words = b.words /\ a.signals = b.signals

LEMMA SameGoodsSameRule ==
    ASSUME NEW x, NEW y, SameGoods(x, y)
    PROVE  /\ IsReplica(x) <=> IsReplica(y)
           /\ IsKids(x) <=> IsKids(y)
           /\ DetectShoe(x) <=> DetectShoe(y)
           /\ IsClothing(x) <=> IsClothing(y)
           /\ \A deal : ResolveCategory(x, deal) = ResolveCategory(y, deal)
<1>1. \A s : Has(x, s) <=> Has(y, s)
  BY DEF SameGoods, Has
<1>2. \A allowed : DetectCategory(x, allowed) = DetectCategory(y, allowed)
  BY DEF SameGoods, DetectCategory
<1>3. IsShoe(x) <=> IsShoe(y)
  BY <1>1, <1>2 DEF IsShoe
<1>4. \A deal : ResolveCategory(x, deal) = ResolveCategory(y, deal)
  BY <1>2 DEF ResolveCategory
<1> QED
  BY <1>1, <1>2, <1>3, <1>4 DEF IsReplica, IsKids, DetectShoe, IsClothing

Listing == [brand : {o.brand : o \in Offer}, words : {o.words : o \in Offer},
            signals : SUBSET Signal, price : Nat \cup {NoValue}, age : Nat \cup {NoValue}]

LEMMA SameArticleSameGoods ==
    ASSUME NEW x \in Listing, NEW y \in Listing, SameArticle(x, y)
    PROVE  SameGoods(x, y)
  BY DEF Listing, SameArticle, SameGoods

LEMMA VerdictGrows ==
    ASSUME NEW x \in Listing, NEW y \in Listing, SameGoods(x, y), NoWorse(x, y),
           EvaluateDeal(y).post
    PROVE  EvaluateDeal(x).post /\ EvaluateDeal(x).score >= EvaluateDeal(y).score
<1> DEFINE Priced(l) ==
               IF l.brand \notin DOMAIN Deals
               THEN IF DealSettings.requireBrand THEN Reject("brand_not_configured")
                    ELSE Post(Max({DealSettings.minScore, 50}), "surveillance",
                              "ok_unconfigured_brand")
               ELSE IF Deals[l.brand].shoesOnly /\ IsClothing(l) THEN Reject("not_a_shoe")
               ELSE EvaluatePrice(l, Deals[l.brand])
           Allowed(l) ==
               IF IsKids(l) THEN Reject("kids_item")
               ELSE IF DealSettings.rejectShoes /\ DetectShoe(l) /\ ~AllowsShoes(l.brand)
               THEN Reject("shoes_not_allowed")
               ELSE IF ~DealSettings.enabled THEN Post(100, "bon_deal", "filter_disabled")
               ELSE IF l.price = NoValue THEN Reject("missing_price")
               ELSE Priced(l)
<1>1. /\ x.price \in Nat /\ y.price \in Nat /\ x.price <= y.price
      /\ x.price # NoValue /\ y.price # NoValue
      /\ x.age \in Nat \cup {NoValue} /\ y.age \in Nat \cup {NoValue}
  BY DEF Listing, NoWorse
<1>2. \/ x.age = y.age
      \/ /\ x.age # NoValue /\ y.age # NoValue /\ x.age <= y.age
         /\ x.age \in Nat /\ y.age \in Nat
  BY <1>1 DEF NoWorse
<1>3. x.brand = y.brand
  BY DEF SameGoods
<1>4. /\ IsReplica(x) <=> IsReplica(y)
      /\ IsKids(x) <=> IsKids(y)
      /\ DetectShoe(x) <=> DetectShoe(y)
      /\ IsClothing(x) <=> IsClothing(y)
      /\ \A deal : ResolveCategory(x, deal) = ResolveCategory(y, deal)
  BY SameGoodsSameRule
<1>5. /\ Freshness(x.age) \in Nat /\ Freshness(y.age) \in Nat
      /\ Freshness(y.age) <= Freshness(x.age)
  <2>1. CASE x.age = y.age
    <3>1. CASE x.age = NoValue
      BY <2>1, <3>1 DEF Freshness
    <3>2. CASE x.age # NoValue
      <4>1. x.age \in Nat /\ x.age <= x.age
        BY <1>1, <3>2
      <4> QED
        BY <2>1, <3>2, <4>1, FreshnessFalls
    <3> QED
      BY <3>1, <3>2
  <2>2. CASE ~(x.age = y.age)
    BY <1>2, <2>2, FreshnessFalls
  <2> QED
    BY <2>1, <2>2
<1>6. ~TooOld(y) /\ ~IsReplica(y) /\ EvaluateDeal(y) = Allowed(y)
  BY DEF EvaluateDeal, Reject
<1>7. ~TooOld(x)
  BY <1>2, <1>6, DealAssumption DEF TooOld
<1>8. EvaluateDeal(x) = Allowed(x)
  BY <1>4, <1>6, <1>7 DEF EvaluateDeal
<1>9. ASSUME Allowed(y).post
      PROVE  Allowed(x).post /\ Allowed(x).score >= Allowed(y).score
  <2>1. ~IsKids(y) /\ ~(DealSettings.rejectShoes /\ DetectShoe(y) /\ ~AllowsShoes(y.brand))
    BY <1>9 DEF Reject
  <2>2. CASE ~DealSettings.enabled
    <3>1. Allowed(x) = Allowed(y) /\ Allowed(y).score = 100
      BY <1>3, <1>4, <2>1, <2>2 DEF Post
    <3> QED
      BY <3>1, <1>9
  <2>3. CASE DealSettings.enabled
    <3>1. Allowed(x) = Priced(x) /\ Allowed(y) = Priced(y)
      <4> HIDE DEF Priced
      <4> QED
        BY <1>1, <1>3, <1>4, <2>1, <2>3
    <3>2. CASE y.brand \notin DOMAIN Deals
      <4>1. ~DealSettings.requireBrand
        BY <1>9, <3>1, <3>2 DEF Reject
      <4>2. /\ Priced(x) = Priced(y)
            /\ Priced(y).score = Max({DealSettings.minScore, 50})
        BY <1>3, <3>2, <4>1 DEF Post
      <4>3. Max({DealSettings.minScore, 50}) \in Nat
        <5>1. PICK m \in Nat : m = DealSettings.minScore
          BY DealAssumption
        <5>2. Max({m, 50}) = IF m <= 50 THEN 50 ELSE m
          BY <5>1, Pair
        <5> QED
          BY <5>1, <5>2
      <4> HIDE DEF Priced, Allowed
      <4> QED
        BY <1>9, <3>1, <4>2, <4>3
    <3>3. CASE y.brand \in DOMAIN Deals
      <4> DEFINE r == ResolveCategory(y, Deals[y.brand])
                 brandScore == Deals[y.brand].score
      <4>1. ~(Deals[y.brand].shoesOnly /\ IsClothing(y))
        BY <1>9, <3>1, <3>3 DEF Reject
      <4>2. /\ Priced(x) = EvaluatePrice(x, Deals[y.brand])
            /\ Priced(y) = EvaluatePrice(y, Deals[y.brand])
        BY <1>3, <1>4, <3>3, <4>1
      <4>3. /\ EvaluatePrice(x, Deals[y.brand]) = OfRule(x, brandScore, r[1], r[2], r[3])
            /\ EvaluatePrice(y, Deals[y.brand]) = OfRule(y, brandScore, r[1], r[2], r[3])
        BY <1>4 DEF EvaluatePrice
      <4>4. r[1] # NoValue => IsRule(r[2]) /\ r[3] \in BOOLEAN
        BY <3>3, ResolvedIsRule
      <4>5. brandScore \in Nat
        BY <3>3, DealAssumption
      <4> HIDE DEF Priced, Allowed, r, brandScore
      <4>6. OfRule(y, brandScore, r[1], r[2], r[3]).post
        BY <1>9, <3>1, <4>2, <4>3
      <4>7. /\ OfRule(x, brandScore, r[1], r[2], r[3]).post
            /\ OfRule(x, brandScore, r[1], r[2], r[3]).score
                  >= OfRule(y, brandScore, r[1], r[2], r[3]).score
        BY <1>1, <1>5, <4>4, <4>5, <4>6, OfRuleGrows
      <4> QED
        BY <3>1, <4>2, <4>3, <4>7
    <3> QED
      BY <3>2, <3>3
  <2> QED
    BY <2>2, <2>3
<1> QED
  <2> HIDE DEF Allowed
  <2> QED
    BY <1>6, <1>8, <1>9

-----------------------------------------------------------------------------

\* The listing that was looked at is one of the listings (FilterInit, LookAgain:
\* the callers of evaluate_deal pass rows that a scrape has stored).
LEMMA OfferAlways == FilterSpec => [](offer \in Offer)
<1>1. FilterInit => offer \in Offer
  BY DEF FilterInit
<1>2. offer \in Offer /\ [LookAgain]_offer => (offer \in Offer)'
  BY DEF LookAgain
<1> QED
  BY <1>1, <1>2, PTL DEF FilterSpec

\* Whatever brands, rules, weights, bounds and listings are configured: the offer
\* that is cheaper and no older than one that is posted is posted too, with no
\* lower a score (evaluate_deal, _score_deal).
THEOREM BetterNeverRejectedAlways == FilterSpec => BetterNeverRejected
<1>1. offer \in Offer /\ [LookAgain]_offer
        => [NoWorse(offer', offer) /\ EvaluateDeal(offer).post
               => /\ EvaluateDeal(offer').post
                  /\ EvaluateDeal(offer').score >= EvaluateDeal(offer).score]_offer
  <2>1. SUFFICES ASSUME offer \in Offer, LookAgain, NoWorse(offer', offer),
                        EvaluateDeal(offer).post
                 PROVE  /\ EvaluateDeal(offer').post
                        /\ EvaluateDeal(offer').score >= EvaluateDeal(offer).score
    OBVIOUS
  <2>2. offer \in Listing /\ offer' \in Listing /\ SameArticle(offer', offer)
    BY <2>1, OfferAssumption DEF LookAgain, Listing
  <2>3. SameGoods(offer', offer)
    BY <2>2, SameArticleSameGoods
  <2> QED
    BY <2>1, <2>2, <2>3, VerdictGrows
<1> QED
  BY <1>1, OfferAlways, PTL DEF FilterSpec, BetterNeverRejected

===============================================================================
