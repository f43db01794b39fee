-------------------------- MODULE OpportunityEngine --------------------------
(***************************************************************************)
(* What the niche detector makes of one niche, an aggregate of similar     *)
(* listings (services/opportunity_engine.py, multi_angle.py and            *)
(* niche_insights.py): is it worth an analysis, of which type is it, which *)
(* score and which stage of its life has it, and may it be published.      *)
(*                                                                         *)
(* Scores, gauges and percentages are in hundredths and cut after each     *)
(* division; the code computes them in floating point and rounds to a      *)
(* tenth.  Prices are in euros.  Of a brand, a category or a title only    *)
(* the lists of the code that hold it matter.                              *)
(***************************************************************************)
EXTENDS Integers, Sequences, SequencesExt, FiniteSetsExt

CONSTANTS
    Unknown,           \* None: a number, a brand, a model or a name that is missing
    Nameless,          \* the brands "inconnu" and "unknown"
    VagueLabels,       \* names of a thing rather than of a brand
    BroadBrands, FamousBrands, KnownBrands,
    ObjectCategories, FashionCategories,
    LicenseFlags,
    MinNicheListings,  \* MIN_NICHE_LISTINGS, and the other constants of its head
    MinNicheSellers, MinPublishListings, MinBrandCategory,
    MinScore, PublishMin

Known(x, default) == IF x = Unknown THEN default ELSE x
Cut(x) == Max({0, Min({10000, x})})
AtMostOf(x, y) == Min({x, y})

-----------------------------------------------------------------------------
(* Which niches are worth a look. *)

Obscure(s) == s.brand \notin KnownBrands \cup FamousBrands \cup BroadBrands

Sufficient(s) ==
    s.n >= MinNicheListings /\ (s.sellers = Unknown \/ s.sellers >= MinNicheSellers)

\* A product, or at least a brand with a kind of garment; never a category, a
\* licence or a famous brand alone.
Granular(s) ==
    /\ Sufficient(s)
    /\ \/ s.model # Unknown
       \/ /\ s.brand \notin {Unknown} \cup Nameless \cup VagueLabels \cup BroadBrands \cup FamousBrands
          /\ s.category \in FashionCategories
          /\ s.n >= MinBrandCategory

Priority(score) ==
    CASE score >= 8500 -> "exceptional"
      [] score \in 7000 .. 8499 -> "strong"
      [] score \in MinScore .. 6999 -> "interesting"
      [] OTHER -> "weak"

-----------------------------------------------------------------------------
(* The gauges of a snapshot; s.win[w] are its windows of 1, 7 and 30 days. *)

Liquid(s) == s.gone >= 2 \/ s.ttl # Unknown

Window(s, w, field, default) == IF w \in DOMAIN s.win THEN s.win[w][field] ELSE default

Vol7(s) == Window(s, "7d", "fresh", s.fresh)
Vol30(s) ==
    LET v == Window(s, "30d", "fresh", s.fresh) IN IF v <= 0 THEN s.n ELSE v

\* New listings of the week over a quarter of those of the month.
FlowRatio(s) == (400 * Vol7(s)) \div Max({4, Vol30(s)})
DemandDelta(s) == 100 * (FlowRatio(s) - 100)

Demand(s) ==
    Cut(AtMostOf(4500, 22 * FlowRatio(s))
        + (IF Liquid(s) THEN AtMostOf(4000, (8000 * s.gone) \div Max({1, s.n}))
                        ELSE AtMostOf(1200, 150 * Vol7(s)))
        + AtMostOf(1500, 120 * Vol7(s)))

Rarity(s) ==
    LET sold == Known(s.sellers, 0)
        stock == CASE s.n <= 8 -> 8800 [] s.n \in 9 .. 15 -> 7200
                   [] s.n \in 16 .. 30 -> 5500 [] s.n \in 31 .. 60 -> 3800 [] OTHER -> 1800
    IN  CASE sold \in 1 .. 5 -> Cut(stock + 1200) [] sold = 0 -> Cut(stock - 800)
          [] OTHER -> stock

Competition(s) ==
    IF Known(s.sellers, 0) > 0 THEN Cut(600 * s.sellers + 45 * s.n) ELSE Cut(80 * s.n + 2500)

\* Low without an observed sale: nothing is invented.
Rotation(s) ==
    IF s.ttl # Unknown /\ s.gone >= 2
    THEN Cut(10000 - AtMostOf(9000, 800 * s.ttl) + AtMostOf(2000, 300 * s.gone))
    ELSE CASE s.gone >= 3 -> Cut(4500 + 500 * s.gone) [] s.gone \in 1 .. 2 -> 2800
           [] OTHER -> 1200

SupplyEase(s) ==
    CASE s.n \in 8 .. 40 -> 7200 [] s.n < 5 -> 3500 [] s.n \in 5 .. 7 -> 4800
      [] OTHER -> Cut(9000 - 50 * s.n)

Stability(s) ==
    IF s.median > 0 /\ s.max > 0
    THEN Cut(10000 - (4000 * (s.max - s.min)) \div s.median) ELSE 5000

Confidence(s) ==
    LET sold == Known(s.sellers, 0)
        sum == 2500 + AtMostOf(3500, 250 * s.n)
               + (IF sold > 0 THEN AtMostOf(2000, 300 * sold) ELSE 0)
               + (IF Liquid(s) THEN 2000 ELSE 0) + (IF s.ttl # Unknown THEN 1000 ELSE 0)
        few == IF s.n < MinPublishListings THEN AtMostOf(sum, 5000) ELSE sum
    IN  Cut(IF sold < MinNicheSellers THEN AtMostOf(few, 4000) ELSE few)

Gauges(s) ==
    [demand |-> Demand(s), rarity |-> Rarity(s), competition |-> Competition(s),
     rotation |-> Rotation(s), supply |-> SupplyEase(s), stability |-> Stability(s),
     confidence |-> Confidence(s)]

-----------------------------------------------------------------------------
(* The margin: what the snapshot says, else what the prices give. *)

BuyPrice(s) == IF s.p25 > 0 THEN s.p25 ELSE (65 * s.median) \div 100

Margin(s) ==
    IF s.margin # Unknown \/ s.median = 0 \/ BuyPrice(s) = 0 THEN Known(s.margin, 0)
    ELSE (100 * Max({0, s.median - BuyPrice(s)})) \div BuyPrice(s)

-----------------------------------------------------------------------------
(* compute_multi_angle: seven views of the market, of which the code keeps a *)
(* score each and their weighted sum.                                        *)

PctDelta(now, before) ==
    IF now = Unknown \/ before = Unknown \/ before = 0 THEN Unknown
    ELSE (10000 * (now - before)) \div before

PriceDelta(s) ==
    LET med(w) == Window(s, w, "median", s.median)
    IN  IF med("7d") = 0 \/ med("30d") = 0 THEN Unknown ELSE PctDelta(med("7d"), med("30d"))

StockDelta(s) ==
    LET n30 == Window(s, "30d", "n", s.n)
    IN  IF n30 = 0 THEN Unknown
        ELSE (10000 * (4 * Window(s, "7d", "n", s.n) - n30)) \div n30

AngleFlow(s) ==
    (400 * Vol7(s)) \div Max({4, Window(s, "30d", "fresh", Max({s.fresh, s.n}))})

AngleDemand(s) ==
    Cut(AtMostOf(3500, 18 * AngleFlow(s)) + AtMostOf(3000, (7000 * s.gone) \div Max({1, s.n}))
        + AtMostOf(2000, 400 * s.favs) + AtMostOf(1500, 80 * s.views))

AngleCompetition(s) == Cut(500 * Known(s.sellers, 0) + 40 * s.active)

AngleSupply(s) ==
    LET stock == CASE s.n <= 8 -> 8500 [] s.n \in 9 .. 20 -> 6500
                   [] s.n \in 21 .. 40 -> 4500 [] OTHER -> 2500
    IN  Cut((55 * stock + 35 * (10000 - AngleCompetition(s))) \div 100
            + IF Known(StockDelta(s), 0) < -1500 THEN 1000 ELSE 0)

AnglePrice(s) ==
    LET spread == IF s.median > 0 /\ s.mean > 0
                  THEN Cut(10000 - (8000 * (Max({s.mean, s.median}) - Min({s.mean, s.median})))
                                     \div s.median)
                  ELSE 5000
        delta == Known(PriceDelta(s), 0)
        trend == CASE delta <= -800 -> 7000 [] delta >= 1000 -> 6200 [] OTHER -> 5000
    IN  Cut((50 * Cut(65 * Known(s.margin, 0)) + 25 * spread + 25 * trend) \div 100)

AngleBehavioral(s) ==
    LET attention == 300 * s.favs + 50 * s.views
        quick == CASE s.gone >= 2 /\ Known(s.ttl, 99) <= 3 -> 2500
                   [] s.gone >= 2 /\ Known(s.ttl, 99) \in 4 .. 7 -> 1200 [] OTHER -> 0
    IN  Cut(AtMostOf(5500, 2 * attention) + quick
            + AtMostOf(2000, 400 * Window(s, "1d", "fresh", s.fresh)))

AngleEmerging(s) ==
    Cut(AtMostOf(4000, 35 * Max({0, AngleFlow(s) - 100})) + (IF Obscure(s) THEN 1800 ELSE 0)
        + AtMostOf(2500, (4000 * Vol7(s)) \div Max({1, s.n}))
        + IF Known(StockDelta(s), 0) > 2500 /\ AngleFlow(s) >= 120 THEN 1500 ELSE 0)

AngleProfit(s) ==
    LET ease == CASE s.n \in 5 .. 35 -> 7000 [] s.n < 5 -> 4000 [] OTHER -> 5000
    IN  Cut((45 * Cut(70 * Known(s.margin, 0)) + 25 * ease + 15 * AngleDemand(s)
             + 15 * (10000 - AngleCompetition(s))) \div 100)

AngleAnomaly(s) ==
    LET gap == IF s.median > 0 /\ s.p25 > 0
               THEN (9000 * (s.median - s.p25)) \div s.median ELSE 0
    IN  Cut(AtMostOf(5000, gap) + (IF Known(s.margin, 0) >= 55 THEN 2000 ELSE 0)
            + (IF Known(PriceDelta(s), 0) <= -1000 THEN 1500 ELSE 0)
            + IF AngleDemand(s) >= 5500 /\ s.n <= 20 THEN 1000 ELSE 0)

AngleComposite(s) ==
    Cut((18 * AngleDemand(s) + 12 * AngleSupply(s) + 16 * AnglePrice(s)
         + 12 * AngleBehavioral(s) + 12 * AngleEmerging(s) + 18 * AngleProfit(s)
         + 12 * AngleAnomaly(s)) \div 100)

\* What changed in the market; the detector prefers niches with such a signal.
Signals(s) ==
    {x \in {"demand", "liquid", "cheaper", "dearer", "scarce", "emerging", "anomaly",
            "attention", "liked"} :
        CASE x = "demand" -> AngleFlow(s) >= 150
          [] x = "liquid" -> s.gone >= 3 /\ 4 * s.gone >= s.n
          [] x = "cheaper" -> Known(PriceDelta(s), 0) <= -1200
          [] x = "dearer" -> Known(PriceDelta(s), 0) >= 1200
          [] x = "scarce" -> Known(StockDelta(s), 0) <= -2500
          [] x = "emerging" -> AngleEmerging(s) >= 6000
          [] x = "anomaly" -> AngleAnomaly(s) >= 6000
          [] x = "attention" -> AngleBehavioral(s) >= 6500
          [] x = "liked" -> s.favs >= 3}

-----------------------------------------------------------------------------
(* The type of the niche: the first line that fits. *)

FirstOf(lines) == lines[Min({i \in DOMAIN lines : lines[i][1]})][2]

Classify(s) ==
    LET margin == Margin(s)
        famous == s.brand \in FamousBrands
        special == Obscure(s) \/ s.flags \cap LicenseFlags # {} \/ s.category \in ObjectCategories
    IN  FirstOf(<<
          <</\ Obscure(s) /\ Demand(s) >= 4800 /\ Competition(s) <= 4500
            /\ (s.median >= 70 \/ margin >= 50) /\ Confidence(s) >= 4000, "hidden">>,
          <<Liquid(s) /\ Rotation(s) >= 6500 /\ Demand(s) >= 4500, "high_rotation">>,
          <<DemandDelta(s) >= 4000 /\ Demand(s) >= 5500 /\ special, "emerging">>,
          <<DemandDelta(s) >= 4500 /\ Demand(s) >= 5500, "emerging">>,
          <</\ ~famous /\ s.n <= 22 /\ Competition(s) <= 3800
            /\ Demand(s) >= 4000 /\ Confidence(s) >= 4000, "hidden">>,
          <<margin >= 55 /\ s.median < 200 /\ s.n >= 6, "undervalued">>,
          <<s.median >= 120 /\ margin >= 35, "high_value">>,
          <<margin >= 45 /\ s.n >= 8, "undervalued">>,
          <<~famous /\ Competition(s) <= 3200 /\ s.n <= 25, "hidden">>,
          <<s.gone = 0 /\ Demand(s) >= 6000 /\ (s.model # Unknown \/ Obscure(s)), "emerging">>,
          <<TRUE, "high_value">> >>)

\* The type after what the other angles say of it.
Retyped(s, type) ==
    IF AngleAnomaly(s) >= 7000 /\ type # "hidden" THEN "undervalued"
    ELSE IF AngleEmerging(s) >= 6500 /\ type = "high_value" THEN "emerging" ELSE type

NicheType(s) == Retyped(s, Classify(s))

-----------------------------------------------------------------------------
(* niche_insights: the stage of its life, and how much the numbers say. *)

VolumeDelta(s) ==
    LET n30 == Window(s, "30d", "n", s.n)
    IN  (10000 * (4 * Window(s, "7d", "n", s.n) - n30)) \div Max({4, n30})

WindowPriceDelta(s) ==
    PctDelta(Window(s, "7d", "median", Unknown), Window(s, "30d", "median", Unknown))

Lifecycle(s) ==
    LET known == s.brand \in FamousBrands \cup BroadBrands
        c == Competition(s)
        price == WindowPriceDelta(s)
    IN  FirstOf(<<
          <</\ s.n >= 45 /\ Known(s.sellers, 0) >= 15 /\ c >= 5500
            /\ (known \/ Demand(s) < 5500), "saturated">>,
          <<VolumeDelta(s) <= -2500 /\ Known(price, 0) <= -1000 /\ s.n >= 15, "decline">>,
          <<Obscure(s) /\ s.n <= 18 /\ DemandDelta(s) >= 2500 /\ c <= 4000, "emerging">>,
          <<DemandDelta(s) >= 3500 \/ (Demand(s) >= 6000 /\ s.n <= 35 /\ c <= 5000), "growth">>,
          <<s.n >= 25 /\ c >= 4500, "maturity">>,
          <<Obscure(s) /\ s.n <= 12 /\ Demand(s) >= 4500, "emerging">>,
          <<TRUE, "maturity">> >>)

Avoided == {"saturated", "decline"}

ConfidenceInsight(s) ==
    LET start == IF s.n < 8 THEN AtMostOf(Confidence(s), 5000) ELSE Confidence(s)
    IN  Cut(start - (IF Known(s.sellers, 0) < 3 THEN 500 ELSE 0)
                  - (IF Liquid(s) THEN 0 ELSE 800)
                  + (IF s.favs > 0 \/ s.views > 0 THEN 500 ELSE 0))

WeakSignal(s) ==
    LET points == (IF Obscure(s) /\ s.n <= 20 /\ Competition(s) <= 3500
                      /\ DemandDelta(s) >= 2000 THEN 40 ELSE 0)
                  + (IF AngleEmerging(s) >= 5000 /\ s.n <= 25 THEN 25 ELSE 0)
                  + (IF Lifecycle(s) = "emerging" THEN 20 ELSE 0)
                  + (IF DemandDelta(s) >= 4000 /\ Competition(s) <= 4000 THEN 15 ELSE 0)
    IN  points >= 45 /\ Lifecycle(s) \notin Avoided

-----------------------------------------------------------------------------
(* The score. *)

Times(x, pct) == (x * pct) \div 100
When(cond, x, pct) == IF cond THEN Times(x, pct) ELSE x

\* The weighted sum of the gauges, less where they say little.
Weighed(s, g) ==
    LET margin == Times(Cut(70 * Margin(s)),
                        CASE s.n < 8 -> 55 [] s.n \in 8 .. 11 -> 75 [] OTHER -> 100)
        sum == (26 * margin + 18 * g.demand + 14 * g.rarity + 12 * g.rotation + 10 * g.supply
                + 8 * g.stability + 12 * (10000 - g.competition)) \div 100
    IN  (sum * (7000 + (3 * g.confidence) \div 10)) \div 10000

TypeBonus(type) ==
    CASE type = "hidden" -> 110 [] type = "emerging" -> 107 [] type = "undervalued" -> 104
      [] type = "high_rotation" -> 103 [] OTHER -> 100

Composite(s) ==
    LET gem == Obscure(s) /\ Demand(s) >= 4500
        typed == Times(Weighed(s, Gauges(s)), TypeBonus(NicheType(s)))
        found == When(gem /\ (s.median >= 80 \/ Margin(s) >= 50), When(gem, typed, 108), 105)
    IN  Cut(When(s.brand \in FamousBrands, When(s.model # Unknown, found, 103), 96))

\* The score of the market alone, before the history of the niche is asked.
MarketScore(s) ==
    LET blend == Cut((45 * Composite(s) + 25 * s.score + 30 * AngleComposite(s)) \div 100)
        weak == Cut(When(WeakSignal(s), blend, 108))
        intl == Cut(When(s.intl, weak, 104))
    IN  Cut(intl + IF s.variants >= 3 THEN 200 ELSE 0)

\* Mutant: whatever stays near its record is raised.
AdjustmentAny(history, score) ==
    LET recent == SubSeq(history, Max({1, Len(history) - 4}), Len(history))
        avg == FoldSeq(LAMBDA x, y : x + y, 0, recent) \div Len(recent)
        delta == score - avg
    IN  IF history = <<>> THEN 0
        ELSE CASE delta >= 800 -> Min({600, delta \div 4})
               [] delta <= -1000 -> Max({-800, delta \div 5})
               [] OTHER -> IF delta \in -499 .. 499 THEN 200 ELSE 0

\* learning_score_adjustment: history is oldest first.
Adjustment(history, score) ==
    LET recent == SubSeq(history, Max({1, Len(history) - 4}), Len(history))
        avg == FoldSeq(LAMBDA x, y : x + y, 0, recent) \div Len(recent)
        delta == score - avg
    IN  IF history = <<>> THEN 0
        ELSE CASE delta >= 800 -> Min({600, delta \div 4})
               [] delta <= -1000 -> Max({-800, delta \div 5})
               [] OTHER -> IF avg >= 7000 /\ delta \in -499 .. 499 THEN 200 ELSE 0

Learnt(score, history) == Cut(score + Adjustment(history, score))

Score(s, history) ==
    AtMostOf(Learnt(MarketScore(s), history), IF ConfidenceInsight(s) < 4000 THEN 6800 ELSE 10000)

Action(s, score) ==
    LET sure == ConfidenceInsight(s)
        now == \/ Lifecycle(s) \in {"emerging", "growth"} /\ WeakSignal(s)
               \/ score >= 7000 /\ Margin(s) >= 40 /\ Competition(s) <= 5500 /\ sure >= 5000
    IN  IF now THEN "buy" ELSE IF score >= 5500 /\ sure >= 4000 THEN "watch" ELSE "wait"

-----------------------------------------------------------------------------
(* snapshot_to_opportunity *)

Analysed(s) ==
    Granular(s) /\ Known(s.sellers, 0) >= MinNicheSellers /\ s.name # Unknown

Opportunity(s, score) ==
    [key |-> s.key, name |-> s.name, score |-> score, type |-> NicheType(s),
     priority |-> Priority(score), lifecycle |-> Lifecycle(s), action |-> Action(s, score),
     confidence |-> ConfidenceInsight(s), n |-> s.n, sellers |-> s.sellers,
     weak |-> WeakSignal(s), signals |-> Signals(s)]

\* For the detector: never a market in decline, never a weak score.
Detected(s, score) ==
    IF Lifecycle(s) \in Avoided \/ Priority(score) = "weak" THEN Unknown ELSE Opportunity(s, score)

OpportunityOf(s, history) == IF Analysed(s) THEN Detected(s, Score(s, history)) ELSE Unknown

\* For a sheet: the best score it was posted with stands in for a weak one.
Rescued(live, posted) ==
    IF Priority(live) = "weak" /\ posted # {} /\ Max(posted) >= PublishMin THEN Max(posted) ELSE live

ForSheet(s, score) == IF Priority(score) = "weak" THEN Unknown ELSE Opportunity(s, score)

OpportunityForSheet(s, history, posted) ==
    IF Analysed(s) THEN ForSheet(s, Rescued(Score(s, history), posted)) ELSE Unknown

Publishable(op) ==
    /\ op.score >= PublishMin /\ op.priority # "weak"
    /\ op.n >= MinPublishListings /\ op.sellers >= MinNicheSellers

-----------------------------------------------------------------------------
(* The pick of a cycle, select_opportunities. *)

Volume(n) ==
    CASE n \in MinNicheListings .. 28 -> 1200 [] n \in 29 .. 45 -> 300
      [] n > 70 -> -2000 [] OTHER -> -800

RankKey(s, op) ==
    LET known == s.brand \notin Nameless
    IN  op.score
        + CASE op.type = "hidden" -> 1600 [] op.type = "undervalued" -> 1200
            [] op.type = "emerging" -> 600 [] op.type = "high_rotation" -> 300 [] OTHER -> -600
        + (IF s.brand \in FamousBrands THEN -1400 ELSE 0)
        + (IF s.brand \in KnownBrands /\ s.model = Unknown THEN -800 ELSE 0)
        + (IF Obscure(s) THEN 1000 ELSE 0)
        + (IF s.model = Unknown THEN 0
           ELSE 400 + (IF known THEN 600 ELSE 0)
                + (IF s.category \in ObjectCategories THEN 800 ELSE 0)
                + (IF s.flags \cap LicenseFlags # {} THEN 500 ELSE 0))
        + Volume(s.n)
        + (IF s.category \in FashionCategories THEN 800 ELSE IF s.model = Unknown THEN -1200 ELSE 200)
        + AtMostOf(1000, 250 * Cardinality(op.signals))
        + (AngleComposite(s) - 5000) \div 10
        + (IF AngleAnomaly(s) >= 6000 THEN 800 ELSE 0) + (IF op.weak THEN 1200 ELSE 0)
        + CASE op.lifecycle = "emerging" -> 400 [] op.lifecycle = "growth" -> 200
            [] op.lifecycle = "maturity" -> 100 [] OTHER -> -2000
        + (IF s.intl THEN 400 ELSE 0) + (8 * (op.confidence - 5000)) \div 100

\* One famous brand and one high value at most: a niche that is left out later
\* for another reason has taken that place all the same.
Counters == [famous |-> 0, high |-> 0, picked |-> <<>>]

Taken(c, P(_)) == Cardinality({i \in DOMAIN c.picked : P(c.picked[i])})

Consider(c, s, type) ==
    LET famous == s.brand \in FamousBrands
        counted == [c EXCEPT !.famous = IF famous THEN @ + 1 ELSE @,
                             !.high = IF type = "high_value" THEN @ + 1 ELSE @]
        full == \/ Taken(c, LAMBDA o : NicheType(o) = type) >= 3
                \/ Taken(c, LAMBDA o : o.category = s.category) >= 2
                \/ s.brand \notin {Unknown, "inconnu"} /\ Taken(c, LAMBDA o : o.brand = s.brand) >= 2
                \/ Taken(c, LAMBDA o : o.domain = s.domain)
                       >= (IF s.category \in FashionCategories THEN 2 ELSE 1)
                \/ s.n > 80 /\ type \notin {"hidden", "undervalued"}
    IN  IF famous /\ c.famous >= 1 THEN c
        ELSE IF type = "high_value" /\ c.high >= 1 THEN [c EXCEPT !.famous = counted.famous]
        ELSE IF full THEN counted
        ELSE [counted EXCEPT !.picked = Append(@, s)]

\* snaps: the snapshots that are opportunities, each of a name of its own.  Those of
\* one rank are in any order: the code goes by the margin and by the order of the rows.
Ranked(snaps, rank(_)) ==
    {q \in SetToSeqs(snaps) : \A i, j \in DOMAIN q : i < j => rank(q[i]) >= rank(q[j])}

Select(ranked, limit) ==
    LET all == FoldLeft(LAMBDA c, s : Consider(c, s, NicheType(s)), Counters, ranked).picked
    IN  SubSeq(all, 1, Min({limit, Len(all)}))

-----------------------------------------------------------------------------
(* Cycle after cycle: what is picked is recorded, and bends the next score. *)

CONSTANTS
    Markets,    \* what the market of a niche may look like
    Niches,     \* the niche keys
    Limit,      \* how many niches a cycle picks
    MaxMoves    \* bound: how often a market changes

\* A snapshot: the columns of niche_snapshots that the code reads, with the windows
\* of the same niche.
Of(field) == {m[field] : m \in Markets}

IsWindow(w) == w.fresh \in Nat /\ w.n \in Nat /\ w.median \in Nat \cup {Unknown}

Snapshot ==
    [key : Niches \cup Of("key"), name : Of("name"), brand : Of("brand"), model : Of("model"),
     category : Of("category"), domain : Of("domain"), flags : Of("flags"), win : Of("win"),
     n : Nat, gone : Nat, fresh : Nat, active : Nat, favs : Nat, views : Nat, variants : Nat,
     min : Nat, p25 : Nat, median : Nat, mean : Nat, max : Nat,
     sellers : Nat \cup {Unknown}, ttl : Nat \cup {Unknown},
     margin : Int \cup {Unknown}, score : Int \cup {Unknown}, intl : BOOLEAN]

ASSUME MarketAssumption ==
    /\ IsFiniteSet(Niches) /\ Markets \subseteq Snapshot
    /\ \A s \in Markets : \A w \in DOMAIN s.win : IsWindow(s.win[w])

\* The line is below what a strong record and the tolerance about it come to.
ASSUME LineAssumption == MinScore \in 1 .. 6501 /\ Limit \in Nat \ {0}

VARIABLES
    market,     \* [niche -> its snapshot]
    learnt,     \* [niche -> the scores that were recorded of it, the newest last]
    picked,     \* the niches that the last cycle picked
    moves       \* how often a market moved

ovars == <<market, learnt, picked, moves>>

EngineInit ==
    /\ \E f \in [Niches -> Markets] : market = [k \in Niches |-> [f[k] EXCEPT !.key = k]]
    /\ learnt = [k \in Niches |-> <<>>] /\ picked = {} /\ moves = 0

\* Only a niche that is picked is recorded; the score reads its last five records.
LastFive(h) == SubSeq(h, Max({1, Len(h) - 4}), Len(h))

\* discovery_candidate_snapshots: the pool is larger than the niches of an instance.
Candidate(s) == s.score # Unknown /\ Granular(s)

\* recent: what was published too lately to be looked at again, see WasPosted of
\* NicheDetector; here any niche with a record may be.
DetectAmong(op) ==
    \E recent \in SUBSET {k \in Niches : learnt[k] # <<>>} :
    LET found == {k \in Niches \ recent : Candidate(market[k]) /\ op[k] # Unknown}
    IN  \E ranked \in Ranked({market[k] : k \in found}, LAMBDA s : RankKey(s, op[s.key])) :
        /\ picked' = {s.key : s \in ToSet(Select(ranked, Limit))}
        /\ learnt' = [k \in Niches |-> IF k \in picked' THEN LastFive(Append(learnt[k], op[k].score))
                                       ELSE learnt[k]]
        /\ UNCHANGED <<market, moves>>

Detect == DetectAmong([k \in Niches |-> OpportunityOf(market[k], learnt[k])])

\* The windows are computed again.
Move ==
    /\ moves < MaxMoves /\ moves' = moves + 1 /\ picked' = {}
    /\ \E k \in Niches, s \in Markets : market' = [market EXCEPT ![k] = [s EXCEPT !.key = k]]
    /\ UNCHANGED learnt

EngineNext == Detect \/ Move

EngineSpec == EngineInit /\ [][EngineNext]_ovars

-----------------------------------------------------------------------------
(* Properties *)

\* The history of a niche never lifts a market that is weak by itself over the
\* line: only what was an opportunity is recorded, and a score is raised only far
\* above the record or on a strong one (learning_score_adjustment).
WeakNeverLearnt == \A k \in picked : MarketScore(market[k]) >= MinScore

=============================================================================
