----------------------------- MODULE DealFilter -----------------------------
(***************************************************************************)
(* The verdict on a listing (services/deal_filter.py): may it be posted,   *)
(* with which score.  A title is the set of the words of it that some list *)
(* of keywords knows; prices are whole euros, and scores are computed      *)
(* exactly and rounded once, as the code does.                             *)
(***************************************************************************)
EXTENDS Integers, Sequences, FiniteSets, FiniteSetsExt

CONSTANTS
    NoValue,        \* a price or an age that is not known, a category not found
    CategoryWords,  \* <<[category, words], ...>> in the order of the YAML
    ShoeCategories, \* shoes_filter.categories
    Deals,          \* [brand -> BrandDealConfig], the brands that are configured
    DealSettings,   \* DealFilterSettings
    Scoring         \* ScoringConfig

Term == {"margin", "below", "brand", "rarity", "category", "freshness"}

\* What a price that is configured looks like (CategoryRule).
IsRule(r) ==
    /\ r.maxBuy \in Nat \ {0} /\ r.resell \in Nat \ {0}
    /\ r.rarity \in DOMAIN Scoring.rarity

ASSUME CategoryAssumption ==
    CategoryWords \in Seq({CategoryWords[i] : i \in DOMAIN CategoryWords})

\* What the loader of the YAML makes of it: the scores of brands are cut.
ASSUME DealAssumption ==
    /\ DealSettings.multiplier \in Nat \ {0}
    /\ DealSettings.minScore \in Nat
    /\ DealSettings.maxAge \in Nat \cup {NoValue}
    /\ \A b \in DOMAIN Deals :
          /\ Deals[b].score \in 0 .. 100
          /\ IsFiniteSet(DOMAIN Deals[b].items)
          /\ \A c \in DOMAIN Deals[b].items : IsRule(Deals[b].items[c])

\* Some term counts, and an older listing has no more points for its freshness.
ASSUME ScoringAssumption ==
    /\ Scoring.weights \in [Term -> Nat]
    /\ \E k \in Term : Scoring.weights[k] > 0
    /\ "medium" \in DOMAIN Scoring.rarity
    /\ \A r \in DOMAIN Scoring.rarity : Scoring.rarity[r] \in 0 .. 100
    /\ DOMAIN Scoring.freshness \subseteq Nat /\ IsFiniteSet(DOMAIN Scoring.freshness)
    /\ \A t \in DOMAIN Scoring.freshness :
          /\ Scoring.freshness[t] \in Nat
          /\ \A u \in DOMAIN Scoring.freshness :
                t <= u => Scoring.freshness[u] <= Scoring.freshness[t]
    /\ Scoring.pepite \in Nat /\ Scoring.bonDeal \in Nat /\ Scoring.surveillance \in Nat

\* What a title, a size or the catalogue of a listing may give away.
Signal == {"replica", "kids title", "kids age", "kids size", "kids size age",
           "adult size", "shoe word", "shoe catalogue", "clothing word"}

Has(l, s) == s \in l.signals

-----------------------------------------------------------------------------
(* What kind of article it is. *)

\* A size that is clearly an adult's is no sign of a child by its digits alone.
IsKids(l) ==
    /\ DealSettings.rejectKids
    /\ \/ Has(l, "kids title") \/ Has(l, "kids age") \/ Has(l, "kids size")
       \/ Has(l, "kids size age") /\ ~Has(l, "adult size")

IsReplica(l) == DealSettings.rejectReplicas /\ Has(l, "replica")

\* The first category of the list one of whose keywords the title holds.
DetectCategory(l, allowed) ==
    LET hits == {i \in DOMAIN CategoryWords :
                    /\ CategoryWords[i].category \in allowed
                    /\ CategoryWords[i].words \cap l.words # {}}
    IN  IF hits = {} THEN NoValue ELSE CategoryWords[Min(hits)].category

AnyCategory == {CategoryWords[i].category : i \in DOMAIN CategoryWords}

IsShoe(l) == Has(l, "shoe word") \/ DetectCategory(l, AnyCategory) \in ShoeCategories

DetectShoe(l) == Has(l, "shoe catalogue") \/ IsShoe(l)

IsClothing(l) ==
    \/ Has(l, "clothing word")
    \/ /\ ~IsShoe(l)
       /\ DetectCategory(l, AnyCategory) \notin ShoeCategories \cup {NoValue, "default"}

AllowsShoes(brand) == brand \in DOMAIN Deals /\ Deals[brand].allowShoes

-----------------------------------------------------------------------------
(* The rule that gives its price: <<category, rule, whether it is a guess>>. *)

\* The upper median of a field of some rules.
Median(rules, field) ==
    CHOOSE v \in {rules[c][field] : c \in DOMAIN rules} :
        LET below(x) == Cardinality({c \in DOMAIN rules : rules[c][field] < x})
        IN  below(v) <= Cardinality(DOMAIN rules) \div 2
            /\ below(v + 1) > Cardinality(DOMAIN rules) \div 2

MedianRule(items) ==
    LET clothes == DOMAIN items \ ShoeCategories
        rules == [c \in (IF clothes = {} THEN DOMAIN items ELSE clothes) |-> items[c]]
    IN  [maxBuy |-> Median(rules, "maxBuy"), resell |-> Median(rules, "resell"),
         rarity |-> "medium"]

ResolveCategory(l, deal) ==
    LET items == deal.items
        found == DetectCategory(l, AnyCategory)
        first == IF found \in ShoeCategories \ DOMAIN items /\ "chaussure" \in DOMAIN items
                 THEN "chaussure" ELSE found
        second == DetectCategory(l, DOMAIN items)
    IN  CASE first \in DOMAIN items -> <<first, items[first], FALSE>>
          [] first \notin DOMAIN items /\ second # NoValue -> <<second, items[second], FALSE>>
          [] OTHER ->
             IF deal.shoesOnly /\ "chaussure" \in DOMAIN items
             THEN <<"chaussure", items["chaussure"], TRUE>>
             ELSE IF ~DealSettings.useFallback \/ DOMAIN items = {}
             THEN <<NoValue, NoValue, FALSE>>
             ELSE IF "default" \in DOMAIN items THEN <<"default", items["default"], TRUE>>
             ELSE <<"default", MedianRule(items), TRUE>>

-----------------------------------------------------------------------------
(* The score. *)

\* Hundredths of a quantity n/d, cut at 100.
Percent(factor, n, d) == IF n <= 0 THEN 0 ELSE Min({100 * d, factor * n})

\* Mutant: the comparison is turned round.
FreshnessSwapped(age) ==
    IF age = NoValue THEN 40
    ELSE LET fits == {t \in DOMAIN Scoring.freshness : age >= t}
         IN  IF fits = {} THEN 0 ELSE 10 * Scoring.freshness[Max(fits)]

Freshness(age) ==
    IF age = NoValue THEN 40
    ELSE LET fits == {t \in DOMAIN Scoring.freshness : age <= t}
         IN  IF fits = {} THEN 0 ELSE 10 * Scoring.freshness[Min(fits)]

\* Python rounds to the nearest whole number.
Round(n, d) == (2 * n + d) \div (2 * d)

\* A bonus for a price that is clearly below the most that may be paid.
Steal(price, rule, maxBuy) == 15 * (maxBuy - price) * rule.resell

\* Every term is a fraction of resell * maxBuy.
ScoreDeal(price, rule, maxBuy, brandScore, age, guessed) ==
    LET w == Scoring.weights
        unit == rule.resell * maxBuy
        margin == Percent(140, (rule.resell - price) * maxBuy, unit)
        below == Min({100 * unit, Percent(130, (rule.resell - price) * maxBuy, unit)
                                    + Steal(price, rule, maxBuy)})
        points == margin * w.margin + below * w.below
                  + unit * (brandScore * w.brand
                            + Scoring.rarity[rule.rarity] * w.rarity
                            + (IF guessed THEN 55 ELSE 100) * w.category
                            + Freshness(age) * w.freshness)
        total == w.margin + w.below + w.brand + w.rarity + w.category + w.freshness
    IN  Max({0, Min({100, Round(points, unit * total)})})

\* Only the first of the three bounds is strict.
Level(score) ==
    CASE score > Scoring.pepite -> "pepite"
      [] score \in Scoring.bonDeal .. Scoring.pepite -> "bon_deal"
      [] score \in Scoring.surveillance .. Scoring.bonDeal - 1 -> "surveillance"
      [] OTHER -> "skip"

-----------------------------------------------------------------------------
(* evaluate_deal *)

Reject(reason) == [post |-> FALSE, score |-> 0, level |-> "skip", reason |-> reason]
Post(score, level, reason) ==
    [post |-> TRUE, score |-> score, level |-> level, reason |-> reason]

TooOld(l) ==
    /\ DealSettings.maxAge # NoValue /\ l.age # NoValue
    /\ l.age > DealSettings.maxAge

OfScore(score, guessed) ==
    IF score >= DealSettings.minScore /\ Level(score) # "skip"
    THEN Post(score, Level(score), IF guessed THEN "ok_fallback" ELSE "ok")
    ELSE [Reject("score_too_low") EXCEPT !.score = score]

OfRule(l, brandScore, category, rule, guessed) ==
    LET maxBuy == rule.maxBuy * DealSettings.multiplier
    IN  IF category = NoValue THEN Reject("category_not_matched")
        ELSE IF l.price > maxBuy THEN Reject("price_above_max")
        ELSE OfScore(ScoreDeal(l.price, rule, maxBuy, brandScore, l.age, guessed), guessed)

\* A listing of a configured brand at a known price.
EvaluatePrice(l, deal) ==
    LET resolved == ResolveCategory(l, deal)
    IN  OfRule(l, deal.score, resolved[1], resolved[2], resolved[3])

EvaluateDeal(l) ==
    CASE TooOld(l) -> Reject("too_old")
      [] ~TooOld(l) /\ IsReplica(l) -> Reject("replica_item")
      [] OTHER ->
         IF IsKids(l) THEN Reject("kids_item")
         ELSE IF DealSettings.rejectShoes /\ DetectShoe(l) /\ ~AllowsShoes(l.brand)
         THEN Reject("shoes_not_allowed")
         ELSE IF ~DealSettings.enabled THEN Post(100, "bon_deal", "filter_disabled")
         ELSE IF l.price = NoValue THEN Reject("missing_price")
         ELSE IF l.brand \notin DOMAIN Deals
         THEN IF DealSettings.requireBrand THEN Reject("brand_not_configured")
              ELSE Post(Max({DealSettings.minScore, 50}), "surveillance",
                        "ok_unconfigured_brand")
         ELSE IF Deals[l.brand].shoesOnly /\ IsClothing(l) THEN Reject("not_a_shoe")
         ELSE EvaluatePrice(l, Deals[l.brand])

-----------------------------------------------------------------------------
(* A soft rejection is not the last word: a listing that is scraped again is *)
(* looked at again, with the price and the age that it has by then.          *)

CONSTANT Offer  \* listings: [brand, words, signals, price, age]

ASSUME OfferAssumption ==
    Offer \subseteq [brand : {o.brand : o \in Offer}, words : {o.words : o \in Offer},
                     signals : SUBSET Signal, price : Nat \cup {NoValue},
                     age : Nat \cup {NoValue}]

VARIABLE offer  \* the listing that was looked at last

FilterInit == offer \in Offer

SameArticle(a, b) == [a EXCEPT !.price = b.price, !.age = b.age] = b

LookAgain == offer' \in {o \in Offer : SameArticle(o, offer)}

FilterSpec == FilterInit /\ [][LookAgain]_offer

-----------------------------------------------------------------------------
(* Properties *)

NoWorse(a, b) ==
    /\ a.price # NoValue /\ b.price # NoValue /\ a.price <= b.price
    /\ a.age = b.age \/ (a.age # NoValue /\ b.age # NoValue /\ a.age <= b.age)

\* The offer that is cheaper and no older than one that is posted is posted too,
\* and with no lower a score, though six terms, of which two are cut and one may
\* be negative, are weighed and rounded, and the bounds of the levels differ.
BetterNeverRejected ==
    [][NoWorse(offer', offer) /\ EvaluateDeal(offer).post
           => EvaluateDeal(offer').post /\ EvaluateDeal(offer').score >= EvaluateDeal(offer).score]_offer

=============================================================================
