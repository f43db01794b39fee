---------------------------- MODULE MCDealFilter ----------------------------
(***************************************************************************)
(* A part of the shipped configuration (config/deal_filters.yaml): a brand *)
(* of clothes and one of shoes, the scoring, and listings of either and of *)
(* a brand that is not configured, at prices around the bounds.            *)
(***************************************************************************)
EXTENDS DealFilter

MCCategoryWords == <<[category |-> "chaussure", words |-> {"basket"}],
                     [category |-> "veste", words |-> {"veste"}],
                     [category |-> "polo", words |-> {"polo"}]>>

MCRule(maxBuy, resell, rarity) == [maxBuy |-> maxBuy, resell |-> resell, rarity |-> rarity]

MCDeals ==
    [b \in {"ralph lauren", "salomon"} |->
        IF b = "salomon"
        THEN [allowShoes |-> TRUE, shoesOnly |-> TRUE, score |-> 60,
              items |-> [c \in {"chaussure"} |-> MCRule(60, 110, "high")]]
        ELSE [allowShoes |-> FALSE, shoesOnly |-> FALSE, score |-> 85,
              items |-> [c \in {"polo", "veste"} |->
                            IF c = "polo" THEN MCRule(25, 50, "medium")
                            ELSE MCRule(45, 90, "high")]]]

MCDealSettings ==
    [enabled |-> TRUE, minScore |-> 5, requireBrand |-> FALSE, useFallback |-> TRUE,
     maxAge |-> 60, multiplier |-> 4, rejectKids |-> TRUE, rejectShoes |-> TRUE,
     rejectReplicas |-> TRUE]

MCScoring ==
    [weights |-> [margin |-> 30, brand |-> 15, rarity |-> 15, category |-> 10,
                  below |-> 20, freshness |-> 10],
     rarity |-> [low |-> 40, medium |-> 60, high |-> 80, ultra |-> 100],
     freshness |-> [t \in {5, 15, 60, 360} |->
                       CASE t = 5 -> 10 [] t = 15 -> 8 [] t = 60 -> 5 [] t = 360 -> 2],
     pepite |-> 90, bonDeal |-> 75, surveillance |-> 60]

MCArticle ==
    {[brand |-> "ralph lauren", words |-> {"veste"}, signals |-> {}],
     [brand |-> "ralph lauren", words |-> {}, signals |-> {}],
     [brand |-> "ralph lauren", words |-> {"polo"}, signals |-> {"kids size age", "adult size"}],
     [brand |-> "ralph lauren", words |-> {"polo"}, signals |-> {"kids title"}],
     [brand |-> "ralph lauren", words |-> {"basket"}, signals |-> {"shoe word"}],
     [brand |-> "salomon", words |-> {"basket"}, signals |-> {"shoe word"}],
     [brand |-> "salomon", words |-> {"veste"}, signals |-> {"clothing word"}],
     [brand |-> "autre", words |-> {"veste"}, signals |-> {}]}

MCOffer ==
    {[brand |-> a.brand, words |-> a.words, signals |-> a.signals, price |-> p, age |-> t] :
        a \in MCArticle, p \in {NoValue, 1, 20, 45, 60, 90, 180, 181},
        t \in {NoValue, 0, 6, 61}}

=============================================================================
