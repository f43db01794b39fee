-------------------------- MODULE MCChannelRouting --------------------------
(***************************************************************************)
(* A part of the shipped configuration: a brand of clothes, one of shoes,  *)
(* one with a channel for each and a luxury brand whose shoes are searched *)
(* and have a price (here a third of the real one).                         *)
(***************************************************************************)
EXTENDS ChannelRouting

MCCategoryWords == <<[category |-> "chaussure", words |-> {"escarpins"}],
                     [category |-> "veste", words |-> {"veste"}]>>

MCRule(maxBuy, resell, rarity) == [maxBuy |-> maxBuy, resell |-> resell, rarity |-> rarity]

MCDeal(shoes, only, score, items) ==
    [allowShoes |-> shoes, shoesOnly |-> only, score |-> score, items |-> items]

MCShoe(maxBuy, resell) == [c \in {"chaussure"} |-> MCRule(maxBuy, resell, "high")]
MCBoth(maxBuy, resell) == [c \in {"chaussure", "veste"} |-> MCRule(maxBuy, resell, "high")]

MCDeals ==
    [b \in {"ralph lauren", "salomon", "nike", "prada"} |->
        CASE b = "ralph lauren" -> MCDeal(FALSE, FALSE, 85,
                                          [c \in {"veste"} |-> MCRule(45, 90, "high")])
          [] b = "salomon" -> MCDeal(TRUE, TRUE, 60, MCShoe(60, 110))
          [] b = "nike" -> MCDeal(TRUE, FALSE, 80, MCBoth(50, 100))
          [] b = "prada" -> MCDeal(TRUE, FALSE, 90, MCBoth(60, 130))]

MCDealSettings ==
    [enabled |-> TRUE, minScore |-> 5, requireBrand |-> FALSE, useFallback |-> TRUE,
     maxAge |-> 60, multiplier |-> 4, rejectKids |-> TRUE, rejectShoes |-> TRUE,
     rejectReplicas |-> TRUE]

MCScoring ==
    [weights |-> [margin |-> 30, brand |-> 15, rarity |-> 15, category |-> 10,
                  below |-> 20, freshness |-> 10],
     rarity |-> [low |-> 40, medium |-> 60, high |-> 80, ultra |-> 100],
     freshness |-> [t \in {5, 15, 60, 360} |->
                       CASE t = 5 -> 10 [] t = 15 -> 8 [] t = 60 -> 5 [] t = 360 -> 2],
     pepite |-> 90, bonDeal |-> 75, surveillance |-> 60]

MCBrandChannel ==
    [b \in {"ralph lauren", "nike", "prada"} |-> <<"clothes", b>>]

MCSneakerChannel == [b \in {"nike", "salomon"} |-> <<"sneakers", b>>]

MCSearches ==
    {[brand |-> "ralph lauren", catalogs |-> {"clothes"}, enabled |-> TRUE],
     [brand |-> "nike", catalogs |-> {"clothes"}, enabled |-> TRUE],
     [brand |-> "nike", catalogs |-> {"shoes"}, enabled |-> TRUE],
     [brand |-> "salomon", catalogs |-> {"shoes"}, enabled |-> TRUE],
     [brand |-> "prada", catalogs |-> {"clothes", "shoes"}, enabled |-> TRUE]}

MCBegins == {<<"nike sb", "nike">>}

MCOffer ==
    {[brand |-> b, words |-> w[1], signals |-> w[2], price |-> p, age |-> t] :
        b \in {"ralph lauren", "nike", "nike sb", "salomon", "prada"},
        w \in {<<{"veste"}, {"clothing word"}>>, <<{}, {}>>, <<{}, {"shoe catalogue"}>>,
               <<{"escarpins"}, {"shoe word", "shoe catalogue"}>>},
        p \in {20, 150}, t \in {NoValue, 0}}

=============================================================================
