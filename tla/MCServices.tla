----------------------------- MODULE MCServices -----------------------------
(***************************************************************************)
(* Small instances of what makes news of the listings: the verdict of the  *)
(* deal filter, the score of a niche, the detector with its sheets, the    *)
(* rows of the listings and the market intelligence.  They share no state  *)
(* in the models, so one run checks them side by side: a behaviour is one  *)
(* of a single part, and the variables of the others are parked, in states *)
(* in which nothing that must happen is enabled.                           *)
(***************************************************************************)
EXTENDS MCDealFilter, OpportunityEngine, NicheSheets, ListingStore, MarketIntel

CONSTANTS n1

VARIABLE part  \* the part a behaviour is about

-----------------------------------------------------------------------------
(* Three markets: one that is just below the line without a history, one   *)
(* just above it and one that is strong.                                   *)

MCBase ==
    [key |-> "", name |-> "n", brand |-> "carhartt", model |-> "m", category |-> "veste",
     domain |-> "fashion", flags |-> {}, n |-> 20, sellers |-> 5, gone |-> 1, ttl |-> Unknown,
     fresh |-> 6, min |-> 30, p25 |-> 60, median |-> 90, mean |-> 95, max |-> 140,
     margin |-> 30, favs |-> 2, views |-> 10, active |-> 12, win |-> <<>>, score |-> 7700,
     intl |-> FALSE, variants |-> 1]

MCWeek(fresh, n, median) == [fresh |-> fresh, n |-> n, median |-> median]

MCHot ==
    [MCBase EXCEPT !.brand = "rare", !.n = 12, !.gone = 2, !.ttl = 6, !.p25 = 50, !.margin = 80,
                   !.score = 8000, !.intl = TRUE,
                   !.win = [w \in {"7d", "30d"} |-> IF w = "7d" THEN MCWeek(8, 10, 95)
                                                   ELSE MCWeek(12, 16, 90)]]

MCMarkets == {MCBase, [MCBase EXCEPT !.score = 9000], MCHot}

-----------------------------------------------------------------------------

MCName == [k \in Niche |-> IF k = n1 THEN "one" ELSE "two"]

\* Hours that a row is kept, six of them to the tick.
MCKeep == [normal |-> 4, tight |-> 3, critical |-> 2, emergency |-> 1]

-----------------------------------------------------------------------------
(* A niche in which the two cheapest are bargains, one more than is posted at *)
(* a time, and one without a margin.                                          *)

MCRow(price, seller) ==
    [first |-> 0, seen |-> 0, left |-> Gone, born |-> 0, active |-> TRUE,
     price |-> price, seller |-> seller]

MCSample ==
    [k \in NicheKey |->
        {<<MCRow(20, 1), MCRow(20, 2), MCRow(50, 3), MCRow(60, 4), MCRow(60, 5)>>,
         <<MCRow(50, 1), MCRow(50, 2), MCRow(50, 3), MCRow(60, 4), MCRow(60, 5)>>}]

MCWindowDays == [w \in {"30d"} |-> 30]
MCSaturation == [k \in NicheKey |-> 10]
MCBrandOf == [k \in NicheKey |-> "brand"]
MCModelOf == [k \in NicheKey |-> Gone]

-----------------------------------------------------------------------------
(* The parts that a behaviour is not about. *)

FilterParked == offer = [CHOOSE a \in Offer : a.price = 45 EXCEPT !.price = 45]

EngineParked ==
    /\ market = [k \in Niches |-> [MCHot EXCEPT !.key = k]] /\ learnt = [k \in Niches |-> <<>>]
    /\ picked = {} /\ moves = MaxMoves

SheetsParked ==
    /\ live = [k \in Niche |-> 0] /\ keys = {} /\ stamps = <<>>
    /\ best = [k \in Niche |-> 0] /\ dpc = "idle" /\ pick = None
    /\ posts = [n \in Names |-> 0] /\ lost = [n \in Names |-> 0] /\ faults = MaxFaults
    /\ fiched = {} /\ skipped = {} /\ since = Hour /\ spc = "parked"
    /\ queue = {} /\ tried = {} /\ developed = FALSE /\ chosen = None
    /\ sheets = [k \in Niche |-> 0] /\ unmarked = [k \in Niche |-> 0] /\ expired = 0

IntelParked ==
    /\ rows = [k \in NicheKey |-> <<>>] /\ snap = [k \in NicheKey |-> [w \in WindowName |-> Gone]]
    /\ mpc = "parked" /\ jobs = <<>> /\ had = {} /\ failed = {}
    /\ stamp = [b \in Board |-> BoardCooldown] /\ bargains = {} /\ told = {} /\ dead = Board
    /\ shown = [b \in Board |-> [p \in Part |-> BoardCooldown]] /\ badLuck = 0

OrParked(p, i, parked) == IF part = p THEN i ELSE parked

ServicesInit ==
    /\ part \in {"filter", "engine", "sheets", "store", "intel"}
    /\ OrParked("filter", FilterInit, FilterParked)
    /\ OrParked("engine", EngineInit, EngineParked)
    /\ OrParked("sheets", SheetsInit, SheetsParked)
    /\ OrParked("intel", IntelInit, IntelParked)
    /\ StoreInit

\* A bound: a fault or a skip that runs out, and not both.
OneMishap == faults' + expired' <= 1

ServicesNext ==
    /\ UNCHANGED part
    /\ \/ part = "filter" /\ LookAgain /\ UNCHANGED <<ovars, sheetvars, lvars, mvars>>
       \/ part = "engine" /\ EngineNext /\ UNCHANGED <<offer, sheetvars, lvars, mvars>>
       \/ part = "sheets" /\ SheetsNext /\ OneMishap /\ UNCHANGED <<offer, ovars, lvars, mvars>>
       \/ part = "store" /\ StoreNext /\ UNCHANGED <<offer, ovars, sheetvars, mvars>>
       \/ part = "intel" /\ IntelNext /\ UNCHANGED <<offer, ovars, sheetvars, lvars>>

ServicesSpec ==
    /\ ServicesInit
    /\ [][ServicesNext]_<<part, offer, ovars, sheetvars, lvars, mvars>>
    /\ SheetsFairness /\ IntelFairness

=============================================================================
