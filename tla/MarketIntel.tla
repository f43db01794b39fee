----------------------------- MODULE MarketIntel -----------------------------
(***************************************************************************)
(* The market intelligence (services/market_intel.py): a cycle computes,   *)
(* for every niche and window, the metrics and the score of its listings   *)
(* and writes them over the last ones; then it posts a board to each       *)
(* channel whose last board is old enough, and last the bargains it found. *)
(* The retention deletes snapshots that nobody computes any more.          *)
(*                                                                         *)
(* The listings of a niche are a sequence of rows, of which a cycle sees   *)
(* any of a constant set; ages are in days and prices in euros, scores and *)
(* percentages in hundredths and whole numbers, cut after each division.   *)
(* A board is two messages here, one card, if there is any, and the        *)
(* leaderboard.                                                            *)
(***************************************************************************)
EXTENDS Integers, Sequences, SequencesExt, FiniteSetsExt, Functions

CONSTANTS
    Gone,            \* None: no snapshot, no score, no date
    NicheKey, Sample, \* niche keys, and what their rows may be: [NicheKey -> set of sequences]
    WindowDays,      \* WINDOW_DAYS, as [window -> days]
    MinRows,         \* MIN_NICHE_LISTINGS, MIN_LISTINGS
    Saturation,      \* [NicheKey -> brand_saturation_penalty, in tenths]
    BrandOf, ModelOf, Precise,  \* [NicheKey -> its brand, its model], the precise ones
    SnapshotKeep,    \* niche_snapshots_keep_days, in ticks
    Board, BoardCooldown, BargainCooldown,  \* the channels; hours, in ticks
    MaxBargains,     \* PEPITE_MAX_PER_CYCLE
    MaxBadLuck       \* bound: crashes and failed requests

-----------------------------------------------------------------------------
(* _metrics_for_bucket *)

Within(x, days) == x # Gone /\ x <= days
\* Present in the window, first seen in it or gone in it.
InWindow(r, days) == Within(r.seen, days) \/ Within(r.first, days) \/ Within(r.left, days)

\* The i-th smallest of some values, each with the row that it is of.
Nth(values, i) ==
    CHOOSE v \in Range(values) :
        /\ Cardinality({j \in DOMAIN values : values[j] < v}) < i
        /\ i <= Cardinality({j \in DOMAIN values : values[j] <= v})

MedianOf(values) ==
    LET n == Cardinality(DOMAIN values)
    IN  IF n = 0 THEN Gone
        ELSE IF n % 2 = 1 THEN Nth(values, (n + 1) \div 2)
        ELSE (Nth(values, n \div 2) + Nth(values, n \div 2 + 1)) \div 2

\* _percentile(0.25): counted from zero, one below the quarter.
Quarter(values) ==
    LET n == Cardinality(DOMAIN values)
    IN  IF n = 0 THEN Gone ELSE Nth(values, Max({0, n \div 4 - 1}) + 1)

MarginOf(median, p25) ==
    IF median = Gone \/ p25 = Gone \/ p25 = 0 THEN Gone ELSE (100 * (median - p25)) \div p25

\* How long a row that left was on sale.
DaysOnSale(r) == (IF r.born # Gone THEN r.born ELSE r.first) - r.left

Bound(low, x, high) == Max({low, Min({x, high})})

-----------------------------------------------------------------------------
(* compute_niche_score *)

\* Without a sale that was seen the speed counts for little.
SpeedPoints(m) ==
    CASE m.gone >= 2 /\ m.ttl # Gone -> Bound(0, 2500 \div Bound(1, m.ttl, 30), 2500)
      [] m.gone >= 2 /\ m.ttl = Gone -> 1200
      [] OTHER -> 300

\* A sample of a medium size is best, a market that everybody hunts in worst.
SizePoints(n) ==
    CASE n \in 5 .. 25 -> 2200 [] n \in 26 .. 40 -> 1400 [] n \in 41 .. 70 -> 600 [] OTHER -> 100

SellerPoints(m) ==
    LET ratio == (100 * Max({1, m.sellers})) \div Max({1, m.n})
    IN  CASE ratio \in 15 .. 55 -> 1000 [] ratio < 15 -> 400 [] OTHER -> 600

GrowthPoints(m) ==
    LET trend == IF m.vol30 > 0 THEN (400 * m.vol7) \div Max({4, m.vol30}) ELSE 100
    IN  IF m.n <= 40 /\ trend >= 115 THEN Bound(0, (800 * (trend - 100)) \div 150, 800) ELSE 0

NicheScore(m, saturation) ==
    LET net == Bound(0, m.margin, 150) - 6
    IN  IF m.margin = Gone \/ net < 35 \/ Max({m.fresh, m.vol30, m.n}) < MinRows THEN Gone
        ELSE Bound(0, (10 * (Bound(0, (3500 * (net - 35)) \div 65, 3500) + SpeedPoints(m)
                             + SizePoints(m.n) + SellerPoints(m) + GrowthPoints(m)))
                        \div saturation, 10000)

-----------------------------------------------------------------------------
(* compute_all_snapshots *)

Metrics(k, all, days) ==
    LET in == {i \in DOMAIN all : InWindow(all[i], days)}
        on == {i \in in : all[i].active}
        off == {i \in in \ on : Within(all[i].left, days)}
        fresh(d) == Cardinality({i \in DOMAIN all : Within(all[i].first, d)})
        prices == [i \in (IF on # {} THEN on ELSE in) |-> all[i].price]
        m == [n |-> Cardinality(in), fresh |-> fresh(days), gone |-> Cardinality(off),
              sellers |-> Cardinality({all[i].seller : i \in in}),
              median |-> MedianOf(prices), p25 |-> Quarter(prices),
              margin |-> MarginOf(MedianOf(prices), Quarter(prices)),
              ttl |-> MedianOf([i \in off |-> DaysOnSale(all[i])]),
              vol7 |-> fresh(7), vol30 |-> fresh(30)]
    IN  [metrics |-> m, score |-> NicheScore(m, Saturation[k]), age |-> 0]

WindowName == DOMAIN WindowDays

\* The snapshot of every sample; TLC computes it once.
Snapshots ==
    [k \in NicheKey |-> [s \in Sample[k] |-> [w \in WindowName |-> Metrics(k, s, WindowDays[w])]]]

VARIABLES
    rows,     \* [NicheKey -> its listings]
    snap,     \* niche_snapshots: [NicheKey -> [window -> its row, or Gone]]
    mpc,      \* where the cycle is
    jobs,     \* the messages that are still to be sent: <<board, part>>
    had,      \* the boards that this cycle sends
    failed,   \* the channels that turned out unknown in this cycle
    stamp,    \* market:rank:ch:*: [Board -> age of the checkpoint]
    bargains, \* the bargains that are still to be posted, as <<niche, row>>
    told,     \* market:rank:pepite:*: those that were posted lately, with their age
    dead,     \* the channels that do not exist
    shown,    \* history: [Board -> [part -> how long ago it was posted]]
    badLuck

mvars == <<rows, snap, mpc, jobs, had, failed, stamp, bargains, told, dead, shown, badLuck>>
marketrows == <<rows, snap>>
channels == <<dead, shown>>
Part == {1, 2}

IntelInit ==
    /\ rows = [k \in NicheKey |-> <<>>] /\ snap = [k \in NicheKey |-> [w \in WindowName |-> Gone]]
    /\ mpc = "idle" /\ jobs = <<>> /\ had = {} /\ failed = {}
    /\ stamp = [b \in Board |-> BoardCooldown] /\ bargains = {} /\ told = {}
    /\ dead \in SUBSET Board
    /\ shown = [b \in Board |-> [p \in Part |-> BoardCooldown]] /\ badLuck = 0

IntelTypeOK ==
    /\ \A k \in NicheKey : rows[k] \in Sample[k] \cup {<<>>}
    /\ mpc \in {"idle", "snapped", "post", "mark", "bargains"} /\ had \subseteq Board
    /\ failed \subseteq dead /\ stamp \in [Board -> 0 .. BoardCooldown]
    /\ badLuck \in 0 .. MaxBadLuck

MarketMoves ==
    /\ \E k \in NicheKey : \E s \in Sample[k] \cup {<<>>} : rows' = [rows EXCEPT ![k] = s]
    /\ UNCHANGED <<snap, mpc, jobs, had, failed, stamp, bargains, told, channels, badLuck>>

\* A niche of too few listings keeps the snapshot that it had.
Computed(k, w) ==
    IF rows[k] # <<>> /\ Snapshots[k][rows[k]][w].metrics.n >= MinRows
    THEN Snapshots[k][rows[k]][w] ELSE snap[k][w]

ComputeSnapshots ==
    /\ mpc = "idle" /\ mpc' = "snapped"
    /\ snap' = [k \in NicheKey |-> [w \in WindowName |-> Computed(k, w)]]
    /\ UNCHANGED <<rows, jobs, had, failed, stamp, bargains, told, channels, badLuck>>

\* jobs/db_retention.py: an old snapshot goes if its score is low or it has none,
\* in an emergency any.
Weak(s) == s.score = Gone \/ s.score < 5500
Purgeable(s, emergency) == s # Gone /\ s.age >= SnapshotKeep /\ (emergency \/ Weak(s))

PurgeSnapshots(emergency) ==
    /\ snap' = [k \in NicheKey |-> [w \in WindowName |->
                   IF Purgeable(snap[k][w], emergency) THEN Gone ELSE snap[k][w]]]
    /\ UNCHANGED <<rows, mpc, jobs, had, failed, stamp, bargains, told, channels, badLuck>>

-----------------------------------------------------------------------------
(* What is read from the snapshots. *)

Scored(w) == {k \in NicheKey : snap[k][w] # Gone /\ snap[k][w].score # Gone}

\* What the first messages of a board are cards of: top_by_dimension, top_snapshots.
Cards(b) ==
    CASE b = "marques" -> {BrandOf[k] : k \in Scored("30d")}
      [] b = "modeles" -> {ModelOf[k] : k \in Scored("30d")} \ {Gone}
      [] b = "classements" -> Scored("30d") \cap Precise
      [] OTHER -> {}

\* What is on sale below the quarter of a good, precise niche.  (is_market_domain holds
\* of every row: those that are not analyzable are in no niche.)
Candidates ==
    {<<k, i>> \in UNION {{k} \X DOMAIN rows[k] : k \in Scored("30d") \cap Precise} :
        LET s == snap[k]["30d"]
            r == rows[k][i]
        IN  /\ s.score >= 5500 /\ s.metrics.margin >= 35
            /\ r.active /\ r.price <= s.metrics.p25
            /\ 100 * (s.metrics.median - r.price) >= 35 * r.price}

BargainScore(x) ==
    LET s == snap[x[1]]["30d"]
        price == rows[x[1]][x[2]].price
    IN  Min({10000, (65 * s.score) \div 100
                    + Min({3500, (2500 * (s.metrics.median - price)) \div price})})

\* find_pepites: the best of them, posted lately or not.
Bargains ==
    {K \in SUBSET Candidates :
        /\ Cardinality(K) = Min({MaxBargains, Cardinality(Candidates)})
        /\ \A x \in K, y \in Candidates \ K : BargainScore(x) >= BargainScore(y)}

-----------------------------------------------------------------------------
(* post_rankings_to_discord *)

Reset == jobs' = <<>> /\ had' = {} /\ failed' = {} /\ bargains' = {}

\* The first part of a cycle posts the niches of the detector (NicheDetector); an
\* error there ends the cycle.
BadLuck == badLuck < MaxBadLuck /\ badLuck' = badLuck + 1

BoardsDue == {b \in Board : stamp[b] >= BoardCooldown}

Messages(b) == IF Cards(b) = {} THEN <<<<b, 2>>>> ELSE <<<<b, 1>>, <<b, 2>>>>

BeginBoards ==
    /\ mpc = "snapped" /\ mpc' = "post" /\ had' = BoardsDue
    /\ jobs' = FlattenSeq([i \in 1 .. Cardinality(BoardsDue) |-> Messages(SetToSeq(BoardsDue)[i])])
    /\ UNCHANGED <<marketrows, failed, stamp, bargains, told, channels, badLuck>>

\* The channel is known: the message is there, or the error ends the cycle.
PostBoard ==
    /\ mpc = "post" /\ jobs # <<>> /\ Head(jobs)[1] \notin dead
    /\ LET b == Head(jobs)[1]
           p == Head(jobs)[2]
       IN  shown' = [shown EXCEPT ![b][p] = 0]
    /\ jobs' = Tail(jobs)
    /\ UNCHANGED <<marketrows, mpc, had, failed, stamp, bargains, told, dead, badLuck>>

\* Mutant: an unknown channel ends the posting.
UnknownEndsAll ==
    /\ mpc = "post" /\ jobs # <<>> /\ Head(jobs)[1] \in dead
    /\ failed' = failed \cup {Head(jobs)[1]} /\ jobs' = <<>>
    /\ UNCHANGED <<marketrows, mpc, had, stamp, bargains, told, channels, badLuck>>

\* The rest of the messages of that channel is left out, and the cycle goes on.
UnknownBoard ==
    /\ mpc = "post" /\ jobs # <<>> /\ Head(jobs)[1] \in dead
    /\ failed' = failed \cup {Head(jobs)[1]}
    /\ jobs' = SelectSeq(jobs, LAMBDA j : j[1] # Head(jobs)[1])
    /\ UNCHANGED <<marketrows, mpc, had, stamp, bargains, told, channels, badLuck>>

BoardsDone ==
    /\ mpc = "post" /\ jobs = <<>> /\ mpc' = "mark" /\ had' = had \ failed
    /\ UNCHANGED <<marketrows, jobs, failed, stamp, bargains, told, channels, badLuck>>

\* Each checkpoint in a transaction of its own.
MarkBoard ==
    /\ mpc = "mark"
    /\ \E b \in had : stamp' = [stamp EXCEPT ![b] = 0] /\ had' = had \ {b}
    /\ UNCHANGED <<marketrows, mpc, jobs, failed, bargains, told, channels, badLuck>>

BeginBargains ==
    /\ mpc = "mark" /\ had = {} /\ mpc' = "bargains"
    /\ \E K \in Bargains : bargains' = {x \in K : \A t \in told : t[1] # x}
    /\ UNCHANGED <<marketrows, jobs, had, failed, stamp, told, channels, badLuck>>

PostBargain ==
    /\ mpc = "bargains"
    /\ \E x \in bargains : bargains' = bargains \ {x} /\ told' = told \cup {<<x, 0>>}
    /\ UNCHANGED <<marketrows, mpc, jobs, had, failed, stamp, channels, badLuck>>

\* There are no more, or their channel is unknown.
EndIntel ==
    /\ mpc = "bargains" /\ mpc' = "idle" /\ Reset
    /\ UNCHANGED <<marketrows, stamp, told, channels, badLuck>>

\* An error that is not an unknown channel, or a stop of the process.  A message
\* may have been posted all the same, and no checkpoint knows of it.
IntelFails ==
    /\ mpc # "idle" /\ mpc' = "idle" /\ Reset /\ BadLuck
    /\ UNCHANGED <<marketrows, stamp, told, channels>>

Until(x, limit) == IF x < limit THEN x + 1 ELSE limit
AgeOf(s) == IF s = Gone THEN Gone ELSE [s EXCEPT !.age = Until(@, SnapshotKeep)]

IntelTick ==
    /\ snap' = [k \in NicheKey |-> [w \in WindowName |-> AgeOf(snap[k][w])]]
    /\ stamp' = [b \in Board |-> Until(stamp[b], BoardCooldown)]
    /\ told' = {<<t[1], t[2] + 1>> : t \in {u \in told : u[2] + 1 < BargainCooldown}}
    /\ shown' = [b \in Board |-> [p \in Part |-> Until(shown[b][p], BoardCooldown)]]
    /\ UNCHANGED <<rows, mpc, jobs, had, failed, bargains, dead, badLuck>>

IntelCycle ==
    \/ ComputeSnapshots \/ BeginBoards \/ PostBoard \/ UnknownBoard \/ BoardsDone
    \/ MarkBoard \/ BeginBargains \/ PostBargain \/ EndIntel

IntelNext ==
    \/ MarketMoves \/ IntelCycle \/ IntelFails
    \/ (\E yes \in BOOLEAN : PurgeSnapshots(yes)) \/ IntelTick

\* The loop of the market runs for ever.
IntelFairness == WF_mvars(IntelCycle) /\ WF_mvars(IntelTick)

-----------------------------------------------------------------------------
(* Properties *)

\* A channel that exists gets its leaderboard again and again, whatever becomes of the
\* others: an unknown one is left out, not the end of the cycle.
BoardsServed == \A b \in Board : []<>(b \in dead \/ shown[b][2] < BoardCooldown)

=============================================================================
