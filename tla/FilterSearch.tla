---------------------------- MODULE FilterSearch ----------------------------
(***************************************************************************)
(* How a new article becomes a member's alert.  The private filters are    *)
(* turned into searches (services/filter_scrape_targets.py) that the brand *)
(* workers run in turn, between the searches of the public feed            *)
(* (jobs/scrape_workers.py, services/scrape_search.py); what a search      *)
(* brings in is stored and then matched against all the active filters     *)
(* (services/private_filters.py).  A worker takes the searches in batches: *)
(* what fails in a batch drops the rest of it.  The queue that sends the   *)
(* alerts is PrivateAlertQueue, when a search is run is ScrapeSchedule.    *)
(***************************************************************************)
EXTENDS Integers, Sequences, FiniteSets, SequencesExt

CONSTANTS
    Item,        \* articles of the catalogue
    Of,          \* [Item -> [brand, words, kind, price, dated]]
    Wish,        \* rows of user_filters: 1..n, by id
    Wants,       \* [Wish -> [brand, words, category, low, high]]
    Nothing,     \* a criterion that is not given
    Aliases,     \* [category -> the words that stand for it]
    ShoeHints,   \* categories that are searched among the shoes
    KnownBrands, \* brands whose brand_ids are in searches.yaml
    Feed,        \* the searches of the public feed (records as those of SearchOf)
    Scraper,     \* brand workers
    MaxTargets,  \* DEFAULT_FILTER_CAP
    BatchSize,   \* [1 .. MaxTargets -> Nat]: _filter_inject_batch_size
    PageSize,    \* max_items of a search
    MaxMatches,  \* private_filter_max_dm_per_scrape
    MaxFresh,    \* private_filter_max_age_seconds
    MaxSlips,    \* bound: steps that fail, and restarts
    MaxToggles   \* bound: filters switched on or off

ASSUME FilterSearchAssumption ==
    /\ Wish \subseteq Nat /\ IsFiniteSet(Wish) /\ MaxTargets \in Nat \ {0} /\ PageSize \in Nat \ {0}
    /\ BatchSize \in [1 .. MaxTargets -> Nat \ {0}] /\ \A n \in 1 .. MaxTargets : BatchSize[n] <= n
    /\ MaxMatches \in Nat \ {0} /\ MaxFresh \in Nat /\ \A t \in Feed : t.own = FALSE

VARIABLES
    shelf,    \* the catalogue, newest first
    old,      \* [Item -> time since its publication], up to MaxFresh + 1
    row,      \* articles that have a row
    rowAge,    \* [Item -> time since its first_seen_at]
    on,       \* active filters
    todo,     \* targets of the rotator that are still to come in this round
    batch,    \* [Scraper -> targets it took from the rotator and is not done with]
    work,     \* [Scraper -> the search it has stored and not yet matched]
    alerted,  \* user_filter_alerts, with the alerts that are on their way
    due,      \* history: <<filter, article>> that the rounds must tell of
    slips,    \* history
    toggles   \* history

qvars == <<shelf, old, row, rowAge, on, todo, batch, work, alerted, due, slips, toggles>>

-----------------------------------------------------------------------------
(* filter_scrape_targets *)

\* The words of a search: those of the keyword and the model, and the brand if it
\* has no ids or nothing else is searched for.
QueryOf(w) ==
    IF w.words # {} /\ (w.brand = Nothing \/ w.brand \in KnownBrands) THEN w.words
    ELSE w.words \cup ({w.brand} \ {Nothing})

\* filter_row_to_search_target, for a filter with some words or a brand.
SearchOf(f) ==
    LET w == Wants[f]
    IN  [label |-> w.brand, ids |-> {w.brand} \cap KnownBrands, text |-> QueryOf(w),
         kind |-> IF w.category \in ShoeHints THEN "shoes" ELSE "clothes",
         low |-> w.low, high |-> w.high, own |-> TRUE]

\* A price alone is no search.
Searchable(f) == Wants[f].words # {} \/ Wants[f].brand # Nothing

\* Two targets are the same search, whatever their label is.
Key(t) == [ids |-> t.ids, text |-> t.text, kind |-> t.kind, low |-> t.low, high |-> t.high]

\* The key of each filter's search; TLC computes it once.
Keys == [f \in Wish |-> Key(SearchOf(f))]

\* The first of the active filters of each key, up to the cap.
ActiveTargets ==
    LET firsts == {f \in on : /\ Searchable(f)
                              /\ \A g \in on : g < f /\ Searchable(g) => Keys[g] # Keys[f]}
        order == SetToSortSeq(firsts, <)
        all == [i \in 1 .. Cardinality(firsts) |-> SearchOf(order[i])]
    IN  SubSeq(all, 1, IF Len(all) < MaxTargets THEN Len(all) ELSE MaxTargets)

-----------------------------------------------------------------------------
(* The catalogue *)

Between(price, low, high) ==
    /\ low # Nothing => price # Nothing /\ price >= low
    /\ high # Nothing => price # Nothing /\ price <= high

\* build_catalog_params: everything that is given restricts the search.
Finds(key, a) ==
    /\ key.ids # {} => Of[a].brand \in key.ids
    /\ key.text \subseteq Of[a].words \cup {Of[a].brand}
    /\ key.kind = Of[a].kind
    /\ Between(Of[a].price, key.low, key.high)

\* The first page of a search in a catalogue.
FirstPage(catalogue, key) ==
    LET found == SelectSeq(catalogue, LAMBDA a : Finds(key, a))
    IN  ToSet(SubSeq(found, 1, IF Len(found) < PageSize THEN Len(found) ELSE PageSize))

\* What a worker keeps of the page: the brand of the label, if it has one.
PageOf(t) == {a \in FirstPage(shelf, Key(t)) : t.label \in {Nothing, Of[a].brand}}

-----------------------------------------------------------------------------
(* private_filters *)

\* is_fresh_listing: the date of the catalogue, or else that of the row.
Fresh(a) == IF Of[a].dated THEN old[a] <= MaxFresh ELSE rowAge[a] <= MaxFresh

\* listing_matches_filter
Matches(a, f) ==
    LET w == Wants[f]
        words == Of[a].words \cup {Of[a].brand}
    IN  /\ w.brand # Nothing => w.brand \in words
        /\ w.words \subseteq words
        /\ w.category # Nothing => Aliases[w.category] \cap Of[a].words # {}
        /\ Between(Of[a].price, w.low, w.high)

\* find_private_matches
PrivateMatches(S) ==
    {p \in on \X S : Fresh(p[2]) /\ p \notin alerted /\ Matches(p[2], p[1])}

\* send_private_filter_alerts: the youngest, if there are too many.
Youngest(M) ==
    {K \in SUBSET M :
        /\ Cardinality(K) = IF Cardinality(M) < MaxMatches THEN Cardinality(M) ELSE MaxMatches
        /\ \A p \in K, q \in M \ K : old[p[2]] <= old[q[2]]}

-----------------------------------------------------------------------------
NoWork == [own |-> FALSE, page |-> {}, new |-> {}]

SearchInit ==
    /\ shelf = <<>> /\ old = [a \in Item |-> 0] /\ row = {} /\ rowAge = [a \in Item |-> 0]
    /\ on = Wish /\ todo = <<>> /\ batch = [s \in Scraper |-> <<>>]
    /\ work = [s \in Scraper |-> NoWork]
    /\ alerted = {} /\ due = {} /\ slips = 0 /\ toggles = 0

Slip == slips < MaxSlips /\ slips' = slips + 1

\* Two targets bring the same in: the search is the same, and so is the label.
Alike(t, u) == Key(t) = Key(u) /\ t.label = u.label

\* The search of the filter is among some targets, not under the label of another
\* filter, and would bring the article in.
InReach(f, a, targets) ==
    /\ f \in on /\ Searchable(f)
    /\ \E i \in DOMAIN targets : Alike(targets[i], SearchOf(f))
    /\ a \in PageOf(SearchOf(f)) /\ Fresh(a) /\ Matches(a, f)

\* What the world takes out of reach is not owed any more.
StillReached(p) == Fresh(p[2]) /\ p[2] \in PageOf(SearchOf(p[1]))

-----------------------------------------------------------------------------
(* The workers *)

\* What is not owed any more when these targets are given up.
Without(targets) ==
    {p \in due : ~ \E i \in DOMAIN targets : Alike(targets[i], SearchOf(p[1]))}

Idles(s) == batch[s] = <<>> /\ work[s] = NoWork

\* FilterTargetRotator.next_batch: the targets are loaded anew when those of the
\* last round do not make a batch, and the next round begins in this batch.
TakeBatch(s) ==
    /\ Idles(s)
    /\ \E targets \in {ActiveTargets} :
       LET n == BatchSize[Len(targets)]
           loaded == IF n <= Len(todo) THEN <<>> ELSE targets
           all == todo \o loaded
       IN  /\ targets # <<>>
           /\ batch' = [batch EXCEPT ![s] = SubSeq(all, 1, n)]
           /\ todo' = SubSeq(all, n + 1, Len(all))
           /\ due' = due \cup {p \in Wish \X ToSet(shelf) : InReach(p[1], p[2], loaded)}
    /\ UNCHANGED <<shelf, old, row, rowAge, on, work, alerted, slips, toggles>>

\* scrape_search_once: the page is stored in one transaction, and it is told which
\* of its articles are new.
StorePage(s, t) ==
    LET page == PageOf(t)
    IN  /\ work[s] = NoWork
        /\ work' = [work EXCEPT ![s] = [own |-> t.own, page |-> page, new |-> page \ row]]
        /\ row' = row \cup page
        /\ rowAge' = [a \in Item |-> IF a \in page \ row THEN 0 ELSE rowAge[a]]

SearchFilter(s) ==
    /\ batch[s] # <<>> /\ StorePage(s, Head(batch[s]))
    /\ UNCHANGED <<shelf, old, on, todo, batch, alerted, due, slips, toggles>>

SearchFeed(s) ==
    /\ batch[s] = <<>>
    /\ \E t \in Feed : StorePage(s, t) /\ PageOf(t) # {}
    /\ UNCHANGED <<shelf, old, on, todo, batch, alerted, due, slips, toggles>>

\* Mutant: a filter's search looks at what is new only.
NewOnly(w) == w.new

\* A search of the feed speaks of what it inserted, a filter's search of its whole
\* page, so that it makes up for what another search stored and did not match.
PrivateIds(w) == IF w.own THEN w.page \cup w.new ELSE w.new

\* The worker is done with a search, and goes on with the next one of its batch.
Done(s) ==
    /\ batch' = IF work[s].own THEN [batch EXCEPT ![s] = Tail(@)] ELSE batch
    /\ work' = [work EXCEPT ![s] = NoWork]

MatchAndAlert(s) ==
    /\ work[s] # NoWork
    /\ LET M == PrivateMatches(PrivateIds(work[s]))
       IN  \E K \in Youngest(M) :
              /\ alerted' = alerted \cup K
              /\ due' = IF work[s].own THEN due \ (M \ K) ELSE due
    /\ Done(s)
    /\ UNCHANGED <<shelf, old, row, rowAge, on, todo, slips, toggles>>

\* The hook raises and only says so in the log: the batch goes on, and what this
\* search alone would have told of is lost to the round.
HookFails(s) ==
    /\ work[s] # NoWork /\ Slip
    /\ due' = IF work[s].own THEN Without(<<Head(batch[s])>>) ELSE due
    /\ Done(s)
    /\ UNCHANGED <<shelf, old, row, rowAge, on, todo, alerted, toggles>>

\* A filter's search fails once its page is stored, and is tried again with a new
\* browser.  One that fails before is as if it had not begun.
SearchAgain(s) ==
    /\ work[s].own /\ Slip
    /\ work' = [work EXCEPT ![s] = NoWork]
    /\ UNCHANGED <<shelf, old, row, rowAge, on, todo, batch, alerted, due, toggles>>

\* The second try fails too, the browser does not come back, or the worker is told
\* to stop: the rest of the batch is dropped, though the rotator has passed it.
DropBatch(s) ==
    /\ batch[s] # <<>> /\ Slip
    /\ due' = Without(batch[s])
    /\ batch' = [batch EXCEPT ![s] = <<>>] /\ work' = [work EXCEPT ![s] = NoWork]
    /\ UNCHANGED <<shelf, old, row, rowAge, on, todo, alerted, toggles>>

\* Rows and alerts are kept, the rotator starts from nothing.
RestartProcess ==
    /\ Slip /\ todo' = <<>> /\ batch' = [s \in Scraper |-> <<>>]
    /\ work' = [s \in Scraper |-> NoWork] /\ due' = {}
    /\ UNCHANGED <<shelf, old, row, rowAge, on, alerted, toggles>>

-----------------------------------------------------------------------------
(* The world *)

PublishItem(a) ==
    /\ a \notin ToSet(shelf) /\ shelf' = <<a>> \o shelf
    /\ UNCHANGED <<old, row, rowAge, on, todo, batch, work, alerted, slips, toggles>>
    /\ due' = {p \in due : StillReached(p)'}

Older(n) == IF n > MaxFresh THEN n ELSE n + 1

GrowOlder ==
    /\ shelf # <<>>
    /\ old' = [a \in Item |-> IF a \in ToSet(shelf) THEN Older(old[a]) ELSE old[a]]
    /\ rowAge' = [a \in Item |-> IF a \in row THEN Older(rowAge[a]) ELSE rowAge[a]]
    /\ <<old, rowAge>>' # <<old, rowAge>>
    /\ UNCHANGED <<shelf, row, on, todo, batch, work, alerted, slips, toggles>>
    /\ due' = {p \in due : StillReached(p)'}

\* The rotator keeps its index when its list changes, and may so pass some targets
\* over: this round owes nothing any more.
SwitchFilter(f) ==
    /\ toggles < MaxToggles /\ toggles' = toggles + 1
    /\ on' = IF f \in on THEN on \ {f} ELSE on \cup {f}
    /\ due' = {}
    /\ UNCHANGED <<shelf, old, row, rowAge, todo, batch, work, alerted, slips>>

SearchNext ==
    \/ \E s \in Scraper :
          \/ TakeBatch(s) \/ SearchFilter(s) \/ SearchFeed(s) \/ MatchAndAlert(s)
          \/ HookFails(s) \/ SearchAgain(s) \/ DropBatch(s)
    \/ RestartProcess
    \/ \E a \in Item : PublishItem(a)
    \/ GrowOlder
    \/ \E f \in Wish : SwitchFilter(f)

SearchSpec == SearchInit /\ [][SearchNext]_qvars

-----------------------------------------------------------------------------
(* Properties *)

SearchTypeOK ==
    /\ ToSet(shelf) \subseteq Item /\ row \subseteq ToSet(shelf) /\ on \subseteq Wish
    /\ old \in [Item -> 0 .. MaxFresh + 1] /\ rowAge \in [Item -> 0 .. MaxFresh + 1]
    /\ work \in [Scraper -> [own : BOOLEAN, page : SUBSET Item, new : SUBSET Item]]
    /\ alerted \subseteq Wish \X Item /\ due \subseteq Wish \X Item

\* When a round of the filters' searches is over, every article that a filter's own
\* search could bring in when the round began, and that is still new, is told of,
\* though the filter may share its search, another search may have stored the article
\* before, the scrape that stored it may have failed or been cut off, and rounds
\* overlap in a batch.  Three things excuse the round: the filter's own search was
\* dropped with its batch, its own hook failed, and more than MaxMatches were found.
RoundAlerts == todo = <<>> /\ (\A s \in Scraper : batch[s] = <<>>) => due \subseteq alerted

=============================================================================
