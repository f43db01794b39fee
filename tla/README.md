# A TLA+ model of the Vinted bot

The bot scrapes Vinted search pages, announces good deals in Discord channels,
sends members direct messages for their private filters, publishes niches and
product sheets, and manages the members' paid subscriptions. It is a Python program
of threads (and of a few processes) around one Postgres database, a browser and
three remote services: Vinted, Discord and Whop (the shop). This directory models the
parts whose correctness depends on the order of things (transactions of several
threads, requests that fail or whose answer is lost, restarts, queues that fill up,
values read in one transaction and used in the next) and the algorithms that decide
what is announced. Paths below are relative to `src/src/vinted_bot/`.

| module | models | checked by | proved in |
|---|---|---|---|
| `DiscordOutbox` | the public feed: scrape pass, table `discord_outbox`, flush thread, retention | `MCDiscordOutbox` | `DiscordOutboxProofs` |
| `PrivateAlertQueue` | the private alerts: matching, memory queue, table `private_alert_outbox`, sender thread | `MCPrivateAlertQueue` | `PrivateAlertQueueProofs` |
| `WhopSubscriptions` | payments, claims, plans, roles and filters of the members | `MCMembers`, `MCWhopSubscriptions` | `WhopSubscriptionsProofs` |
| `MemberFilters` | the filters of a member, their quota, the dashboard in direct messages | `MCMembers` | `MemberFiltersProofs` |
| `Tickets` | channels of recruitment and support, from the button to the transcript | `MCMembers` | `MembersProofs` |
| `RulesGate` | the three commands that write permissions, and the acceptance of the rules | `MCMembers`, `MCRulesGate` | `MembersProofs` |
| `FilterSearch` | filters as searches: what they bring in, what matches, what is alerted | `MCMembers` | `MembersProofs` |
| `ScrapeSchedule` | the choice of the next target, waits, injected filters | `MCScraping` | `ScrapingProofs` |
| `VintedBrowser` | the thread that owns the browser: commands, timeouts, recycling | `MCScraping` | `ScrapingProofs` |
| `ScrapePool` | the brand worker, its successors and their supervisor | `MCScraping` | `ScrapingProofs` |
| `RailwayRedeploy` | counts of refused pages, their checkpoint, the redeploys | `MCScraping` | `ScrapingProofs` |
| `Announcements` | abstract: what the public feed promises of each article | `MCServices` (as a refinement) | `ListingProofs` |
| `ListingStore` | the rows of `listings` under scrapes, reconciliation and retention; implements `Announcements` | `MCServices` | `ListingProofs` |
| `DealFilter` | the verdict on a listing and its score | `MCServices`, `MCDealFilter` | `ListingProofs` |
| `ChannelRouting` | the channel of a listing that is posted | `MCChannelRouting` | |
| `OpportunityEngine` | the score, type and stage of a niche, and the pick of a cycle | `MCServices` | `NicheProofs` |
| `NicheDetector`, `NicheSheets` | the publication of niches and of product sheets | `MCServices` | `NicheProofs` |
| `MarketIntel` | snapshots of niches, their boards and bargains | `MCServices` | |

Run a check with `tlc -config MCDiscordOutbox.cfg MCDiscordOutbox.tla`, the proofs
with `tlapm DiscordOutboxProofs.tla` (the other proof modules alike).

## 1. Inventory

For each component: the state it keeps, its operations, whom it talks to, what
is hard about it, and what makes it correct.

**Discord outbox** (`jobs/discord_outbox.py`). State: table `discord_outbox` (a row
per listing, channel and kind, with a status and a partial unique index on pending
rows), the flush thread's locals, the time of the last preview. Operations: enqueue,
preview, purge, requeue of failed rows, flush, drain at stop. Talks to Discord and to
`listings.discord_posted_at`. Hard: the message is posted between two transactions;
the duplicate check and the insert are two steps; newest first; the retention deletes
under it. Correct when: no row is posted twice without a lost record, no key has two
live rows, no fresh row is lost, queued rows are eventually resolved. Modelled:
`DiscordOutbox`; the choice of the channel: `ChannelRouting`.

**Scrape pass** (`services/scrape_search.py`). State: `listings`, bootstrap
checkpoints. Operation: `scrape_search_once`, a sequence of transactions: upsert the
page, bootstrap or judge the candidates, mark the silent ones, enqueue, preview; for
filter queries, match the private filters. Hard: what was read at its start is used
at its end. Modelled from three sides: `DiscordOutbox` (its effect on the feed),
`ListingStore` (its rows), `FilterSearch` and `PrivateAlertQueue` (its matches). The
detail page of a listing and the normalisation of its fields are not modelled.

**Private alert queue and filters** (`services/private_alert_queue.py`,
`services/private_filters.py`, `services/filter_scrape_targets.py`,
`db/user_filters.py`). State: a bounded queue and a set of claims in memory, tables
`private_alert_outbox`, `user_filter_alerts`, `user_filters`. Operations: build the
searches of the filters, match, claim, put, spill, take, send, record, mark, retry,
give up, release. Hard: the claim lives in memory and the alert in the database; three
transactions after one message; the table is read only when the queue stayed empty;
filters share a search; a page may be stored by a search that does not match it; the
searches of the filters are run in batches, and one that fails drops the rest of its own.
Correct when: at most one copy of an alert is on its way, each failure costs a bounded
number of messages, no single failure makes an alert vanish, a spilled alert is done with
as long as the table is read, and what a filter's search could bring in is told. Modelled:
`PrivateAlertQueue`, `FilterSearch`.

**Filters and dashboard of a member** (`interactions/handlers.py`,
`services/resello_dm.py`, `db/member_accounts.py`). State: `user_filters`, the id of the
dashboard message, the message itself. Operations: commands, buttons, menus and forms,
each in a thread of its own. Hard: the count of the quota locks nothing; the dashboard
is read, edited and saved in three steps; old copies of it keep their buttons. Correct
when: the quota is passed only by creations that counted together, and the dashboard
ends up current. Modelled: `MemberFilters`.

**Whop subscriptions** (`services/whop_webhooks.py`, `db/whop_claims.py`, parts of
`interactions/handlers.py`). State: tables `discord_member_plans` and
`whop_pending_claims`, the recent clicks and accepted rules in memory, the members'
roles on Discord. Operations: activation and deactivation events, automatic claims,
claims by reference, `/set-plan`, alignment of the plan with the roles. Hard: a
threading HTTP server; events repeated and out of order; checks and actions in
different transactions; one request per role. Correct when: no payment vanishes,
roles and table agree, the end of an old subscription spares the new one. Modelled:
`WhopSubscriptions`.

**Tickets** (`interactions/recruitment_panel.py`, `support_panel.py`, parts of
`handlers.py`). State: the channels on Discord, nothing else. Operations: open, write,
close with a transcript. Hard: search and creation are two requests; messages arrive
between the pages of a transcript; a channel is closed twice. Correct when: one ticket
per member unless two creations raced, and a complete transcript. Modelled: `Tickets`.

**Rules gate and role permissions** (`services/reglement_gates.py`,
`services/discord_role_perms.py`, `main.py`). State: the permission overwrites of the
channels. Operations: close the gates, copy what Pro sees to Starter and to Pro+, accept
the rules. Hard: series of requests, of which one reads and writes whole channels, beside
an admin and members who click. Correct when: after a complete run of each command the
channels are open as planned. Modelled: `RulesGate`.

**Scrape scheduler and pool** (`jobs/scrape_workers.py`, `jobs/scheduler.py`,
`services/scrape_vinted_session.py`). State: the time of the last scrape of each target,
its activity, the workers with their heartbeats and browsers. Operations: pick the due
target, adapt its interval, inject filters, back off, watch and replace workers. Hard:
starvation behind a hot target or behind one that fails; a batch of filters that is
dropped after the rotator has passed it; two workers on the same targets after a join that
timed out; a browser closed by two threads; a launch or a close that is given up after
55 s and leaves its Chromium behind. Correct when: a ceiling on the time between two
scrapes, a filter scraped again and again though others fail, one Chromium unless a scrape
hangs, and one more for each call that was given up. Modelled: `ScrapeSchedule`, `ScrapePool`.

**Vinted browser** (`clients/vinted_browser.py`, `utils/rate_limit.py`,
`utils/retry.py`). State: a thread, a queue of commands, the handles of Playwright, a
cooldown. Operations: start, warm up, search with retries, recycle, close, abandon. Hard:
a call that times out leaves a thread that may still run its command. Correct when: no
caller waits for ever and only a call that timed out leaves a thread behind. Modelled:
`VintedBrowser`. The other clients and the parsers keep no state.

**Block tracker and redeploy** (`services/scrape_block_tracker.py`,
`services/railway_redeploy.py`). State: counts of refused pages, recent and in a row,
their persisted copies, the time of the last redeploy. Hard: the redeploy kills the
process that records it. Correct when: two redeploys are a cooldown apart while the
database works, and a scraper that stays blocked asks for one again and again. Modelled:
`RailwayRedeploy`.

**Retention and reconciliation** (`jobs/db_retention.py`,
`services/listing_reconcile.py`). State: none of their own. Operations: delete old rows
of every table, in tiers that get stricter as the disk fills; mark rows that were not
seen. Hard: they delete rows other threads work on, and what a row remembered. Correct
when: an article whose row was deleted is not announced again. Modelled: `ListingStore`,
and as steps of `DiscordOutbox`, `PrivateAlertQueue` and `MarketIntel`.

**Deal filter** (`services/deal_filter.py`). No state; a verdict, a rule, a score. Hard:
six terms that are cut, weighed and rounded, and levels with different bounds. Correct
when: a better offer is never rejected where a worse one is posted. Modelled: `DealFilter`.

**Niche detector and product sheets** (`services/detector_pipeline.py`,
`services/market_intel.py`, `services/niche_product_sheets.py`,
`services/opportunity_engine.py`, `services/multi_angle.py`,
`services/niche_insights.py`). State: the keys that were posted, the stamps of the hour, a
history of scores, sheets, skips. Operations: analyse, choose, post, record in three
transactions; choose, develop, build, post and record a sheet. Hard: crashes between the
records; the history bends the score of the next cycle. Correct when: a niche is posted
once and has one sheet, a niche that was posted is settled, and no history lifts a weak
market. Modelled: `OpportunityEngine`, `NicheDetector`, `NicheSheets`.

**Market intelligence** (`services/market_intel.py`, `services/market_entities.py`,
`services/market_embeds.py`). State: `niche_snapshots`, checkpoints of the boards and of the
bargains. Hard: one channel that is gone, a cycle that ends in the middle. Correct when: a
channel that exists gets its board again and again. Modelled: `MarketIntel`.

**Interactions gateway, other panels, notifier, configuration, command line.** One click,
one reply; layout of messages; wiring. Their handlers that change state are in the modules
above, and the three outcomes of a Discord request are a choice of every step that sends
one. The rest is not modelled.

## 2. The public feed: `DiscordOutbox`, `ChannelRouting`, `DealFilter`

| state | code |
|---|---|
| `inDb`, `posted`, `stale` | rows of `listings`, those with `discord_posted_at`, those older than `max_listing_age_minutes` |
| `bootstrapped` | bootstrap checkpoints of the queries |
| `status`, `gen`, `late` | `discord_outbox.status`; how many rows a key had; rows past the 120 s retry window |
| `scr[w]` | locals of `scrape_search_once` in thread `w`: `upserted` after the page, `bootmark` between silencing and checkpoint, `announce`/`inserting` around the duplicate check, `preview`/`previewing` likewise |
| `fl` | the flush thread: `boot` until the purge, `sending` between its two transactions, `stopped`; `draining` after a stop request |
| `delivered`, `excused` | history: what Discord accepted, and what of it the table never recorded |

One action is one transaction or one request. `UpsertPage`, `BootstrapSilence`,
`BootstrapCheckpoint`, `Select`, `EnqueueRead`, `EnqueueCommit`/`EnqueueAbort`,
`PreviewCheck`/`PreviewSkip`/`PreviewInsert` are the scrape pass; `Purge`,
`FlushSelect`, `Post`, `FlushMark`/`FlushMarkFails`, `DrainEmpty`, `Requeue` the flush
thread; `RetainOutbox`, `DeleteListing` the retention; `GrowStale`, `RowAges`,
`PreviewIntervalElapses` the clock; `Stop`, `Restart` the process.

Abstractions. A channel is a function of listing and kind. The deal filter answers
with any verdict allowed to the listing. The 0.2 s buffer of the flush is
the same as a later commit of the row. The flush loop and the drain use one
`DripCap` (5 and 10 in the code). The limits of 200 and 50 rows per query are not
reached. The synchronous flush of the one-shot command, and a failure of the purge,
are left out.

The verdict is `EvaluateDeal` of `DealFilter`: the kind of the article, the category and
its rule, the score as an exact fraction that is rounded once, the level. A title is the
set of its words that some list knows. `offer` is the listing that was looked at last;
`LookAgain` is the same article with another price and age, for a soft rejection is not
the last word. `ChannelRouting` continues it: `ResolveChannels` with the tables of the
configuration, and the searches that bring a listing in.

## 3. The rows of the listings: `ListingStore` implements `Announcements`

| state | code |
|---|---|
| `born`, `sale`, `age` | the catalogue of Vinted: articles, those on sale, time since publication |
| `held`, `first`, `seen` | rows of `listings`, `first_seen_at` and `last_seen_at` as ages |
| `active`, `left`, `posted` | `is_active`, `disappeared_at`, `discord_posted_at` |
| `page` | the page of the present scrape |
| `alerts` | history: announcements of each article |

`UpsertListings` and `AnnouncePage` are the scrape, `Reconcile` the reconciliation,
`Retain` the retention under any tier and any wave of a reclaim, `StoreTick` time. The
tiers are constants with the relations of the code's defaults as an assumption
(`KeepAssumption`: no tier deletes a row before the article is too old to be announced).
`Announcements` knows no rows: a thing is announced at most once and only while it is
new. `Promise` is the refinement mapping, `AnnouncedAsPromised` the property: deletion and
new insertion of a row are invisible in it, for an article whose date is known. An
article without a date has no such protection, which is why `Dated` is a constant.

## 4. The private alerts: `PrivateAlertQueue` and `FilterSearch`

| state | code |
|---|---|
| `fresh`, `filters` | listings young enough to alert about; rows of `user_filters` |
| `alerted` | rows of `user_filter_alerts` |
| `inflight`, `queue` | `_inflight` and `_queue` |
| `spill`, `before` | `private_alert_outbox.status` and the order of the ids |
| `scr[w]`, `snd` | locals of a scrape thread between claim and put; of `_worker_loop` |
| `dms`, `refused` | history: messages accepted, alerts refused for good |

An alert is a pair of filter and listing. `Match` is the transaction of
`find_private_matches`; `Claim` the critical section of `_claim` and the test of the
queue's size; `Put`, `Spill`, `SpillFails` the two ways on. `Recover`, `TakeMemory`,
`TakeSpill`, `SendDm`, `Record`, `MarkSent`, `Retry`, `GiveUp`, `WriteFails`,
`Release` are the sender (started by `StartPool` or the first `Match`), one per
transaction or request, with every one of them able to fail: `TakeSpillFails` is the
commit of a taken row that fails after the claim was made, so that the claim stays. A
transaction that fails has written nothing. Which listings of a page match is the choice
of `Match`: any part of the possible matches. The world is open: `NewListing` is a new
listing under the name of one that nothing remembers any more, so that a bounded set of
alerts is an unending stream of them; `Overtaken` is the order of the rows that a new one
joins.

`FilterSearch` says which those are: `SearchOf` and `Key` are the search of a filter and
what makes two of them the same (`filter_scrape_targets.py`), `ActiveTargets` the list of
the rotator, `TakeBatch` its `next_batch`, which passes the targets that it hands out and
begins the next round in the same batch when the last one has too few left, `SearchFilter`
and `SearchFeed` the transaction that stores a page, `MatchAndAlert` the hook that matches
it (`PrivateIds` is the difference between the two kinds of searches). What fails is told
apart by what it takes along: `HookFails` is a hook that raises, which loses what this
search alone would have told of; `SearchAgain` a search that fails once its page is stored
and is tried again; `DropBatch` a search that fails twice, a browser that does not come
back, or a stop, which drop all that is left of the batch although the rotator has passed
it; `RestartProcess` forgets the rotator. `due` is a history variable: what the rounds of
searches must tell of, from which the world and these failures take.

## 5. The members: `WhopSubscriptions`, `MemberFilters`, `Tickets`, `RulesGate`

| state of `WhopSubscriptions` | code |
|---|---|
| `whop`, `events` | memberships at Whop and the webhook events not answered yet (a set: any order) |
| `member`, `claim` | `discord_member_plans` and `whop_pending_claims` |
| `filters` | whether a member has an active private filter, only paused ones, or none |
| `roles` | the subscription roles on Discord |
| `intent`, `rules` | `_checkout_intents` and `_recent_reglement`, those of the last 30 minutes |
| `h[t]` | a thread of the HTTP server or of the interactions |
| `activated`, `granted`, `mess` | history: activations by membership, plans given by an admin, members whose last role sync failed or overlapped |

`ReceiveActivated`, `Store`, `ReadIntents`, `ReadRules`, `Elect`, `Activate`,
`DropRole`, `AddRole`, `MarkUsed` are the path of a payment (`Store` and `MarkUsed`
also end an automatic claim); `ReceiveDeactivated`, `Lookup`, `Deactivate` that of its
end; `StartClaim`, `Find`, `Fetch` a claim by reference; `SetPlan`, `AskFilter`,
`Align`, `CreateFilter`, `ToggleFilter` the interactions; `TransactionFails` a handler
that raises (the event is answered with 200 all the same); `Resend`, `Restart`
repeated events. `_pending_claims` is written and never read, so it is left out. Any
member who has a reference claims the payment, and `Buyer` is only the account that events
name. A membership is paid once and ends once. The
checkout link (a request for an URL) and the VIP role of old installations are left
out.

`MemberFilters` is one member with the rows of his filters (`mine`), the messages of his
dashboard (`boards`), the one that the table knows (`known`) and the threads (`th`).
`Arrives` is any interaction; `AlignPlan`, `CountFilters`, `InsertFilter` a creation;
`ChangeFilter`, `RespondPanel`, `LookAtRows`, `UpdateClicked` the changes of a row;
`ReadRows`, `EditBoard`, `SendBoard`, `SaveBoard` the synchronisation of the dashboard;
`PauseAll` the end of the subscription. `doubt` is a history variable: a change that no
undisturbed synchronisation has followed.

`Tickets` has the channels on Discord (`channel`) and the threads (`desk`): `PressOpen`,
`ListTickets`, `CreateTicket`, `PostButton`, `WriteMessage`, `PressClose`, `GetTicket`,
`ReadPage`, `SendTranscript`, `DeleteTicket`, one Discord request each.

`RulesGate` has the overwrites (`ow`), the commands that run (`job`) and the clicks on
"accept" (`accept`). `ReadChannel` and `WriteChannel` are the two requests per channel of
the first command, `StartSync`, `PutView`, `StartDeny` the two others, `AdminEdit` an
admin, `ClickAccept`, `CreateRoleForMember`, `AddMemberRole` the members. `clean` says which
commands ran to the end undisturbed, so that properties speak of what they promise then.

## 6. The scraping: `ScrapeSchedule`, `VintedBrowser`, `ScrapePool`, `RailwayRedeploy`

`ScrapeSchedule` is one sequence of steps, each of which carries the time it takes:
`next`, `since`, `activity` are `_next_run`, `_last_scrape_at`, `_target_activity`; `Picks`
is `_pick_due_target` with its scores, `Adapted` the adaptive interval, `UntilNext` the
sleep of a worker without a due target; `StartInjection`, `FilterOk`, `FilterFails` the
private filters that are slipped in, with the rotator's `filters` and `idx`. `failing` is
what does not work at present: any targets, any filters, the browser; nothing says that it
works again.

`VintedBrowser` has the threads of the object with their queues (`life`, `on`, `job`,
`queue`), the thread that made the Playwright handles (`handles`), the rate limiter's
`cooldown` and the `caller`. A caller that waited in vain is `Timeout`, `Abandon`, `Renew`.

`ScrapePool` has the threads of the workers (`at`, `goal`), their browsers (`ref` the
attribute, `mine` the local variable, `up` the live processes), their stop events (`stop`)
and the supervisor (`current`, `sup`, `closing`). Its actions are the steps of `_run` and
of the supervisor between two of which the other may act. `TimesOut` is a launch or a close
that is given up after 55 s: the caller goes on as if it had failed, and the thread of the
call may keep its Chromium (`stray`) until it comes to an end (`Reaped`); `VintedBrowser`
has that thread in detail.

`RailwayRedeploy` has the counters in memory (`tracker`) and in the checkpoint (`saved`),
the stored time of the last redeploy (`last`) and, as history, the true one.

## 7. Niches and market: `OpportunityEngine`, `NicheDetector`, `NicheSheets`, `MarketIntel`

`OpportunityEngine` translates the gauges, the seven angles, the type, the stage of life
and the score of a niche (in hundredths, cut after each division where the code has
floating point) and the selection of a cycle; `Detect` and `Move` alternate, so that the
history of a niche (`learnt`) bends its next score. Niches of one rank are in any order
(`Ranked`): the code goes by the margin and by the order of the rows. `NicheDetector` is the cycle around
it: `Analyse`, `Choose`, `PostAccepted`/`PostRefused`/`PostUnanswered`, and the three
transactions `MarkPosted`, `RecordHourly`, `RecordHistory`, with `DetectorCrash` between
any two. `NicheSheets` extends it with the process of the sheets, which shares its records:
`BeginSheet`, `LoadCandidates`, `ScanSkip`, `ScanTake`, `Develop`, `Build`, `SheetAccepted`,
`SheetFailed`, `MarkFiche`. `MarketIntel` computes snapshots (`Metrics`, `NicheScore`),
posts the boards that are due (`PostBoard`, `UnknownBoard`, `MarkBoard`) and the best of
the bargains (`Bargains`: of the precise niches, and so many that the ones that were posted
lately count too). `is_market_domain`, which `find_pepites` asks of each row, holds of
every row of a niche, since those that are not analyzable are in none.

## 8. Runs

Twelve runs, of which six end in a violation (section 9). Components that share no
state in the models are checked side by side in one run: a variable `part` says which of
them a behaviour is about, and the variables of the others are parked in states in which
nothing that must happen is enabled, so that their liveness properties do not hold
because of it and are not broken by it.

| run | instance | shows |
|---|---|---|
| `outbox_safety` | one listing in two channels and in the preview, one scraper, two rows per key and three in all, one lost record in all, one restart | `DeliveriesAccounted`: every message beyond the first is one whose record was lost; `OneLiveRowPerKey`: the duplicate check holds; `SkippedBrandSettled`, `SettledNeverQueued`: settled and queued exclude each other; `RequeueNotBlocked`: the retry of failed rows does not meet the unique index |
| `outbox_progress` | two listings, a public query, a drip of one, fair flush and clock | `PendingResolves`, `DrainTerminates` |
| `outbox_filter` | a public and a filter query | violation of `FilterScrapeIndependent` |
| `alerts` | two scrapers; two alerts that share a queue of one place and the table, or one alert with two mishaps, restarts and failed calls, in all; new listings for ever | `OneCopy`: an alert is in one place at a time while nothing fails; `SentRowRecorded`: what the table calls sent is recorded; `DmsPerFailure`: each failure costs two messages at most; `LastCopyKept`: a single failure loses no alert; `SpilledSettles`: a spilled alert is done with in the end, if the sender looks at the table again and again |
| `alerts_once` | one alert, no failure | violation of `OneDmPerAlert` |
| `whop_upgrade` | one member, two linked payments, two handlers, no failure | violation of `UpgradeKept` |
| `scraping` | a hot and a quiet target and up to three filters, of which some, or the browser, fail for ever; a browser with two threads; two workers and three browsers, two hangs, two calls given up; a threshold of two refusals | `CeilingKept`: where nothing fails no target waits beyond the ceiling and one round; `NoOversleep`; `FiltersServed`: a filter whose own scrapes work is served again and again though others fail; `LeakBounded`, `CallReturns`; `OneChromiumUnlessLost`: while no scrape hung, one Chromium, and one more for each call given up; `StoppedScrapesOnce`, `PoolRecovers`; `RedeploysSpaced`, `RedeploysEventually` |
| `scrape_ceiling` | the same targets, of which one always fails | violation of `HardCeiling` |
| `services` | listings around the bounds of the deal filter; three markets of two niches; two niches for the detector and the sheets; an article under all tiers; a niche with two boards | `BetterNeverRejected`; `WeakNeverLearnt`; `DetectedOnce`, `OneSheetPerNiche`, `SheetSettles`; `AnnouncedAsPromised`; `BoardsServed` |
| `members` | two handlers of payments and interactions; two threads on the filters of a member, then on two tickets; the gates with a member who accepts; four filters, two of which share a search, in batches that do not divide the round; a transcript of five messages in two pages of two | `RolesMatchPlan`, `UsedClaimActivated`, `PaymentReachable`, `ActiveAfterPurchase`; `QuotaKept`, `DashboardCurrent`; `OneTicketUnlessRaced`, `TranscriptComplete`; `AccessAsPlanned`, `AcceptedCanEnter`; `RoundAlerts` |
| `gate_preview` | the gates, no mishap | violation of `PreviewIsOpen` |
| `routing` | deals, searches and channels of the configuration's kinds | violation of `QualifiedIsRouted` |

**Bounds.** Two rows per key are enough for a row and its duplicate. One lost record or
restart is what separates a delivery that is accounted for from one that is not:
`excused` counts them per row, so a second one repeats the first. The filter query, which
touches no row, is in `outbox_filter` alone. Quantifiers over the
subsets of a set that may be empty are bounded one by one (TLC enumerates none for
`\E a, b \in SUBSET {}`). In the alerts, one
alert and two scrapers show all races of the claim, because different alerts share only
the queue and the table; their competition for these is the instance with two alerts,
each of which may be a new listing once it is forgotten, so that a queue that is
refilled for ever is among the behaviours. Two mishaps are what it takes to lose an alert
(a failed attempt, then a failed put back) or to leave a row as being sent. In the
scraping, three filters in batches of two are cut elsewhere in each turn, two filters
always at the same place; both lists are in the instance, and the list may change once.
In the subscriptions `Budget` bounds interactions, failures, restarts and repeated events
together; payments and their ends are not counted. `OneByOne` in `MCMembers` lets one
handler run at a time once the budget is used up; `OneLongTalk` lets one ticket at a time
have more than a page of messages. The same holds of
`FewAtOnce` and `OneSlip` in `MCMembers` and of `OneMishap` in `MCServices`: the bound of
each of these parts is on the sum of what may go wrong, so that each single mishap is
explored at each point, and two of different kinds together are not (in the alerts they
are). A tick of a clock is as long as the shortest wait of the code that matters in the
instance (an hour for the niches, six hours for the rows). Two pages of two messages cut a transcript of
five; a threshold of two refusals separates one, enough, and one too many; scores of a
niche are those just below, at and above the line of publication.

**Fairness.** The loops of the flush thread and of the sender catch every exception and
go on (`jobs/discord_outbox.py:701` to 716; `_worker_loop` of
`services/private_alert_queue.py`), and time passes;
scrapes, stops, restarts and failures are not fair. In the alerts only the sender is: that
it finds the queue empty for a second again and again is a premise of `SpilledSettles` and
not assumed, because a queue that is refilled all the time keeps it from the table for
ever (without the premise TLC shows that). `ScheduleFairness`: the thread of the worker
goes on, weakly; nothing says that a target or a filter that fails works some day.
`FiltersServed` holds all the same of a filter whose own scrapes work, with one excuse:
where the size of a batch divides the number of filters the turns are always cut at the
same places, and a filter that fails for ever then keeps those behind it in its batch from
ever being scraped (`jobs/scrape_workers.py:783` to 791). Without the excuse TLC shows
that too.
`BrowserFairness`: the caller's clock and the queues go on, a command need not end.
`PoolFairness`: threads that do not hang, and the supervisor. `RedeployFairness`: the
loop and the clock; a redeploy that is asked for again and again is done.
`SheetsFairness`: time, both processes until they are idle, and Discord takes a sheet
that is tried again and again. `IntelFairness`: the loop of the market, where
it is started, goes on. No liveness is claimed for what serves the members: their handlers only have
to end.

**Deadlock** is checked in `alerts` and `scraping`. It is not in the others: the outbox
stops when asked to and its bound on rows ends every run, the budgets end those of the
members and of the niches.

## 9. Where code and text differ

Six runs end in a violation, each of a sentence found in the repository:

* `outbox_filter`: `services/scrape_search.py:528` says filters are independent of the
  public channels. A filter scrape runs the public code with a cap of zero and marks
  what it leaves out as posted.
* `alerts_once`: `db/models.py:420` promises one message per filter and listing. The
  match reads the sent alerts before the claim, so a second scrape can
  claim the alert again right after the first message was recorded.
* `whop_upgrade`: the comment at `services/whop_webhooks.py:1420` says that the end of
  the old membership must not take the new one. The test is in an earlier transaction
  than the deactivation.
* `scrape_ceiling`: `config.py:203` calls the longest wait a hard ceiling. A target that
  was never scraped goes first and stays so while its scrapes fail
  (`jobs/scrape_workers.py:334`), so that the others are not scraped at all.
* `gate_preview`: `services/reglement_gates.py:5` gives Membre the preview. The command
  resolves the preview without the list of channels (`main.py:738`) and so denies every
  channel of a preview category that the settings do not name.
* `routing`: `config/deal_filters.yaml:834` allows the shoes of luxury brands, and
  `tests/test_deal_filter.py:111` posts one. No channel takes them
  (`notify/discord.py:190`), which is what the docstring of `channel_allows_listing`
  (`notify/discord.py:223`) says; the configuration says the contrary.

Met while reading, and not of a kind that a run would show:

* `run_db_retention_if_due` has no caller, though the docstring of `jobs/db_retention.py`
  (line 6) promises it; the loop of the market and `scan_recent_matches_for_filter` have
  none either; `apply_reglement_gates` computes `denied_ids` and does not use it.
* `tests/test_private_filters.py:260` expects alerts to be kept 14 days; the code keeps 3.
* `deal_filters.yaml` sets a minimal score of 5 to post; the level below 60 is "skip".
* The windows of the trends (7, 30, 90 days) are longer than the tiers of the retention
  keep rows; rows that the retention takes are never marked as gone, whatever
  `services/listing_reconcile.py:1` says.
* A filter that fails for ever keeps those behind it from being scraped where the size of
  the batch divides their number, and a queue that is never empty keeps the spilled alerts
  from being sent; section 8 says how the properties excuse it. An alert whose attempt and
  whose put back both fail is lost.
* The answer of a closed ticket says that the transcript was sent when the message failed
  (`interactions/handlers.py:1332`).
* The dashboard has 25 buttons and the largest plan 30 filters. A filter without a
  category searches clothes only, though its form offers everything
  (`services/private_filters.py:557`).
* `services/scrape_search.py:464` says the flush marks a listing posted, which only
  happens in a later pass; `db/user_filters.py:17` gives starter no filter, while a
  change of plan leaves those there are active.

## 10. Proofs

The theorems hold for every value of the constants that satisfies the named
assumptions of the modules: any number of listings, alerts, members, threads, workers,
niches, targets, channels and queries, any capacity of the queue, any prices, weights and
times, any bound on failures and restarts. None of them
assumes fairness. Each has the form `Spec => []Inv` or `Spec => [][A]_vars`, and rests
on an inductive invariant of its own; `StoreKeepsPromise` has the form
`Spec => Announcements`, by a refinement mapping. Every safety property and every action
property that a passing run checks is stated by a theorem, except `DmsPerFailure`.

| theorem | of | inductive invariant, and why the property alone is not inductive |
|---|---|---|
| `TypeCorrect` | `DiscordOutboxProofs` | `TypeInv`: `TypeOK`, and a pass that bootstraps works for a public query |
| `DeliveriesAccountedAlways` | | `Accounted`: a row not created yet was never delivered; the row the flush thread has posted and not marked is counted once more |
| `FreshPendingRowsSurviveAlways` | | `TypeOK`: one case per action that writes `status` |
| `SkippedBrandSettledAlways` | | `SkipInv`: with `Accounted`, the row in the flush thread's hands is open, and rows belong to stored listings |
| `OneLiveRowPerKeyAlways` | | `SoloInv`, for one scrape thread: a selected listing has no live or sent brand row, and what the duplicate check found free is still free at the insert |
| `SettledNeverQueuedAlways` | | `SoloInv`, for one scrape thread |
| `RequeueNotBlockedAlways` | | `PreviewInv` beside `SoloInv`, for one scrape thread: until the first restart one preview at most is pending or can still be retried; once the interval has elapsed none can, which is where the interval and the retry window meet |
| `TypeCorrect` | `PrivateAlertQueueProofs` | `TypeInv`: a thread between claim and release has an alert |
| `OneCopyAlways` | | `CopyInv`: the four places are pairwise exclusive, no retry is under way, and no row is being sent before the sender runs (else its recovery would make a second copy) |
| `DmsBoundedAlways` | | `DmInv`: messages sent, threads that still hold a match and the copy on its way sum up to at most one plus the number of threads; an alert that can still be matched has not been sent, or is being recorded |
| `SentRowRecordedAlways` | | `RowInv`: what the sender's step tells of its alert |
| `LastCopyKeptAlways` | | `LossInv`: what the sender puts back has failed once already or was sent, and who is at rest has no alert in hand |
| `TypeCorrect` | `WhopSubscriptionsProofs` | `TypeInv`: a handler has the fields its step needs |
| `ActiveAfterPurchaseAlways`, `UsedClaimActivatedAlways` | | `PurchaseInv`: a handler that syncs, restores or marks has activated; the roles an alignment read were paid or granted |
| `PaymentReachableAlways` | | `PayInv`: while nothing fails, every payment is announced, in a handler, or handled, and a handler that passed a step has left its trace in the tables |
| `RolesMatchPlanAlways` | | `RolesInv`: a member whose sync is not messed up has one sync, whose remaining steps lead from the present roles to those of the plan in the table |
| `StoreTypeAlways` | `ListingProofs` | `StoreTypeOK` |
| `AlertedOnceAlways` | | an article that was announced and has no row any more is too old to be announced; a row that is marked stays marked while it is there |
| `StoreKeepsPromise` | | the same: under it each step announces what was never announced and is new, or only lets things get old, or changes nothing that the promise speaks of |
| `BetterNeverRejectedAlways` | | an offer stays one of the configuration's; the work is in the pure functions: each term of the score, each cut, the weighted sum with its one negative term, the rounding and the rule of the median do not fall when the price falls and the age does not grow |
| `MembersTypeAlways` | `MemberFiltersProofs` | `MembersTypeOK`, and a thread that edits or saves a message knows one that was sent |
| `QuotaKeptAlways` | | `QuotaInv`: the rows, plus the threads that have counted and not yet inserted, are fewer than the largest quota plus the number of threads |
| `DashboardCurrentAlways` | | `DashInv`: a thread that ran alone since its change has read the rows as they are, and the message it writes is the one that the table knows or is about to |
| `NicheTypeAlways` | `NicheProofs` | `NicheTypeInv`: a process that works on a niche has one |
| `DetectedOnceAlways` | | `DetectedInv`: the posts of a name are its lost ones, and one more that is recorded or about to be; a pick was never recorded under its name |
| `OneSheetAlways` | | `SheetedInv`: the same of the sheets of a niche |
| `WeakNeverLearntAlways` | | `EngineInv`: whatever is recorded of a niche is over the line, so the mean of its last records is, and a score under the line is never far above the mean, nor within the tolerance of a strong one |
| `StoppedScrapesOnceAlways` | `ScrapingProofs` | `LateInv`: a worker that was told to stop and has begun a scrape since is only in places from which no other begins |
| `OneChromiumAlways` | | `ChromiumInv`: while no scrape hung, only the current worker is alive, and the only browser that is up beside the stray ones is the one its attribute names; there are no more stray ones than calls that were given up |
| `ScheduleTypeAlways` | | `ScheduleSane`: types, a turn has three scrapes at most, and what was never scraped has no activity |
| `NoOversleepAlways` | | the same: a sleep is the least of the waits until a target or a filter is due |
| `CeilingAlways` | | `ScheduleInv`: a target waits the ceiling, and at most four scrapes for each target that is younger than it, and those of the turn so far. A scrape of the most starved target makes it younger than all, so that one more target is younger than each of the others each turn |
| `LeakAlways` | | `OneCommand`: one command at most is waited for, and nobody waits for what an abandoned thread still reads; `OwnThread`: the object's thread reads the current queue; `Accounted`: whenever the object has no thread, or is about to drop it, each living thread was paid for by a timeout |
| `SpacedAlways` | | `RedeployInv`: as long as the database works, the checkpoint is as old as the last redeploy |
| `TicketsTypeAlways` | `MembersProofs` | `TicketsTypeInv`: a thread that looks for a ticket or makes one has a member and a kind |
| `OneTicketAlways` | | `OneInv`: without a race a member has one ticket of the kind at most, and none while a thread is about to make one |
| `TranscriptAlways` | | `ReadsInv`: after n full pages the next request asks for what is below the n * `Page` newest messages, all of which were read |
| `GateTypeAlways` | | `GateTypeInv`, with the requests that the commands still have to send |
| `AcceptedCanEnterAlways` | | `GateInv`: the gate that ran without a fault has closed all the channels it has done with, and a clean one stays so; `AcceptInv`: who was told to be accepted has a role that exists |
| `AccessAsPlannedAlways` | | with those, `SyncInv`: what a copy of Pro's permissions has still to put is what Pro has now, unless an admin or the gate came in between, and what it has put or still has to put is everything |
| `RoundAlertsAlways` | | `RoundInv`: an alert that is owed was sent, or its search is still to come, in the rotator or in the batch of a worker, or was run by one and is not yet matched |

`OneLiveRowPerKeyAlways` and `SettledNeverQueuedAlways` carry the hypothesis
`OneScraper`: with two scrape threads both fail, because the duplicate check and the
insert are two steps. The pool clamps its brand threads to one
(`jobs/scrape_workers.py:1180`), so the hypothesis holds while the filter worker is
disabled, and the run `outbox_safety` has one thread. The assumptions on constants are
finiteness (of alerts, threads and workers, for counting), distinctness of the null
values, relations between settings that the code's defaults have (`KeepAssumption`), and
bounds that are natural numbers; TLC evaluates them in every run. The theorems
`FreshPendingRowsSurviveAlways`, `DmsBoundedAlways` and `AlertedOnceAlways` state
properties of their modules that no run lists: the proofs cover them.

Three theorems are about the numbers of the code rather than its steps.
`BetterNeverRejectedAlways` assumes that the points for freshness do not grow with the
age and that some weight is positive; prices and ages are natural numbers and the score
is computed exactly, where the code rounds floating point numbers.
`WeakNeverLearntAlways` assumes that the columns of a snapshot have their types, and that
the line (`MinScore`, 55 in the code) is not over 65.01, which is what a strong record of
70 and a tolerance of 4.99 leave. `CeilingAlways` speaks of the schedules in which no
target fails, as `CeilingKept` does. Sums and choices over sets and sequences are the
folds of the community modules; the lemmas `FoldExists`, `SumIs` and `SelectedOf` of
`NicheProofs` say what such a fold is, by an induction on the subsets of a finite set that
is stated of a collection of sets (`FiniteSetInduction`) and so needs no operator as a
parameter.

Only model-checked: all liveness (`PendingResolves`, `DrainTerminates`,
`SpilledSettles`, `FiltersServed`, `CallReturns`, `PoolRecovers`,
`RedeploysEventually`, `SheetSettles`, `BoardsServed`), since fairness is out of the
prover's reach; `DmsPerFailure`, of which `DmsBoundedAlways` proves the case without
failures; the types of `FilterSearch`, whose pages come from `SelectSeq`, which the
prover does not know; and the violations of section 9.

## 11. Not modelled

Layout and wording of messages, the parsing of pages, the recognition of brands in
titles, collages of photographs, the choice of a proxy; reports that only read
(`brand diagnostics`, the daily report of trends, which has no caller); the link of a
member's Vinted account, which no command of the running bot starts; the two browsers
that only run by hand; the older report of `services/niche_detector.py`; the connection
with the gateway, which a library keeps; checkout links and signatures. `PROJECT.json`
lists each part with its status.

## 12. What is left

1. `DeliveryLedger`: what both outboxes promise (an item is offered, delivered at most
   once per lost record, and settled), implemented by `DiscordOutbox` and by
   `PrivateAlertQueue`.
2. Larger instances of the parts that now run side by side, with two mishaps of
   different kinds.
3. The detail page of a listing and the normalisation of its fields.
