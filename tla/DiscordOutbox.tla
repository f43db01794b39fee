--------------------------- MODULE DiscordOutbox ---------------------------
(***************************************************************************)
(* The public Discord feed: scrape workers select listings and enqueue     *)
(* rows in the Postgres table discord_outbox, one flush thread posts them, *)
(* the retention worker deletes old rows, and the process may be killed    *)
(* between any two transactions.  One action is one database transaction   *)
(* or one Discord request, so every interleaving the READ COMMITTED        *)
(* database allows is explored.                                            *)
(***************************************************************************)
EXTENDS Integers, FiniteSets

CONSTANTS
  Listing,      \* listings, numbered by published_at (larger = more recent)
  KindsOf,      \* [Listing -> SUBSET {"brand", "all"}]: what the routing resolves
  VerdictsOf,   \* [Listing -> SUBSET Verdict]: verdicts the deal filter may give while fresh
  Worker,       \* scrape threads
  Query,        \* public (YAML) search queries
  FilterQuery,  \* queries derived from the members' private filters
  NoQuery,      \* the query of an idle thread
  PreviewOn,    \* bot_preview_via_outbox with a configured preview channel
  PostCap,      \* max_discord_posts of a public query
  DripCap,      \* max_messages of one flush
  DrainMax,     \* flushes of the final drain (50 in the code)
  MaxGen,       \* bound: rows ever created for one (listing, channel, kind)
  MaxRows,      \* bound: rows ever created
  MaxExcuse,    \* bound: rows with a lost mark (crash, lost response, failed commit),
                \* and such marks of one row
  MaxRestarts   \* bound: process restarts

Kind == {"brand", "all", "preview"}
Verdict == {"deal", "soft", "hard"}

ASSUME ListingAssumption == Listing \subseteq Nat /\ IsFiniteSet(Listing)
ASSUME RoutingAssumption == KindsOf \in [Listing -> SUBSET {"brand", "all"}]
ASSUME VerdictAssumption == VerdictsOf \in [Listing -> SUBSET Verdict]
ASSUME QueryAssumption == Query \cap FilterQuery = {} /\ NoQuery \notin Query \cup FilterQuery
ASSUME CapAssumption ==
  PreviewOn \in BOOLEAN /\ PostCap \in Nat /\ DripCap \in Nat \ {0} /\ DrainMax \in Nat \ {0}
ASSUME BoundAssumption ==
  MaxGen \in Nat /\ MaxRows \in Nat /\ MaxExcuse \in Nat /\ MaxRestarts \in Nat

\* The channel is a function of listing and kind, so a key is the triple
\* (listing_id, channel_id, kind); the table's autoincremented id becomes the
\* rank of the row among those ever created for its key.
Key == Listing \X Kind
Row == Key \X (1..MaxGen)
KeyOf(r) == r[1]
ListingOf(r) == r[1][1]
KindOf(r) == r[1][2]

RowStatus == {"none", "pending", "sent", "failed", "skipped"}
DedupStatus == {"pending", "failed", "sent"}
WorkerPc == {"idle", "upserted", "bootmark", "announce", "inserting", "preview", "previewing"}
FlusherPc == {"boot", "idle", "sending", "stopped"}

\* The locals of scrape_search_once (and of the query's target), and those of
\* flush_discord_outbox with the state of its thread.
ScraperState ==
  [pc : WorkerPc, query : Query \cup FilterQuery \cup {NoQuery}, boot : BOOLEAN,
   page : SUBSET Listing, announce : SUBSET Listing, insert : SUBSET Key, mark : SUBSET Listing]
FlusherState ==
  [pc : FlusherPc, jobs : SUBSET Row, sent : SUBSET Row, failed : SUBSET Row,
   stopping : BOOLEAN, draining : BOOLEAN, rounds : Nat]

VARIABLES
  inDb,          \* listings present in the table listings
  posted,        \* listings whose discord_posted_at is not NULL
  stale,         \* listings older than max_listing_age_minutes
  bootstrapped,  \* queries with a bootstrap checkpoint
  status,        \* discord_outbox.status; "none": no such row (yet, or deleted)
  gen,           \* rows created so far for each key
  late,          \* open rows enqueued more than the 120 s retry window ago
  scr,           \* local state of each scrape thread
  fl,            \* local state of the flush thread
  previewReady,  \* the preview interval has elapsed (module global, lost on restart)
  restarts,      \* how often the process was restarted
  delivered,     \* history: messages Discord accepted for each row
  excused        \* history: those whose acceptance the table never recorded

db == <<inDb, posted, stale, bootstrapped>>
table == <<status, gen, late>>
hist == <<delivered, excused>>
vars == <<db, table, scr, fl, previewReady, restarts, hist>>

IdleScraper ==
  [pc |-> "idle", query |-> NoQuery, boot |-> FALSE, page |-> {},
   announce |-> {}, insert |-> {}, mark |-> {}]
\* A public scrape whose announcements are done goes on with the preview, if there is
\* a listing to choose from.
PreviewOrIdle(s) ==
  IF PreviewOn /\ s.page # {} THEN [IdleScraper EXCEPT !.pc = "preview", !.page = s.page]
  ELSE IdleScraper
BootFlusher ==
  [pc |-> "boot", jobs |-> {}, sent |-> {}, failed |-> {},
   stopping |-> FALSE, draining |-> FALSE, rounds |-> 0]

Pending == {r \in Row : status[r] = "pending"}
Live(k) == {r \in Row : KeyOf(r) = k /\ status[r] \in DedupStatus}
StaleBrand(R) == {ListingOf(r) : r \in {x \in R : KindOf(x) = "brand"}}

\* Listings with a brand or all row still queued, or failed.
Busy ==
  {ListingOf(r) : r \in {x \in Row : KindOf(x) # "preview" /\ status[x] \in {"pending", "failed"}}}

\* New contents of the status column; whether a row is late matters while it is open.
WriteStatus(f) ==
  /\ status' = f
  /\ late' = {r \in late : f[r] \in {"pending", "failed"}}

\* The next row of a key, and the table after inserting one row for each key of K.
NewRow(k) == <<k, gen[k] + 1>>
RoomFor(K) ==
  /\ \A k \in K : gen[k] < MaxGen
  /\ Cardinality({r \in Row : r[2] <= gen[r[1]]}) + Cardinality(K) <= MaxRows
Insert(K) ==
  /\ WriteStatus([r \in Row |-> IF KeyOf(r) \in K /\ r = NewRow(KeyOf(r)) THEN "pending" ELSE status[r]])
  /\ gen' = [k \in Key |-> IF k \in K THEN gen[k] + 1 ELSE gen[k]]

Init ==
  /\ inDb = {} /\ posted = {} /\ stale = {} /\ bootstrapped = {}
  /\ status = [r \in Row |-> "none"]
  /\ gen = [k \in Key |-> 0]
  /\ late = {}
  /\ scr = [w \in Worker |-> IdleScraper]
  /\ fl = BootFlusher
  /\ previewReady = TRUE
  /\ restarts = 0
  /\ delivered = [r \in Row |-> 0]
  /\ excused = [r \in Row |-> 0]

----------------------------------------------------------------------------
(* Scrape threads: scrape_search_once *)

\* The catalog page is fetched and upserted in one transaction; whether the
\* query still has to be bootstrapped was read before the fetch.  A failed fetch
\* changes nothing.
UpsertPage(w, q, P) ==
  /\ scr[w].pc = "idle" /\ fl.pc # "stopped"
  /\ inDb' = inDb \cup P
  /\ scr' = [scr EXCEPT ![w] = [IdleScraper EXCEPT
       !.pc = "upserted", !.query = q, !.page = P,
       !.boot = q \in Query \ bootstrapped]]
  /\ UNCHANGED <<posted, stale, bootstrapped, table, fl, previewReady, restarts, hist>>

\* First pass of a public query: everything on the page is silenced ...
BootstrapSilence(w) ==
  /\ scr[w].pc = "upserted" /\ scr[w].boot
  /\ posted' = posted \cup (scr[w].page \cap inDb)
  /\ scr' = [scr EXCEPT ![w].pc = "bootmark"]
  /\ UNCHANGED <<inDb, stale, bootstrapped, table, fl, previewReady, restarts, hist>>

\* ... and only a second transaction records that the query was bootstrapped.
BootstrapCheckpoint(w) ==
  /\ scr[w].pc = "bootmark"
  /\ bootstrapped' = bootstrapped \cup {scr[w].query}
  /\ scr' = [scr EXCEPT ![w] = IdleScraper]
  /\ UNCHANGED <<inDb, posted, stale, table, fl, previewReady, restarts, hist>>

\* Mutation: the page is not restricted to unposted listings.
AllCandidates(w) == (scr[w].page \cap inDb) \ Busy

\* What a live pass reconsiders: the unposted listings of the page, without those
\* already queued when the posts are deferred to the flush thread.  A filter scrape
\* does not defer, so it does not look at the queue.
Candidates(w) ==
  LET unposted == (scr[w].page \cap inDb) \ posted
  IN  IF scr[w].query \in FilterQuery THEN unposted ELSE unposted \ Busy

\* A filter scrape runs with max_discord_posts = 0.
CapOf(q) == IF q \in FilterQuery THEN 0 ELSE PostCap

\* The deal filter splits the candidates into deals, hard rejects and soft rejects;
\* a stale candidate is too_old, a hard reject.
Judged(C, qualified, hard) ==
  /\ qualified \subseteq C \ stale
  /\ hard \subseteq C \ qualified
  /\ C \cap stale \subseteq hard
  /\ \A l \in qualified : "deal" \in VerdictsOf[l]
  /\ \A l \in hard \ stale : "hard" \in VerdictsOf[l]
  /\ \A l \in C \ (qualified \cup hard) : "soft" \in VerdictsOf[l]

\* The best deals up to the cap are announced; the other deals and the hard rejects
\* are marked posted, the soft rejects stay candidates for the next pass.
Select(w, qualified, hard, top) ==
  /\ scr[w].pc = "upserted" /\ ~scr[w].boot
  /\ Judged(Candidates(w), qualified, hard)
  /\ top \subseteq qualified
  /\ \/ Cardinality(top) = CapOf(scr[w].query)
     \/ top = qualified /\ Cardinality(top) < CapOf(scr[w].query)
  /\ posted' = posted \cup hard \cup (qualified \ top)
  /\ scr' = [scr EXCEPT ![w] =
       IF scr[w].query \in FilterQuery THEN IdleScraper
       ELSE IF top = {} THEN PreviewOrIdle(@)
       ELSE [@ EXCEPT !.pc = "announce", !.announce = top]]
  /\ UNCHANGED <<inDb, stale, bootstrapped, table, fl, previewReady, restarts, hist>>

\* Mutation: the duplicate check leaves out the mirror in the ALL channel.
EnqueueReadUnmirrored(w) ==
  /\ scr[w].pc = "announce"
  /\ LET routed == {l \in scr[w].announce : "brand" \in KindsOf[l]}
     IN  scr' = [scr EXCEPT
           ![w].pc = "inserting", ![w].announce = {},
           ![w].insert = {k \in Key : /\ k[1] \in routed \ stale /\ k[2] \in KindsOf[k[1]]
                                      /\ k[2] = "all" \/ Live(k) = {}},
           ![w].mark = routed \cap stale]
  /\ UNCHANGED <<db, table, fl, previewReady, restarts, hist>>

\* enqueue_listings_for_discord, reading half: per announced listing resolve the
\* channels, note a listing that has gone stale for marking, and keep the keys
\* without a pending, failed or sent row.
EnqueueRead(w) ==
  /\ scr[w].pc = "announce"
  /\ LET routed == {l \in scr[w].announce : "brand" \in KindsOf[l]}
         fresh == routed \ stale
     IN  scr' = [scr EXCEPT
           ![w].pc = "inserting", ![w].announce = {},
           ![w].insert = {k \in Key : /\ k[1] \in fresh /\ k[2] \in KindsOf[k[1]]
                                      /\ Live(k) = {}},
           ![w].mark = routed \cap stale]
  /\ UNCHANGED <<db, table, fl, previewReady, restarts, hist>>

\* Writing half: the inserts are flushed at the end of the transaction.  The
\* partial unique index on pending rows, or a listing deleted meanwhile, aborts
\* the whole transaction and, with it, the scrape.
EnqueueAborts(w) ==
  \/ \E k \in scr[w].insert : \E r \in Pending : KeyOf(r) = k
  \/ \E k \in scr[w].insert : k[1] \notin inDb

EnqueueCommit(w) ==
  /\ scr[w].pc = "inserting" /\ ~EnqueueAborts(w)
  /\ RoomFor(scr[w].insert)
  /\ Insert(scr[w].insert)
  /\ posted' = posted \cup (scr[w].mark \cap inDb)
  /\ scr' = [scr EXCEPT ![w] = PreviewOrIdle(@)]
  /\ UNCHANGED <<inDb, stale, bootstrapped, fl, previewReady, restarts, hist>>

EnqueueAbort(w) ==
  /\ scr[w].pc = "inserting" /\ EnqueueAborts(w)
  /\ scr' = [scr EXCEPT ![w] = IdleScraper]
  /\ UNCHANGED <<db, table, fl, previewReady, restarts, hist>>

\* enqueue_bot_preview_from_candidates, first transaction: the interval has
\* elapsed and no preview is pending; a fresh deal l of the page is picked.
PreviewCheck(w, l) ==
  /\ scr[w].pc = "preview"
  /\ previewReady /\ \A r \in Pending : KindOf(r) # "preview"
  /\ l \in (scr[w].page \cap inDb) \ stale /\ "deal" \in VerdictsOf[l]
  /\ scr' = [scr EXCEPT ![w].pc = "previewing", ![w].page = {}, ![w].announce = {l}]
  /\ UNCHANGED <<db, table, fl, previewReady, restarts, hist>>

\* No preview this time: interval, a pending preview, no qualifying candidate.
PreviewSkip(w) ==
  /\ scr[w].pc = "preview"
  /\ scr' = [scr EXCEPT ![w] = IdleScraper]
  /\ UNCHANGED <<db, table, fl, previewReady, restarts, hist>>

\* Second transaction: insert unless this listing was already previewed (a failed
\* row does not count), then restart the interval.
PreviewInsert(w) ==
  /\ scr[w].pc = "previewing"
  /\ LET K == {k \in Key : k[1] \in scr[w].announce \cap inDb /\ k[2] = "preview"}
         done == \E k \in K : \E r \in Live(k) : status[r] # "failed"
     IN  IF done \/ K = {}
         THEN UNCHANGED <<table, previewReady>>
         ELSE RoomFor(K) /\ Insert(K) /\ previewReady' = FALSE
  /\ scr' = [scr EXCEPT ![w] = IdleScraper]
  /\ UNCHANGED <<db, fl, restarts, hist>>

----------------------------------------------------------------------------
(* Flush thread: DiscordFlushWorker *)

\* Mutations: stale rows are skipped without settling their listing, or left alone.
SkipStaleOnly(R) ==
  /\ WriteStatus([r \in Row |-> IF r \in R THEN "skipped" ELSE status[r]])
  /\ UNCHANGED posted
KeepStale(R) == UNCHANGED <<status, late, posted>>

\* What marking the stale rows R of a read as skipped does in the same transaction.
SkipStale(R) ==
  /\ WriteStatus([r \in Row |-> IF r \in R THEN "skipped" ELSE status[r]])
  /\ posted' = posted \cup (StaleBrand(R) \cap inDb)

\* purge_stale_discord_outbox, once when the thread starts.
Purge ==
  /\ fl.pc = "boot"
  /\ SkipStale({r \in Pending : ListingOf(r) \in stale})
  /\ fl' = [fl EXCEPT !.pc = "idle"]
  /\ UNCHANGED <<inDb, stale, bootstrapped, gen, scr, previewReady, restarts, hist>>

\* Mutation: rows already sent are retried as well.
RetryableAny == {r \in Row : status[r] \in {"failed", "sent"} /\ r \notin late}

\* requeue_retryable_failed_outbox, between two flushes: recent failed rows go back
\* to pending, or to skipped when their key has another row already sent.
Retryable == {r \in Row : status[r] = "failed" /\ r \notin late}
AlreadySent(r) == \E x \in Row \ {r} : KeyOf(x) = KeyOf(r) /\ status[x] = "sent"
Requeued == {r \in Retryable : ~AlreadySent(r)}
\* The unique index rejects the transaction if one of them has a pending twin.
RequeueAborts ==
  \E r \in Requeued : \E x \in (Pending \cup Requeued) \ {r} : KeyOf(x) = KeyOf(r)

Requeue ==
  /\ fl.pc = "idle" /\ ~fl.stopping
  /\ Retryable # {} /\ ~RequeueAborts
  /\ WriteStatus([r \in Row |-> IF r \in Requeued THEN "pending"
                              ELSE IF r \in Retryable THEN "skipped" ELSE status[r]])
  /\ UNCHANGED <<db, gen, scr, fl, previewReady, restarts, hist>>

\* Mutation: the drain loop has no exit but an exception.
AfterFlushForever(n, raised, drain) ==
  [pc |-> IF drain /\ raised THEN "stopped" ELSE "idle",
   jobs |-> {}, sent |-> {}, failed |-> {}, stopping |-> fl.stopping, draining |-> FALSE,
   rounds |-> IF n = 0 THEN 0 ELSE fl.rounds]

\* The end of one flush: the drain stops on a flush that sent nothing, on an
\* exception, or after DrainMax flushes; the flush that was running when the thread
\* was asked to stop is not one of them.
AfterFlush(n, raised, drain) ==
  [pc |-> IF drain /\ (n = 0 \/ raised \/ fl.rounds + 1 >= DrainMax) THEN "stopped" ELSE "idle",
   jobs |-> {}, sent |-> {}, failed |-> {}, stopping |-> fl.stopping, draining |-> FALSE,
   rounds |-> IF drain THEN fl.rounds + 1 ELSE 0]

NewerFirst(S, T) == \A s \in S, t \in T : ListingOf(s) >= ListingOf(t)

\* flush_discord_outbox, first transaction: the stale pending rows are skipped and
\* the DripCap newest others picked for sending; they stay pending meanwhile.  (The
\* 0.2 s buffer only hides a row as if it had been committed after this read.)
FlushSelect(drip) ==
  /\ fl.pc = "idle" /\ Pending # {}
  /\ LET old == {r \in Pending : ListingOf(r) \in stale}
         fresh == Pending \ old
     IN  /\ drip \subseteq fresh
         /\ \/ Cardinality(drip) = DripCap
            \/ drip = fresh /\ Cardinality(fresh) < DripCap
         /\ NewerFirst(drip, fresh \ drip)
         /\ SkipStale(old)
  /\ fl' = IF drip = {} THEN AfterFlush(0, FALSE, fl.stopping)
           ELSE [fl EXCEPT !.pc = "sending", !.jobs = drip, !.draining = fl.stopping]
  /\ UNCHANGED <<inDb, stale, bootstrapped, gen, scr, previewReady, restarts, hist>>

\* Draining an empty queue ends the thread.
DrainEmpty ==
  /\ fl.pc = "idle" /\ fl.stopping /\ Pending = {}
  /\ fl' = AfterFlush(0, FALSE, TRUE)
  /\ UNCHANGED <<db, table, scr, previewReady, restarts, hist>>

\* Bound on the losses that are explored.
MayLose(R) ==
  /\ \A r \in R : excused[r] < MaxExcuse
  /\ Cardinality({r \in Row : excused[r] > 0} \cup R) <= MaxExcuse

\* The newest job is posted: accepted, refused, or accepted with the response lost
\* (a timeout after the request): the code takes the last two for a failure.
Post(r, outcome) ==
  /\ fl.pc = "sending"
  /\ r \in fl.jobs /\ NewerFirst({r}, fl.jobs)
  /\ outcome = "lost" => MayLose({r})
  /\ fl' = [fl EXCEPT
       !.jobs = @ \ {r},
       !.sent = IF outcome = "ok" THEN @ \cup {r} ELSE @,
       !.failed = IF outcome = "ok" THEN @ ELSE @ \cup {r}]
  /\ delivered' = [delivered EXCEPT ![r] = IF outcome = "refused" THEN @ ELSE @ + 1]
  /\ excused' = [excused EXCEPT ![r] = IF outcome = "lost" THEN @ + 1 ELSE @]
  /\ UNCHANGED <<db, table, scr, previewReady, restarts>>

Exists(r) == status[r] # "none"

\* _listing_discord_outbox_settled runs before the session is flushed
\* (autoflush=False): it sees the rows just sent as they are in the database.
Settled(R) == {ListingOf(r) : r \in {x \in R : Exists(x) /\ KindOf(x) # "preview"}} \ Busy

\* Second transaction: record the outcomes of the rows that still exist.
FlushMark ==
  /\ fl.pc = "sending" /\ fl.jobs = {}
  /\ WriteStatus([r \in Row |->
       IF ~Exists(r) THEN status[r]
       ELSE IF r \in fl.failed THEN "failed"
       ELSE IF r \in fl.sent THEN "sent"
       ELSE status[r]])
  /\ posted' = posted \cup (Settled(fl.sent) \cap inDb)
  /\ fl' = AfterFlush(Cardinality(fl.sent), FALSE, fl.draining)
  /\ UNCHANGED <<inDb, stale, bootstrapped, gen, scr, previewReady, restarts, hist>>

\* The rows posted in this flush are never recorded as sent.
ForgetSent ==
  /\ MayLose(fl.sent)
  /\ excused' = [r \in Row |-> IF r \in fl.sent THEN excused[r] + 1 ELSE excused[r]]

\* The second transaction fails (connection lost, row deleted under it): the loop
\* logs the exception and goes on; the rows stay pending.
FlushMarkFails ==
  /\ fl.pc = "sending" /\ fl.jobs = {}
  /\ ForgetSent
  /\ fl' = AfterFlush(0, TRUE, fl.draining)
  /\ UNCHANGED <<db, table, scr, previewReady, restarts, delivered>>

----------------------------------------------------------------------------
(* Process, clock and retention *)

Stop ==
  /\ ~fl.stopping /\ fl.pc # "boot"
  /\ fl' = [fl EXCEPT !.stopping = TRUE]
  /\ UNCHANGED <<db, table, scr, previewReady, restarts, hist>>

\* Redeploy or crash at any point: threads and module globals are lost.
Restart ==
  /\ restarts < MaxRestarts
  /\ ForgetSent
  /\ restarts' = restarts + 1
  /\ scr' = [w \in Worker |-> IdleScraper]
  /\ fl' = BootFlusher
  /\ previewReady' = TRUE
  /\ UNCHANGED <<db, table, delivered>>

GrowStale(l) ==
  /\ l \in inDb \ stale
  /\ stale' = stale \cup {l}
  /\ UNCHANGED <<inDb, posted, bootstrapped, table, scr, fl, previewReady, restarts, hist>>

RowAges(r) ==
  /\ status[r] \in {"pending", "failed"} /\ r \notin late
  /\ late' = late \cup {r}
  /\ UNCHANGED <<db, status, gen, scr, fl, previewReady, restarts, hist>>

\* Mutation: an interval shorter than the retry window.
PreviewIntervalShort ==
  /\ ~previewReady
  /\ previewReady' = TRUE
  /\ UNCHANGED <<db, table, scr, fl, restarts, hist>>

\* The 150 s preview interval is longer than the 120 s retry window.
PreviewIntervalElapses ==
  /\ ~previewReady
  /\ \A r \in Row : KindOf(r) = "preview" /\ status[r] \in {"pending", "failed"} => r \in late
  /\ previewReady' = TRUE
  /\ UNCHANGED <<db, table, scr, fl, restarts, hist>>

\* Mutation: pending rows are deleted whatever their age.
RetainNothing(old) ==
  /\ old \subseteq Pending
  /\ \E r \in Row : Exists(r) /\ (status[r] # "pending" \/ r \in old)
  /\ WriteStatus([r \in Row |-> IF status[r] = "pending" /\ r \notin old THEN "pending" ELSE "none"])
  /\ UNCHANGED <<db, gen, scr, fl, previewReady, restarts, hist>>

\* run_db_retention_once: every row that is not pending goes, and pending rows older
\* than outbox_keep_hours (30 min at the least, hence stale) may go.
RetainOutbox(old) ==
  /\ old \subseteq {r \in Pending : ListingOf(r) \in stale}
  /\ \E r \in Row : Exists(r) /\ (status[r] # "pending" \/ r \in old)
  /\ WriteStatus([r \in Row |-> IF status[r] = "pending" /\ r \notin old THEN "pending" ELSE "none"])
  /\ UNCHANGED <<db, gen, scr, fl, previewReady, restarts, hist>>

\* _delete_old_listings keeps at least three hours; the foreign key cascades to the
\* outbox.
DeleteListing(l) ==
  /\ l \in inDb \cap stale
  /\ inDb' = inDb \ {l}
  /\ posted' = posted \ {l}
  /\ WriteStatus([r \in Row |-> IF ListingOf(r) = l THEN "none" ELSE status[r]])
  /\ UNCHANGED <<stale, bootstrapped, gen, scr, fl, previewReady, restarts, hist>>

----------------------------------------------------------------------------
Scrape(w) ==
  \/ \E q \in Query \cup FilterQuery, P \in SUBSET Listing : UpsertPage(w, q, P)
  \/ BootstrapSilence(w)
  \/ BootstrapCheckpoint(w)
  \/ \E qualified \in SUBSET scr[w].page, hard \in SUBSET scr[w].page, top \in SUBSET scr[w].page :
       Select(w, qualified, hard, top)
  \/ EnqueueRead(w)
  \/ EnqueueCommit(w)
  \/ EnqueueAbort(w)
  \/ \E l \in Listing : PreviewCheck(w, l)
  \/ PreviewSkip(w)
  \/ PreviewInsert(w)

Flush ==
  \/ Purge
  \/ \E drip \in SUBSET Pending : FlushSelect(drip)
  \/ DrainEmpty
  \/ \E r \in fl.jobs, outcome \in {"ok", "refused", "lost"} : Post(r, outcome)
  \/ FlushMark
  \/ FlushMarkFails

Clock ==
  \/ \E l \in Listing : GrowStale(l)
  \/ \E r \in Row : RowAges(r)
  \/ PreviewIntervalElapses

Retention ==
  \/ \E old \in SUBSET Pending : RetainOutbox(old)
  \/ \E l \in Listing : DeleteListing(l)

Next ==
  \/ \E w \in Worker : Scrape(w)
  \/ Flush
  \/ Requeue
  \/ Stop
  \/ Restart
  \/ Clock
  \/ Retention

Spec == Init /\ [][Next]_vars

\* The flush loop runs for as long as its thread does, and listings grow old.
Fairness ==
  /\ WF_vars(Flush)
  /\ \A l \in Listing : WF_vars(GrowStale(l))

FairSpec == Spec /\ Fairness

----------------------------------------------------------------------------
(* Properties *)

(* The types of the tables, of the threads' local variables and of the history.    *)
TypeOK ==
  /\ inDb \subseteq Listing /\ posted \subseteq Listing /\ stale \subseteq Listing
  /\ bootstrapped \subseteq Query
  /\ status \in [Row -> RowStatus]
  /\ gen \in [Key -> 0..MaxGen]
  /\ late \subseteq Row
  /\ scr \in [Worker -> ScraperState]
  /\ fl \in FlusherState
  /\ previewReady \in BOOLEAN
  /\ restarts \in 0..MaxRestarts
  /\ delivered \in [Row -> Nat]
  /\ excused \in [Row -> Nat]

(* A row that may still be sent (pending or failed, and not among those the    *)
(* flush in progress has posted) was delivered only through acceptances the     *)
(* code could not record: a lost response, a crash or a failed commit.  No other *)
(* path posts one row twice, and none posts it twice more.                       *)
DeliveriesAccounted ==
  \A r \in Row :
    /\ delivered[r] <= excused[r] + 1
    /\ status[r] \in {"pending", "failed"} /\ r \notin fl.sent => delivered[r] = excused[r]

(* The anti-duplicate check of the enqueue and the requeue leave at most one       *)
(* pending, failed or sent row per listing, channel and kind among the brand and   *)
(* all rows.  It needs a single scrape thread: the check and the insert of two     *)
(* threads may straddle a whole flush.                                             *)
OneLiveRowPerKey ==
  \A k \in Key : k[2] # "preview" => \A r, x \in Live(k) : r = x

(* A brand row skipped for age settles its listing: it is marked posted (or has a  *)
(* sent twin), so the next pass over the page does not queue it again.             *)
SkippedBrandSettled ==
  \A r \in Row : status[r] = "skipped" /\ KindOf(r) = "brand" =>
    \/ ListingOf(r) \in posted
    \/ AlreadySent(r)

(* The retry of recent failures is never rejected by the unique index on pending  *)
(* rows in the first life of the process: the preview interval outlasts the retry  *)
(* window, so a failed preview has no pending twin.  (A restart forgets the        *)
(* interval, and one twin then blocks the retry of every failed row.)  It needs a  *)
(* single scrape thread.                                                          *)
RequeueNotBlocked == RequeueAborts => restarts > 0

(* A listing that is settled (discord_posted_at set) is never queued for its brand *)
(* channel, although it may settle between the selection and the insert.  It needs *)
(* a single scrape thread.                                                         *)
SettledNeverQueued ==
  [][\A k \in Key : k[2] = "brand" /\ gen'[k] > gen[k] => k[1] \notin posted]_vars

(* Neither the purge, the flush, the requeue nor the retention drops a pending row *)
(* of a listing that is still fresh.                                               *)
FreshPendingRowsSurvive ==
  [][\A r \in Row : status[r] = "pending" /\ status'[r] \in {"none", "skipped"}
       => ListingOf(r) \in stale]_vars

(* Newest-first draining starves no row for ever: each pending row is eventually   *)
(* sent, failed, skipped or deleted, unless the process was stopped.               *)
PendingResolves ==
  \A r \in Row : status[r] = "pending" ~> (status[r] # "pending" \/ fl.pc = "stopped")

(* A stop request ends the flush thread, or the process is restarted, whatever the *)
(* scrape threads still enqueue meanwhile.                                         *)
DrainTerminates == fl.stopping ~> (fl.pc = "stopped" \/ ~fl.stopping)

(* A filter scrape leaves the public feed alone: of the listings the deal filter   *)
(* never rejects for good it marks none posted (scrape_search.py:528).             *)
FilterScrapeIndependent ==
  [][\A w \in Worker : scr[w].pc = "upserted" /\ scr[w].query \in FilterQuery /\ scr'[w].pc = "idle"
       => \A l \in posted' \ posted : l \in stale \/ "hard" \in VerdictsOf[l]]_vars

=============================================================================
