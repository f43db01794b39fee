--------------------------- MODULE ScrapingProofs ---------------------------
(***************************************************************************)
(* What is proved of the scraper, for any number of targets, filters,      *)
(* workers, browsers and threads, and for any times: of the pool, that a   *)
(* stopped worker scrapes once more at most and that a second Chromium is  *)
(* the price of a call that timed out or of a scrape that hangs; of the    *)
(* loop of a worker, its types, that it never sleeps past a target that is *)
(* due, and the ceiling on the age of a target; of the browser object, how *)
(* many threads it leaves behind; of the redeploys, their spacing.         *)
(***************************************************************************)
EXTENDS ScrapePool, ScrapeSchedule, VintedBrowser, RailwayRedeploy,
        FiniteSetTheorems, SequenceTheorems, TLAPS

(* The pool. *)

Goals == {"brand", "filter", "retry", "none"}

ThreadTypeInv ==
    /\ at \in [Worker -> Busy \cup Gone \cup {"unborn"}]
    /\ goal \in [Worker -> Goals]
    /\ late \in [Worker -> Nat]

\* Where a worker may be after its late scrape: on its way to the end of the loop, in
\* the filters, whose loop looks at the stop, or in a scrape that has no second try.
Spent(w) ==
    \/ at[w] \in {"top", "failed", "sleep", "last"} \cup Gone
    \/ at[w] \in {"ensure", "launch", "scrape"} /\ goal[w] = "filter"
    \/ at[w] = "hung" /\ goal[w] # "filter"

LateInv ==
    \A w \in Worker : late[w] # 0 => late[w] = 1 /\ w \in stop /\ Spent(w)

PoolInv == ThreadTypeInv /\ LateInv

-----------------------------------------------------------------------------

LEMMA PoolStart ==
    ASSUME PoolInit
    PROVE  PoolInv
  BY PoolAssumption DEF PoolInit, PoolInv, ThreadTypeInv, LateInv, Busy, Gone, Goals

(* One worker moves and the others stay: what has to be shown is about it alone. *)
LEMMA OneMoves ==
    ASSUME PoolInv, NEW w \in Worker,
           NEW p \in Busy \cup Gone \cup {"unborn"}, NEW g \in Goals, NEW n \in Nat,
           at' = [at EXCEPT ![w] = p], goal' = [goal EXCEPT ![w] = g],
           late' = [late EXCEPT ![w] = n], stop \subseteq stop',
           n # 0 => /\ n = 1 /\ w \in stop'
                    /\ \/ p \in {"top", "failed", "sleep", "last"} \cup Gone
                       \/ p \in {"ensure", "launch", "scrape"} /\ g = "filter"
                       \/ p = "hung" /\ g # "filter"
    PROVE  PoolInv'
<1>1. ThreadTypeInv'
  BY DEF PoolInv, ThreadTypeInv
<1>2. /\ at'[w] = p /\ goal'[w] = g /\ late'[w] = n
      /\ \A u \in Worker \ {w} : at'[u] = at[u] /\ goal'[u] = goal[u] /\ late'[u] = late[u]
  BY DEF PoolInv, ThreadTypeInv
<1>3. LateInv'
  BY <1>2 DEF PoolInv, LateInv, Spent
<1> QED
  BY <1>1, <1>3 DEF PoolInv

(* A step that leaves a part as it is writes to it what was there. *)
LEMMA Unchanged ==
    ASSUME PoolInv, NEW w \in Worker
    PROVE  /\ goal = [goal EXCEPT ![w] = goal[w]] /\ late = [late EXCEPT ![w] = late[w]]
           /\ at = [at EXCEPT ![w] = at[w]]
           /\ at[w] \in Busy \cup Gone \cup {"unborn"} /\ goal[w] \in Goals /\ late[w] \in Nat
           /\ late[w] # 0 => late[w] = 1 /\ w \in stop /\ Spent(w)
  BY DEF PoolInv, ThreadTypeInv, LateInv

-----------------------------------------------------------------------------
(* Steps that begin no scrape. *)

LEMMA QuietSteps ==
    ASSUME PoolInv, NEW w \in Worker,
           \/ Top(w) \/ BurstOff(w) \/ Dies(w) \/ Ensure(w) \/ Launched(w) \/ NotLaunched(w)
           \/ NoFilters(w) \/ Failed(w) \/ Ends(w) \/ Quiet(w)
    PROVE  PoolInv'
<1> DEFINE p == at'[w]
           g == goal'[w]
<1>1. /\ UNCHANGED <<late, stop>>
      /\ at' = [at EXCEPT ![w] = p] /\ p \in Busy \cup Gone \cup {"unborn"}
      /\ goal' = [goal EXCEPT ![w] = g] /\ g \in Goals
  BY DEF PoolInv, ThreadTypeInv, Goals, Busy, Gone, Go,
         Top, BurstOff, Dies, Ensure, Launched, NotLaunched, NoFilters, Failed, Ends, Quiet
<1>2. ASSUME Spent(w), w \in stop
      PROVE  \/ p \in {"top", "failed", "sleep", "last"} \cup Gone
             \/ p \in {"ensure", "launch", "scrape"} /\ g = "filter"
             \/ p = "hung" /\ g # "filter"
  BY <1>2 DEF PoolInv, ThreadTypeInv, Spent, Gone, Go,
         Top, BurstOff, Dies, Ensure, Launched, NotLaunched, NoFilters, Failed, Ends, Quiet
<1> HIDE DEF p, g
<1>3. /\ late' = [late EXCEPT ![w] = late[w]] /\ late[w] \in Nat /\ stop \subseteq stop'
      /\ late[w] # 0 => late[w] = 1 /\ w \in stop' /\ Spent(w)
  BY <1>1, Unchanged
<1> QED
  BY <1>1, <1>2, <1>3, OneMoves

LEMMA ReopenStep ==
    ASSUME PoolInv, NEW w \in Worker, Reopen(w)
    PROVE  PoolInv'
<1>1. at[w] = "reopen" /\ at' = [at EXCEPT ![w] = "ensure"] /\ UNCHANGED <<goal, late, stop>>
  BY DEF Reopen, Go
<1>2. late[w] = 0
  BY <1>1, Unchanged DEF Spent, Gone
<1>3. /\ goal' = [goal EXCEPT ![w] = goal[w]] /\ goal[w] \in Goals
      /\ late' = [late EXCEPT ![w] = 0] /\ stop \subseteq stop' /\ "ensure" \in Busy
  BY <1>1, <1>2, Unchanged DEF Busy
<1> QED
  BY <1>1, <1>3, OneMoves

(* What follows a scrape that is over leads a late one to the end or to the filters. *)
LEMMA AfterScrape ==
    ASSUME PoolInv, NEW w \in Worker, NEW n \in Nat, Scraped(w) \/ NotScraped(w),
           late' = [late EXCEPT ![w] = n], stop \subseteq stop',
           n # 0 => n = 1 /\ w \in stop' /\ (goal[w] # "filter" \/ Scraped(w))
    PROVE  PoolInv'
<1>1. CASE Scraped(w) /\ goal[w] = "brand"
  <2>1. at' = [at EXCEPT ![w] = "ensure"] /\ goal' = [goal EXCEPT ![w] = "filter"]
    BY <1>1 DEF Scraped, Go
  <2>2. "ensure" \in Busy /\ "filter" \in Goals
    BY DEF Busy, Goals
  <2> QED
    BY <2>1, <2>2, OneMoves
<1>2. CASE Scraped(w) /\ goal[w] # "brand"
  <2>1. at' = [at EXCEPT ![w] = "top"] /\ goal' = [goal EXCEPT ![w] = goal[w]]
    BY <1>2, Unchanged DEF Scraped, Go
  <2>2. "top" \in Busy /\ goal[w] \in Goals
    BY Unchanged DEF Busy
  <2> QED
    BY <2>1, <2>2, OneMoves
<1>3. CASE ~Scraped(w) /\ NotScraped(w) /\ goal[w] = "filter"
  <2>1. at' = [at EXCEPT ![w] = "reopen"] /\ goal' = [goal EXCEPT ![w] = "retry"] /\ n = 0
    BY <1>3 DEF NotScraped, Go
  <2>2. "reopen" \in Busy /\ "retry" \in Goals
    BY DEF Busy, Goals
  <2> QED
    BY <2>1, <2>2, OneMoves
<1>4. CASE NotScraped(w) /\ goal[w] # "filter"
  <2>1. at' = [at EXCEPT ![w] = "failed"] /\ goal' = [goal EXCEPT ![w] = goal[w]]
    BY <1>4, Unchanged DEF NotScraped, Go
  <2>2. "failed" \in Busy /\ goal[w] \in Goals
    BY Unchanged DEF Busy
  <2> QED
    BY <2>1, <2>2, OneMoves
<1> QED
  BY <1>1, <1>2, <1>3, <1>4

(* A scrape that begins is late if the worker was told to stop, and then the first. *)
LEMMA SearchCounts ==
    ASSUME PoolInv, NEW w \in Worker, Searches(w)
    PROVE  \E n \in Nat : /\ late' = [late EXCEPT ![w] = n]
                          /\ n # 0 => n = 1 /\ w \in stop /\ goal[w] # "filter"
<1>1. late[w] = 0
  <2>1. CASE w \in stop
    <3>1. at[w] = "scrape" /\ goal[w] # "filter"
      BY <2>1 DEF Searches
    <3> QED
      BY <3>1, Unchanged DEF Spent, Gone
  <2>2. CASE w \notin stop
    BY <2>2, Unchanged
  <2> QED
    BY <2>1, <2>2
<1>2. CASE w \in stop
  <2>1. late' = [late EXCEPT ![w] = 1] /\ goal[w] # "filter"
    BY <1>1, <1>2 DEF Searches
  <2> QED
    BY <1>2, <2>1
<1>3. CASE w \notin stop
  <2>1. late' = [late EXCEPT ![w] = 0]
    BY <1>1, <1>3, Unchanged DEF Searches
  <2> QED
    BY <2>1
<1> QED
  BY <1>2, <1>3

LEMMA ScrapeSteps ==
    ASSUME PoolInv, NEW w \in Worker, ScrapeOk(w) \/ ScrapeFails(w)
    PROVE  PoolInv'
<1>1. Searches(w) /\ (Scraped(w) \/ NotScraped(w)) /\ UNCHANGED stop
  BY DEF ScrapeOk, ScrapeFails
<1>2. PICK n \in Nat : /\ late' = [late EXCEPT ![w] = n]
                       /\ n # 0 => n = 1 /\ w \in stop /\ goal[w] # "filter"
  BY <1>1, SearchCounts
<1>3. stop \subseteq stop' /\ (n # 0 => n = 1 /\ w \in stop' /\ goal[w] # "filter")
  BY <1>1, <1>2
<1> QED
  BY <1>1, <1>2, <1>3, AfterScrape

LEMMA HangStep ==
    ASSUME PoolInv, NEW w \in Worker, Hangs(w)
    PROVE  PoolInv'
<1>1. Searches(w) /\ at' = [at EXCEPT ![w] = "hung"] /\ UNCHANGED <<goal, stop>>
  BY DEF Hangs, Go
<1>2. PICK n \in Nat : /\ late' = [late EXCEPT ![w] = n]
                       /\ n # 0 => n = 1 /\ w \in stop /\ goal[w] # "filter"
  BY <1>1, SearchCounts
<1>3. goal' = [goal EXCEPT ![w] = goal[w]] /\ goal[w] \in Goals /\ "hung" \in Busy
  BY <1>1, Unchanged DEF Busy
<1>4. stop \subseteq stop' /\ (n # 0 => n = 1 /\ w \in stop' /\ goal[w] # "filter")
  BY <1>1, <1>2
<1> QED
  BY <1>1, <1>2, <1>3, <1>4, OneMoves

LEMMA OnSteps ==
    ASSUME PoolInv, NEW w \in Worker, Resumes(w) \/ Slept(w)
    PROVE  PoolInv'
<1>1. /\ UNCHANGED <<late, stop>> /\ at[w] \in {"hung", "sleep"}
      /\ Scraped(w) \/ (at[w] = "hung" /\ NotScraped(w))
  BY DEF Resumes, Slept
<1>2. late' = [late EXCEPT ![w] = late[w]] /\ late[w] \in Nat
  BY <1>1, Unchanged
<1>3. late[w] # 0 => late[w] = 1 /\ w \in stop' /\ (goal[w] # "filter" \/ Scraped(w))
  BY <1>1, Unchanged DEF Spent, Gone
<1> QED
  BY <1>1, <1>2, <1>3, AfterScrape

(* The supervisor tells workers to stop and starts new ones. *)
LEMMA SupervisorSteps ==
    ASSUME PoolInv, Supervisor
    PROVE  PoolInv'
<1>1. UNCHANGED <<goal, late>> /\ stop \subseteq stop'
  BY DEF Supervisor, Condemn, CloseIt, ForgetIt, Replace
<1>2. at' = at \/ at' = [at EXCEPT ![current + 1] = "top"]
  BY DEF Supervisor, Condemn, CloseIt, ForgetIt, Replace
<1>3. at' \in [Worker -> Busy \cup Gone \cup {"unborn"}]
      /\ \A w \in Worker : at'[w] = at[w] \/ at'[w] = "top"
  BY <1>2 DEF PoolInv, ThreadTypeInv, Busy
<1> QED
  BY <1>1, <1>3 DEF PoolInv, ThreadTypeInv, LateInv, Spent

LEMMA PoolStep ==
    ASSUME PoolInv, [PoolNext]_pvars
    PROVE  PoolInv'
<1>1. ASSUME NEW w \in Worker, WorkerStep(w) \/ Dies(w) \/ Hangs(w) \/ Quiet(w) \/ Resumes(w)
      PROVE  PoolInv'
  BY <1>1, QuietSteps, ReopenStep, ScrapeSteps, HangStep, OnSteps DEF WorkerStep
<1>2. CASE Supervisor
  BY <1>2, SupervisorSteps
<1>3. CASE TimesOut \/ Reaped
  BY <1>3 DEF TimesOut, Reaped, PoolInv, ThreadTypeInv, LateInv, Spent
<1>4. CASE UNCHANGED pvars
  BY <1>4 DEF pvars, PoolInv, ThreadTypeInv, LateInv, Spent
<1> QED
  BY <1>1, <1>2, <1>3, <1>4 DEF PoolNext

(* A worker that was told to stop begins at most one scrape, however often its scrapes *)
(* hang and fail, and whatever its filters do (BrandWorker._run, BrandWorker.stop).    *)
THEOREM StoppedScrapesOnceAlways == PoolSpec => []StoppedScrapesOnce
<1>1. PoolInit => PoolInv
  BY PoolStart
<1>2. PoolInv /\ [PoolNext]_pvars => PoolInv'
  BY PoolStep
<1>3. PoolInv => StoppedScrapesOnce
  BY DEF PoolInv, ThreadTypeInv, LateInv, StoppedScrapesOnce
<1> QED
  BY <1>1, <1>2, <1>3, PTL DEF PoolSpec

-----------------------------------------------------------------------------
(* One Chromium. *)

\* Without a scrape that hangs only the worker that is looked after is alive, so that
\* the one browser that is up is the one its attribute names.
SoloInv ==
    hangs = 0 =>
      /\ current \in Worker /\ quiet = {} /\ up \subseteq {ref[current]}
      /\ \A w \in Worker : /\ w < current => at[w] = "dead"
                           /\ w > current => at[w] = "unborn" /\ ref[w] = NoBrowser
                           /\ at[w] = "dead" => w + 1 \in Worker
                           /\ at[w] # "hung"
      /\ at[current] = "scrape" => mine[current] = ref[current]
      /\ sup # "watch" => at[current] = "dead"
      /\ sup = "close" => closing = ref[current]
      /\ sup = "forget" => up = {}
      /\ sup = "join" => up \subseteq {NoBrowser}

ChromiumInv ==
    /\ ThreadTypeInv /\ hangs \in Nat /\ SoloInv
    /\ ref = [w \in Worker |-> ref[w]] /\ mine = [w \in Worker |-> mine[w]]
    /\ timeouts \in Nat /\ stray \in Nat /\ stray <= timeouts

LEMMA WorkerNat == Worker \subseteq Nat \ {0} /\ 1 \in Worker
<1>1. Cardinality(Worker) \in Nat
  BY PoolAssumption, FS_CardinalityType
<1> QED
  BY <1>1, PoolAssumption

LEMMA ChromiumStart ==
    ASSUME PoolInit
    PROVE  ChromiumInv
<1>1. ThreadTypeInv
  BY PoolStart DEF PoolInv
<1>2. SoloInv
  BY WorkerNat DEF PoolInit, SoloInv
<1> QED
  BY <1>1, <1>2 DEF PoolInit, ChromiumInv

(* While nothing hangs, a worker that moves is the one that is looked after. *)
LEMMA Lone ==
    ASSUME ChromiumInv, hangs = 0, NEW w \in Worker, at[w] \notin {"dead", "unborn"}
    PROVE  w = current /\ sup = "watch"
  BY WorkerNat DEF ChromiumInv, SoloInv

LEMMA LoneMoves ==
    ASSUME ChromiumInv, hangs = 0, NEW w \in Worker, at[w] \notin {"dead", "unborn"},
           NEW p, at' = [at EXCEPT ![w] = p], p # "hung", p = "dead" => w + 1 \in Worker,
           \A u \in Worker \ {w} : ref'[u] = ref[u],
           up' \subseteq {ref'[w]}, p = "scrape" => mine'[w] = ref'[w],
           quiet' = {}, UNCHANGED Supervising
    PROVE  SoloInv'
<1>1. w = current /\ sup = "watch" /\ UNCHANGED <<current, sup, closing>>
  BY Lone DEF Supervising
<1>2. at'[w] = p /\ \A u \in Worker \ {w} : at'[u] = at[u]
  BY DEF ChromiumInv, ThreadTypeInv
<1> QED
  BY <1>1, <1>2, WorkerNat DEF ChromiumInv, SoloInv

(* What a step of the lone worker does to the browsers. *)
LEMMA LoneStep ==
    ASSUME ChromiumInv, hangs = 0, NEW w \in Worker,
           WorkerStep(w) \/ Dies(w) \/ Quiet(w) \/ Resumes(w)
    PROVE  SoloInv'
<1> USE DEF Go
<1>1. /\ up \subseteq {ref[current]} /\ quiet = {} /\ at[w] # "hung"
      /\ at[current] = "scrape" => mine[current] = ref[current]
  BY DEF ChromiumInv, SoloInv
<1>2. /\ ref = [u \in Worker |-> ref[u]] /\ mine = [u \in Worker |-> mine[u]]
  BY DEF ChromiumInv
<1>3. at[w] \notin {"dead", "unborn"}
  BY <1>1 DEF WorkerStep, Top, BurstOff, Ensure, Launched, NotLaunched, ScrapeOk, ScrapeFails, Searches,
              NoFilters, Reopen, Failed, Slept, Ends, Dies, Quiet, Resumes
<1>4. w = current
  BY <1>3, Lone
<1>5. CASE Top(w) \/ BurstOff(w) \/ Dies(w) \/ Slept(w) \/ NoFilters(w)
  <2>1. PICK p \in {"last", "ensure", "dead", "top"} : at' = [at EXCEPT ![w] = p]
    BY <1>5, <1>3 DEF Top, BurstOff, Dies, Slept, NoFilters, Scraped, ChromiumInv, ThreadTypeInv
  <2>2. p = "dead" => w + 1 \in Worker
    <3>1. p = at'[w] /\ at[w] \in Busy \cup Gone \cup {"unborn"} /\ w \in DOMAIN at
      BY <2>1 DEF ChromiumInv, ThreadTypeInv
    <3> QED
      BY <1>5, <3>1 DEF Top, BurstOff, Dies, Replaceable, Slept, Scraped, NoFilters
  <2>3. /\ \A u \in Worker \ {w} : ref'[u] = ref[u]
        /\ up' \subseteq {ref'[w]} /\ quiet' = {} /\ UNCHANGED Supervising
    BY <1>1, <1>2, <1>4, <1>5 DEF Top, BurstOff, Dies, Slept, NoFilters, CloseBrowser
  <2> QED
    BY <1>3, <2>1, <2>2, <2>3, LoneMoves
<1>6. CASE Ensure(w) \/ Launched(w)
  <2>1. PICK p \in {"scrape", "launch"} : at' = [at EXCEPT ![w] = p]
    BY <1>6 DEF Ensure, Launched
  <2>2. /\ \A u \in Worker \ {w} : ref'[u] = ref[u]
        /\ up' \subseteq {ref'[w]} /\ (p = "scrape" => mine'[w] = ref'[w])
        /\ quiet' = {} /\ UNCHANGED Supervising
    BY <1>1, <1>2, <1>4, <1>6, <2>1 DEF Ensure, Launched, ChromiumInv, ThreadTypeInv
  <2> QED
    BY <1>3, <2>1, <2>2, LoneMoves
<1>7. CASE NotLaunched(w) \/ Reopen(w) \/ Failed(w) \/ Ends(w)
  <2>1. PICK p \in {"failed", "ensure", "sleep", "done"} : at' = [at EXCEPT ![w] = p]
    BY <1>7 DEF NotLaunched, Reopen, Failed, Ends
  <2>2. /\ \A u \in Worker \ {w} : ref'[u] = ref[u]
        /\ up' \subseteq {ref'[w]} /\ quiet' = {} /\ UNCHANGED Supervising
    BY <1>1, <1>2, <1>4, <1>7 DEF NotLaunched, Reopen, Failed, Ends, CloseBrowser
  <2> QED
    BY <1>3, <2>1, <2>2, LoneMoves
<1>8. CASE ScrapeOk(w) \/ ScrapeFails(w)
  <2>1. PICK p \in {"ensure", "top", "reopen", "failed"} : at' = [at EXCEPT ![w] = p]
    BY <1>8 DEF ScrapeOk, ScrapeFails, Scraped, NotScraped
  <2>2. /\ \A u \in Worker \ {w} : ref'[u] = ref[u]
        /\ up' \subseteq {ref'[w]} /\ quiet' = {} /\ UNCHANGED Supervising
    BY <1>1, <1>4, <1>8 DEF ScrapeOk, ScrapeFails, Searches
  <2> QED
    BY <1>3, <2>1, <2>2, LoneMoves
<1>9. ~Quiet(w) /\ ~Resumes(w)
  BY <1>1 DEF Quiet, Resumes
<1> QED
  BY <1>5, <1>6, <1>7, <1>8, <1>9 DEF WorkerStep

LEMMA SupervisorSolo ==
    ASSUME ChromiumInv, hangs = 0, Supervisor
    PROVE  SoloInv'
<1> USE DEF ChromiumInv, SoloInv
<1>1. CASE Condemn
  BY <1>1 DEF Condemn, Ill
<1>2. CASE CloseIt
  BY <1>2 DEF CloseIt
<1>3. CASE ForgetIt
  BY <1>3 DEF ForgetIt
<1>4. CASE Replace
  <2>1. at[current] = "dead" /\ current + 1 \in Worker /\ current \in Worker
    BY <1>4 DEF Replace
  <2>2. /\ current' = current + 1 /\ sup' = "watch" /\ at'[current + 1] = "top"
        /\ \A u \in Worker \ {current + 1} : at'[u] = at[u]
        /\ UNCHANGED <<ref, mine, quiet, up, closing, hangs>>
    BY <1>4, <2>1 DEF Replace, ThreadTypeInv
  <2>3. up \subseteq {NoBrowser} /\ ref[current + 1] = NoBrowser
    BY <1>4, <2>1, WorkerNat DEF Replace
  <2> QED
    BY <2>1, <2>2, <2>3, WorkerNat
<1> QED
  BY <1>1, <1>2, <1>3, <1>4 DEF Supervisor

(* A timeout takes a browser away, and nothing else that the invariant speaks of. *)
LEMMA LossSolo ==
    ASSUME ChromiumInv, hangs = 0, TimesOut \/ Reaped
    PROVE  SoloInv'
  BY DEF TimesOut, Reaped, Supervising, ChromiumInv, SoloInv

LEMMA StraysPaid ==
    ASSUME ChromiumInv, PoolNext
    PROVE  timeouts' \in Nat /\ stray' \in Nat /\ stray' <= timeouts'
<1>1. timeouts \in Nat /\ stray \in Nat /\ stray <= timeouts
  BY DEF ChromiumInv
<1>2. \/ UNCHANGED <<stray, timeouts>>
      \/ stray' = stray + 1 /\ timeouts' = timeouts + 1
      \/ stray > 0 /\ stray' = stray - 1 /\ timeouts' = timeouts
  BY DEF PoolNext, WorkerStep, Top, BurstOff, Ensure, Launched, NotLaunched, ScrapeOk, ScrapeFails,
         NoFilters, Reopen, Failed, Slept, Ends, Dies, Hangs, Quiet, Resumes, Strays,
         Supervisor, Condemn, CloseIt, ForgetIt, Replace, TimesOut, Reaped
<1> QED
  BY <1>1, <1>2

LEMMA ChromiumTypes ==
    ASSUME ChromiumInv, PoolNext
    PROVE  /\ hangs' \in Nat /\ (hangs' = 0 => hangs = 0 /\ \A w \in Worker : ~Hangs(w))
           /\ ref' = [w \in Worker |-> ref'[w]] /\ mine' = [w \in Worker |-> mine'[w]]
<1>1. hangs \in Nat /\ ref = [w \in Worker |-> ref[w]] /\ mine = [w \in Worker |-> mine[w]]
  BY DEF ChromiumInv
<1>2. hangs' = hangs \/ hangs' = hangs + 1
  BY DEF PoolNext, WorkerStep, Top, BurstOff, Ensure, Launched, NotLaunched, ScrapeOk, ScrapeFails,
         NoFilters, Reopen, Failed, Slept, Ends, Dies, Hangs, Quiet, Resumes,
         Supervisor, Condemn, CloseIt, ForgetIt, Replace, TimesOut, Reaped
<1>3. hangs' = 0 => hangs = 0 /\ \A w \in Worker : ~Hangs(w)
  BY <1>1, <1>2 DEF Hangs
<1>4. ref' = ref \/ \E w, b : ref' = [ref EXCEPT ![w] = b]
  BY DEF PoolNext, WorkerStep, Top, BurstOff, Ensure, Launched, NotLaunched, ScrapeOk, ScrapeFails,
         NoFilters, Reopen, Failed, Slept, Ends, Dies, Hangs, Quiet, Resumes, CloseBrowser,
         Supervisor, Condemn, CloseIt, ForgetIt, Replace, TimesOut, Reaped
<1>5. mine' = mine \/ \E w, b : mine' = [mine EXCEPT ![w] = b]
  BY DEF PoolNext, WorkerStep, Top, BurstOff, Ensure, Launched, NotLaunched, ScrapeOk, ScrapeFails,
         NoFilters, Reopen, Failed, Slept, Ends, Dies, Hangs, Quiet, Resumes, Drop, Scraped, NotScraped,
         Supervisor, Condemn, CloseIt, ForgetIt, Replace, TimesOut, Reaped
<1> QED
  BY <1>1, <1>2, <1>3, <1>4, <1>5

LEMMA ChromiumStep ==
    ASSUME PoolInv, ChromiumInv, [PoolNext]_pvars
    PROVE  ChromiumInv'
<1>1. ThreadTypeInv'
  BY PoolStep DEF PoolInv
<1>2. CASE PoolNext
  <2>1. ASSUME hangs' = 0 PROVE SoloInv'
    <3>1. hangs = 0 /\ \A w \in Worker : ~Hangs(w)
      BY <1>2, <2>1, ChromiumTypes
    <3> QED
      BY <1>2, <3>1, LoneStep, SupervisorSolo, LossSolo DEF PoolNext
  <2>2. SoloInv'
    BY <2>1 DEF SoloInv
  <2> QED
    BY <1>1, <1>2, <2>2, ChromiumTypes, StraysPaid DEF ChromiumInv
<1>3. CASE UNCHANGED pvars
  BY <1>1, <1>3 DEF pvars, ChromiumInv, SoloInv
<1> QED
  BY <1>2, <1>3

(* One Chromium runs at a time, and one more for each call to a browser that timed out, *)
(* as long as no scrape hangs: deaths of workers, failures, pauses and replacements     *)
(* never leave a second one (the comment of the pool, scrape_workers.py:1178), nor does *)
(* a timeout that hits a launch, a search or a close more than its own.                 *)
THEOREM OneChromiumAlways == PoolSpec => []OneChromiumUnlessLost
<1>1. PoolInit => ChromiumInv
  BY ChromiumStart
<1>2. PoolInv /\ ChromiumInv /\ [PoolNext]_pvars => ChromiumInv'
  BY ChromiumStep
<1>3. ChromiumInv => OneChromiumUnlessLost
  <2> SUFFICES ASSUME ChromiumInv, hangs = 0 PROVE Cardinality(up) + stray <= 1 + timeouts
    BY DEF OneChromiumUnlessLost
  <2>1. up \subseteq {ref[current]}
    BY DEF ChromiumInv, SoloInv
  <2>2. /\ IsFiniteSet({ref[current]}) /\ Cardinality({ref[current]}) = 1
    BY FS_Singleton
  <2>3. Cardinality(up) <= Cardinality({ref[current]})
    BY <2>1, <2>2, FS_Subset
  <2>4. Cardinality(up) \in Nat
    BY <2>1, <2>2, FS_Subset, FS_CardinalityType
  <2> QED
    BY <2>2, <2>3, <2>4 DEF ChromiumInv
<1>4. PoolInit => PoolInv
  BY PoolStart
<1>5. PoolInv /\ [PoolNext]_pvars => PoolInv'
  BY PoolStep
<1> QED
  BY <1>1, <1>2, <1>3, <1>4, <1>5, PTL DEF PoolSpec

-----------------------------------------------------------------------------
(* The redeploys. *)

(* What the spacing rests on: as long as the database works, the time of the last *)
(* redeploy is on record.                                                         *)
RedeployInv ==
    /\ last \in 0 .. Cooldown
    /\ sinceRedeploy \in 0 .. Cooldown
    /\ faults \in Nat
    /\ faults = 0 => last = sinceRedeploy

LEMMA RedeployStart ==
    ASSUME RedeployInit
    PROVE  RedeployInv
  BY RedeployAssumption DEF RedeployInit, RedeployInv

LEMMA RedeployStep ==
    ASSUME RedeployInv, [RedeployNext]_rvars
    PROVE  RedeployInv'
<1>1. CASE CatalogBlocked \/ CatalogSuccess \/ Restart
  BY <1>1 DEF CatalogBlocked, CatalogSuccess, Restart, Persist, NoFault, Fault, RedeployInv
<1>2. CASE ThreadLimit \/ CycleSuccess \/ UNCHANGED rvars
  BY <1>2 DEF ThreadLimit, CycleSuccess, rvars, RedeployInv
<1>3. CASE Redeploy \/ RedeployUnsaved
  BY <1>3, RedeployAssumption DEF Redeploy, RedeployUnsaved, Cooled, NoFault, Fault, RedeployInv
<1>4. CASE Tick
  BY <1>4, RedeployAssumption DEF Tick, Staler, AtMost, RedeployInv
<1> QED
  BY <1>1, <1>2, <1>3, <1>4 DEF RedeployNext

LEMMA SpacedStep ==
    ASSUME RedeployInv, Redeploy \/ RedeployUnsaved, faults' = 0
    PROVE  sinceRedeploy >= Cooldown
<1>1. CASE Redeploy
  BY <1>1 DEF Redeploy, Cooled, NoFault, Fault, RedeployInv
<1>2. CASE RedeployUnsaved
  BY <1>2 DEF RedeployUnsaved, Fault, RedeployInv
<1> QED
  BY <1>1, <1>2

(* As long as the database takes what it is given, two redeploys are at least the    *)
(* cooldown of maybe_auto_railway_redeploy apart, through restarts and thread limits *)
(* alike; for any thresholds, window and cooldown.                                   *)
THEOREM SpacedAlways == RedeploySpec => RedeploysSpaced
<1>1. RedeploySpec => []RedeployInv
  BY RedeployStart, RedeployStep, PTL DEF RedeploySpec
<1>2. RedeployInv => (((Redeploy \/ RedeployUnsaved) /\ faults' = 0) => sinceRedeploy >= Cooldown)
  BY SpacedStep
<1> QED
  BY <1>1, <1>2, PTL DEF RedeploysSpaced, RedeploySpec

-----------------------------------------------------------------------------
(* The loop of a worker. *)

(* A finite set of targets, or of anything that is weighed with integers, has one *)
(* that outweighs the others.                                                     *)
LEMMA Heaviest ==
    ASSUME NEW S, IsFiniteSet(S), S # {}, NEW v \in [S -> Int]
    PROVE  \E x \in S : \A y \in S : v[x] >= v[y]
<1> DEFINE Lighter(x) == {y \in S : v[y] < v[x]}
<1>1. PICK n \in Nat : n = Cardinality(S)
  BY FS_CardinalityType
<1>2. \A x \in S : Cardinality(Lighter(x)) \in Nat /\ Cardinality(Lighter(x)) <= n
  <2>1. SUFFICES ASSUME NEW x \in S
                 PROVE  Cardinality(Lighter(x)) \in Nat /\ Cardinality(Lighter(x)) <= n
    OBVIOUS
  <2>2. Lighter(x) \in SUBSET S
    OBVIOUS
  <2>3. IsFiniteSet(Lighter(x)) /\ Cardinality(Lighter(x)) <= Cardinality(S)
    BY <2>2, FS_Subset
  <2> QED
    BY <2>3, <1>1, FS_CardinalityType
<1> DEFINE Above == {n - Cardinality(Lighter(x)) : x \in S}
<1>3. Above \subseteq Nat /\ Above # {}
  <2> HIDE DEF Lighter
  <2>1. \A x \in S : n - Cardinality(Lighter(x)) \in Nat
    BY <1>1, <1>2
  <2> QED
    BY <2>1
<1> DEFINE Less == {p \in Nat \X Nat : p[1] < p[2]}
<1>4. IsWellFoundedOn(Less, Nat)
  <2>1. Less = OpToRel(<, Nat)
    BY Zenon DEF OpToRel
  <2> QED
    BY <2>1, NatLessThanWellFounded, Zenon
<1>5. PICK m \in Above : \A k \in Above : ~(k < m)
  <2> HIDE DEF Above
  <2>1. PICK m \in Above : \A k \in Above : <<k, m>> \notin Less
    BY <1>3, <1>4, WFMin, Zenon
  <2> QED
    BY <2>1, <1>3
<1>6. PICK x \in S : m = n - Cardinality(Lighter(x))
  BY <1>5
<1>7. ASSUME NEW y \in S, ~(v[x] >= v[y])
      PROVE  FALSE
  <2>1. Lighter(x) \cup {x} \subseteq Lighter(y) /\ x \notin Lighter(x)
    BY <1>7
  <2>2. IsFiniteSet(Lighter(x)) /\ IsFiniteSet(Lighter(y))
    <3>1. Lighter(x) \in SUBSET S /\ Lighter(y) \in SUBSET S
      OBVIOUS
    <3> QED
      BY <3>1, FS_Subset
  <2> HIDE DEF Lighter
  <2>3. Cardinality(Lighter(x) \cup {x}) = Cardinality(Lighter(x)) + 1
    BY <2>1, <2>2, FS_AddElement
  <2>4. Cardinality(Lighter(x) \cup {x}) <= Cardinality(Lighter(y))
    BY <2>1, <2>2, FS_Subset
  <2>5. n - Cardinality(Lighter(y)) \in Above
    OBVIOUS
  <2>6. ~(n - Cardinality(Lighter(y)) < m)
    BY <2>5, <1>5
  <2> QED
    BY <2>3, <2>4, <2>6, <1>1, <1>2, <1>6
<1> QED
  BY <1>7

(* Min is the least element of a finite set of integers. *)
LEMMA Smallest ==
    ASSUME NEW S \in SUBSET Int, IsFiniteSet(S), S # {}
    PROVE  Min(S) \in S /\ \A y \in S : Min(S) <= y
<1> DEFINE v == [y \in S |-> 0 - y]
<1>1. v \in [S -> Int] /\ \A y \in S : v[y] = 0 - y /\ y \in Int
  OBVIOUS
<1>2. \E x \in S : \A y \in S : v[x] >= v[y]
  <2> HIDE DEF v
  <2> QED
    BY <1>1, Heaviest
<1>3. PICK x \in S : \A y \in S : v[x] >= v[y]
  BY <1>2
<1>4. \A y \in S : x <= y
  <2> HIDE DEF v
  <2> QED
    BY <1>1, <1>3
<1> QED
  BY <1>4 DEF Min

Longest == Max(Took)

LEMMA LongestIs == Longest \in Nat \ {0} /\ \A d \in Took : d \in Nat \ {0} /\ d <= Longest
<1> DEFINE v == [d \in Took |-> d]
<1>1. v \in [Took -> Int]
  BY ScheduleAssumption
<1>2. IsFiniteSet(Took) /\ Took # {}
  BY ScheduleAssumption
<1>3. \E x \in Took : \A y \in Took : v[x] >= v[y]
  BY <1>1, <1>2, Heaviest
<1>4. \E x \in Took : \A y \in Took : x >= y
  BY <1>3
<1>5. Longest \in Took /\ \A y \in Took : Longest >= y
  BY <1>4 DEF Longest, Max
<1> QED
  BY <1>5, ScheduleAssumption


(* The invariant.  Each scrape of another target takes a fourth of a turn at most, *)
(* and what is scraped becomes younger than everything that starves: a target over *)
(* the ceiling waits one turn for each target that is younger than it.             *)
Younger(t) == {u \in Target : Age(u) < Age(t)}

Limit(n) == MaxRevisit + 4 * Longest * n

\* How many scrapes the turn of the last target has seen, its own not counted.
Passed == IF pc = "pick" THEN 3 ELSE IF pc = "inject" THEN 0 ELSE 3 - Len(batch)

Kept(t) == since[t] # Never =>
               since[t] <= Limit(Cardinality(Younger(t))) + Passed * Longest

ScheduleSane ==
    /\ ScheduleTypeOK
    /\ Len(batch) <= 3
    /\ \A t \in Target : since[t] = Never => activity[t] = Never

ScheduleInv ==
    /\ ScheduleSane
    /\ MaxRevisit + Round < MaxAge /\ failing = {} => \A t \in Target : Kept(t)

-----------------------------------------------------------------------------
(* What a step does to the ages and the plan. *)

LEMMA LimitGrows ==
    /\ \A n \in Nat : Limit(n) \in Nat /\ Limit(n) >= MaxRevisit
    /\ \A m, n \in Nat : m <= n => Limit(m) <= Limit(n)
    /\ \A m, n \in Nat : m < n => Limit(m) + 4 * Longest <= Limit(n)
<1>1. PICK k \in Nat \ {0} : k = Longest
  BY LongestIs
<1>2. MaxRevisit \in Nat
  BY ScheduleAssumption
<1>3. \A n \in Nat : 4 * k * n \in Nat
  OBVIOUS
<1>4. ASSUME NEW m \in Nat, NEW n \in Nat, m <= n
      PROVE  4 * k * m <= 4 * k * n
  BY <1>4
<1>5. ASSUME NEW m \in Nat, NEW n \in Nat, m < n
      PROVE  4 * k * m + 4 * k <= 4 * k * n
  <2>1. 4 * k * (m + 1) <= 4 * k * n
    BY <1>4, <1>5
  <2> QED
    BY <2>1
<1> QED
  BY <1>1, <1>2, <1>3, <1>4, <1>5 DEF Limit

LEMMA Multiples ==
    0 * Longest = 0 /\ 1 * Longest = Longest
      /\ 2 * Longest = Longest + Longest /\ 3 * Longest = Longest + Longest + Longest
  BY LongestIs

LEMMA YoungerIs ==
    ASSUME ScheduleSane, NEW t \in Target
    PROVE  /\ IsFiniteSet(Younger(t)) /\ Cardinality(Younger(t)) \in Nat
           /\ Cardinality(Younger(t)) < Cardinality(Target)
<1>1. Younger(t) \in SUBSET Target
  BY DEF Younger
<1>2. IsFiniteSet(Younger(t)) /\ IsFiniteSet(Target)
  BY <1>1, ScheduleAssumption, FS_Subset
<1>3. Cardinality(Younger(t)) \in Nat /\ Cardinality(Target) \in Nat
  BY <1>2, FS_CardinalityType
<1>4. Cardinality(Younger(t)) <= Cardinality(Target)
  BY <1>1, <1>2, FS_Subset
<1>5. Younger(t) # Target
  <2>1. Age(t) \in Int
    BY ScheduleAssumption DEF Age, ScheduleSane, ScheduleTypeOK
  <2> QED
    BY <2>1 DEF Younger
<1> QED
  BY <1>1, <1>2, <1>3, <1>4, <1>5, FS_Subset

LEMMA Ages ==
    ASSUME ScheduleSane, NEW t \in Target
    PROVE  /\ Age(t) \in Nat /\ Age(t) <= MaxAge + 1
           /\ since[t] # Never => since[t] \in 0 .. MaxAge /\ Age(t) = since[t]
           /\ since[t] = Never => Age(t) = MaxAge + 1
  BY ScheduleAssumption DEF Age, ScheduleSane, ScheduleTypeOK

LEMMA Hotnesses ==
    ASSUME ScheduleSane, NEW t \in Target
    PROVE  Hotness(t) \in Nat /\ Score(t) \in Int
<1>1. Hotness(t) \in Nat
  <2>1. CASE activity[t] = Never
    BY <2>1 DEF Hotness, Sec
  <2>2. CASE activity[t] # Never
    <3>1. since[t] \in Nat /\ activity[t] \in Signal
      BY <2>2 DEF ScheduleSane, ScheduleTypeOK
    <3>2. PICK s \in Signal : s = activity[t]
      BY <3>1
    <3>3. /\ s.newest \in Nat /\ s.oldest \in Nat /\ s.created \in Nat
          /\ s.saturated \in BOOLEAN
      BY ScheduleAssumption
    <3>4. \A a \in Int : Larger(0, a) \in Nat
      BY DEF Larger
    <3>5. /\ Larger(0, 600 * Sec - (s.newest + since[t])) \in Nat
          /\ Larger(0, 300 * Sec - (s.oldest + since[t])) \in Nat
          /\ s.created * 40 * Sec \in Nat
      BY <3>1, <3>3, <3>4 DEF Sec
    <3> QED
      BY <2>2, <3>2, <3>5 DEF Hotness
  <2> QED
    BY <2>1, <2>2
<1>2. next[t] \in Int /\ Priority[t] \in {"high", "medium", "low"}
  BY ScheduleAssumption DEF ScheduleSane, ScheduleTypeOK
<1>3. Weight[Priority[t]] \in Nat
  BY <1>2 DEF Weight
<1>4. Larger(0, 0 - next[t]) \in Nat
  BY <1>2 DEF Larger
<1> QED
  BY <1>1, <1>3, <1>4 DEF Score

(* A starving target is found, and so is one that is due. *)
LEMMA SomethingPicked ==
    ASSUME ScheduleSane, Picks = {}
    PROVE  Starving = {} /\ Due = {}
<1>1. ASSUME Starving # {}
      PROVE  MostStarved # {}
  <2> DEFINE age == [t \in Starving |-> Age(t)]
  <2>1. Starving \in SUBSET Target /\ IsFiniteSet(Target)
    BY ScheduleAssumption DEF Starving
  <2>2. IsFiniteSet(Starving) /\ age \in [Starving -> Int]
    BY <2>1, Ages, FS_Subset
  <2>3. PICK old \in Starving : \A u \in Starving : age[old] >= age[u]
    BY <1>1, <2>2, Heaviest
  <2> DEFINE Oldest == {t \in Starving : Age(t) = Age(old)}
             hot == [t \in Oldest |-> Hotness(t)]
  <2>4. Oldest \in SUBSET Starving /\ old \in Oldest
    OBVIOUS
  <2>5. IsFiniteSet(Oldest) /\ hot \in [Oldest -> Int]
    BY <2>1, <2>2, <2>4, Hotnesses, FS_Subset
  <2>6. PICK t \in Oldest : \A u \in Oldest : hot[t] >= hot[u]
    BY <2>4, <2>5, Heaviest
  <2>7. \A u \in Starving : Age(t) >= Age(u) /\ Age(t) \in Nat /\ Age(u) \in Nat
    BY <2>1, <2>3, <2>4, Ages
  <2>8. \A u \in Starving : Age(t) = Age(u) => Hotness(t) >= Hotness(u)
    BY <2>6
  <2>9. t \in MostStarved
    BY <2>4, <2>7, <2>8 DEF MostStarved
  <2> QED
    BY <2>9
<1>2. ASSUME Due # {}
      PROVE  BestDue # {}
  <2> DEFINE score == [t \in Due |-> Score(t)]
  <2>1. Due \in SUBSET Target /\ IsFiniteSet(Target)
    BY ScheduleAssumption DEF Due
  <2>2. IsFiniteSet(Due) /\ score \in [Due -> Int]
    BY <2>1, Hotnesses, FS_Subset
  <2>3. PICK t \in Due : \A u \in Due : score[t] >= score[u]
    BY <1>2, <2>2, Heaviest
  <2>4. t \in BestDue
    BY <2>3 DEF BestDue
  <2> QED
    BY <2>4
<1> QED
  BY <1>1, <1>2 DEF Picks

(* A worker that has nothing to do waits for no longer than any target can.  *)
LEMMA WakesInTime ==
    ASSUME ScheduleSane, Picks = {}, NEW t \in Target
    PROVE  /\ UntilNext \in Nat \ {0}
           /\ UntilNext <= next[t]
           /\ since[t] # Never => since[t] + UntilNext <= MaxRevisit
<1> DEFINE Known == {u \in Target : since[u] # Never}
           Plans == {next[u] : u \in Target}
           Rests == {MaxRevisit - since[u] : u \in Known}
           least == Min(Plans \cup Rests)
<1>1. Starving = {} /\ Due = {}
  BY SomethingPicked
<1>2. \A u \in Target : next[u] \in Int /\ next[u] >= 1
  BY <1>1 DEF Due, ScheduleSane, ScheduleTypeOK
<1>3. \A u \in Known : since[u] \in Nat /\ MaxRevisit - since[u] \in Nat \ {0}
  BY <1>1, ScheduleAssumption DEF Starving, ScheduleSane, ScheduleTypeOK
<1>4. Plans \cup Rests \subseteq Nat \ {0}
  BY <1>2, <1>3
<1>5. IsFiniteSet(Target) /\ IsFiniteSet(Known)
  BY ScheduleAssumption, FS_Subset
<1>6. PICK p \in Plans : \A k \in Plans : p <= k
  <2> DEFINE v == [u \in Target |-> 0 - next[u]]
  <2>1. v \in [Target -> Int]
    BY <1>2
  <2>2. PICK u \in Target : \A w \in Target : v[u] >= v[w]
    BY <1>5, <2>1, Heaviest
  <2>3. \A w \in Target : next[u] <= next[w]
    BY <1>2, <2>2
  <2> QED
    BY <2>3
<1>7. ASSUME Known # {}
      PROVE  \E r \in Rests : \A k \in Rests : r <= k
  <2> DEFINE v == [u \in Known |-> since[u]]
  <2>1. v \in [Known -> Int]
    BY <1>3
  <2>2. PICK u \in Known : \A w \in Known : v[u] >= v[w]
    BY <1>5, <1>7, <2>1, Heaviest
  <2>3. \A w \in Known : since[u] >= since[w]
    BY <2>2
  <2>4. MaxRevisit \in Nat
    BY ScheduleAssumption
  <2>5. \A w \in Known : MaxRevisit - since[u] <= MaxRevisit - since[w]
    BY <1>3, <2>3, <2>4
  <2> QED
    BY <2>5
<1>8. \E m \in Plans \cup Rests : \A k \in Plans \cup Rests : m <= k
  <2>1. CASE Known = {}
    <3>1. Rests = {}
      BY <2>1
    <3> HIDE DEF Plans, Rests
    <3> QED
      BY <1>6, <3>1
  <2>2. CASE Known # {}
    <3>1. PICK r \in Rests : \A k \in Rests : r <= k
      BY <1>7, <2>2
    <3> HIDE DEF Plans, Rests
    <3> QED
      BY <1>4, <1>6, <3>1
  <2> QED
    BY <2>1, <2>2
<1>9. least \in Plans \cup Rests /\ \A k \in Plans \cup Rests : least <= k
  <2> HIDE DEF Plans, Rests
  <2> QED
    BY <1>8 DEF Min
<1>10. least \in Nat \ {0} /\ least <= next[t]
  <2>1. next[t] \in Plans
    OBVIOUS
  <2> HIDE DEF Plans, Rests, least
  <2> QED
    BY <1>4, <1>9, <2>1
<1>11. ASSUME since[t] # Never
       PROVE  since[t] + least <= MaxRevisit
  <2>1. MaxRevisit - since[t] \in Rests /\ since[t] \in Nat
    BY <1>3, <1>11
  <2> HIDE DEF Plans, Rests, least
  <2> QED
    BY <1>9, <1>10, <2>1, ScheduleAssumption
<1>12. UntilNext = least
  <2>1. UntilNext = Larger(1, least)
    BY DEF UntilNext
  <2> HIDE DEF least
  <2> QED
    BY <1>10, <2>1 DEF Larger
<1> QED
  <2> HIDE DEF least
  <2> QED
    BY <1>10, <1>11, <1>12

(* The clock moves on by d: what is older stays older. *)
LEMMA Passes ==
    ASSUME ScheduleSane, NEW d \in Nat, NEW t \in Target
    PROVE  /\ Older(d)[t] \in (0 .. MaxAge) \cup {Never}
           /\ Older(d)[t] = Never <=> since[t] = Never
           /\ since[t] # Never => /\ Older(d)[t] \in Nat /\ Older(d)[t] <= since[t] + d
                                  /\ since[t] \in Nat
                                  /\ since[t] + d <= MaxAge => Older(d)[t] = since[t] + d
           /\ Nearer(d)[t] \in Int
           /\ Nearer(d)[t] >= next[t] - d
<1>1. since[t] # Never => since[t] \in Nat /\ since[t] <= MaxAge
  BY ScheduleAssumption DEF ScheduleSane, ScheduleTypeOK
<1>2. next[t] \in Int /\ MaxAge \in Nat /\ MaxRevisit \in Nat /\ Never \notin 0 .. MaxAge
  BY ScheduleAssumption DEF ScheduleSane, ScheduleTypeOK
<1> QED
  BY <1>1, <1>2 DEF Older, Nearer, Smaller, Larger

LEMMA NoOversleepStep ==
    ASSUME ScheduleSane, NothingDue, NEW t \in Target
    PROVE  next'[t] >= 0 /\ (since'[t] # Never => since'[t] <= MaxRevisit)
<1>1. PICK d \in Nat : d = UntilNext /\ d # 0 /\ d <= next[t]
                        /\ (since[t] # Never => since[t] + d <= MaxRevisit)
  BY WakesInTime DEF NothingDue
<1>2. PICK e \in Nat : e = Smaller(d, 2 * Sec) /\ e <= d
  BY DEF Smaller, Sec
<1>3. next' = Nearer(e) /\ since' = Older(e)
  BY <1>1, <1>2 DEF NothingDue
<1>4. next[t] \in Int /\ MaxRevisit \in Nat
  BY ScheduleAssumption DEF ScheduleSane, ScheduleTypeOK
<1> QED
  BY <1>1, <1>2, <1>3, <1>4, Passes

-----------------------------------------------------------------------------
(* Every step keeps the state in order. *)

LEMMA Intervals ==
    ASSUME NEW t \in Target, NEW s \in Signal
    PROVE  Adapted(t, s) \in Nat /\ Base[t] \in Nat
<1>1. Base[t] \in Nat \ {0} /\ s.saturated \in BOOLEAN /\ s.oldest \in Nat /\ s.newest \in Nat
  BY ScheduleAssumption
<1>2. PICK b \in Nat : b = Base[t]
  BY <1>1
<1>3. /\ Smaller(b, 3 * Sec) \in Nat
      /\ Smaller(b, Larger(4 * Sec, b \div 2)) \in Nat
      /\ Smaller((3 * b) \div 2, b + 30 * Sec) \in Nat
  BY DEF Smaller, Larger, Sec
<1>4. CASE s.saturated /\ s.oldest < 30 * Sec
  BY <1>1, <1>2, <1>3, <1>4 DEF Adapted, Sec
<1>5. CASE s.saturated /\ s.oldest \in 30 * Sec .. (90 * Sec) - 1
  BY <1>1, <1>2, <1>3, <1>5 DEF Adapted, Sec
<1>6. CASE ~s.saturated /\ s.newest > 900 * Sec
  BY <1>1, <1>2, <1>3, <1>6 DEF Adapted, Sec
<1>7. CASE /\ ~(s.saturated /\ s.oldest < 30 * Sec)
           /\ ~(s.saturated /\ s.oldest \in 30 * Sec .. (90 * Sec) - 1)
           /\ ~(~s.saturated /\ s.newest > 900 * Sec)
  BY <1>1, <1>2, <1>3, <1>7 DEF Adapted, Sec
<1> QED
  BY <1>4, <1>5, <1>6, <1>7

LEMMA Clocks ==
    ASSUME ScheduleSane, NEW d \in Nat
    PROVE  /\ Older(d) \in [Target -> (0 .. MaxAge) \cup {Never}]
           /\ Nearer(d) \in [Target -> Int]
           /\ Larger(0, timer - d) \in 0 .. InjectEvery
<1>1. \A t \in Target : Older(d)[t] \in (0 .. MaxAge) \cup {Never} /\ Nearer(d)[t] \in Int
  BY Passes
<1>2. timer \in 0 .. InjectEvery /\ InjectEvery \in Nat
  BY ScheduleAssumption DEF ScheduleSane, ScheduleTypeOK
<1>3. Larger(0, timer - d) \in 0 .. InjectEvery
  BY <1>2 DEF Larger
<1>4. Older(d) \in [Target -> (0 .. MaxAge) \cup {Never}]
  BY <1>1 DEF Older
<1>5. Nearer(d) \in [Target -> Int]
  BY <1>1 DEF Nearer
<1> QED
  BY <1>3, <1>4, <1>5

(* A scrape of a target, and a wait: the filters are left alone. *)
LEMMA SaneIdle ==
    ASSUME ScheduleSane, NEW d \in Nat, timer' = Larger(0, timer - d),
           next' \in [Target -> Int], since' \in [Target -> (0 .. MaxAge) \cup {Never}],
           activity' \in [Target -> Signal \cup {Never}],
           \A t \in Target : since'[t] = Never => activity'[t] = Never,
           pc = "pick", pc' \in {"pick", "inject"},
           UNCHANGED <<filters, idx, batch>>
    PROVE  ScheduleSane'
<1>1. timer' \in 0 .. InjectEvery
  BY Clocks
<1>2. batch = <<>>
  BY DEF ScheduleSane, ScheduleTypeOK
<1> QED
  BY <1>1, <1>2 DEF ScheduleSane, ScheduleTypeOK

LEMMA SaneStart ==
    ASSUME ScheduleInit
    PROVE  ScheduleSane
<1>1. filters \in FilterLists /\ batch = <<>> /\ Len(batch) = 0 /\ pc = "pick" /\ idx = 0
  BY DEF ScheduleInit
<1>2. batch \in Seq(ToSet(filters))
  BY <1>1
<1>3. timer \in 0 .. InjectEvery
  BY ScheduleAssumption DEF ScheduleInit
<1> QED
  BY <1>1, <1>2, <1>3 DEF ScheduleInit, ScheduleSane, ScheduleTypeOK

LEMMA SaneWait ==
    ASSUME ScheduleSane, NothingDue
    PROVE  ScheduleSane'
<1>1. UntilNext \in Nat
  BY ScheduleAssumption, WakesInTime DEF NothingDue
<1>2. PICK d \in Nat : d = Smaller(UntilNext, 2 * Sec)
  BY <1>1 DEF Smaller, Sec
<1>3. next' = Nearer(d) /\ since' = Older(d) /\ timer' = Larger(0, timer - d)
  BY <1>2 DEF NothingDue
<1>4. \A t \in Target : since'[t] = Never => activity'[t] = Never
  BY <1>3, Passes DEF NothingDue, ScheduleSane
<1> QED
  BY <1>3, <1>4, Clocks, SaneIdle DEF NothingDue, ScheduleSane, ScheduleTypeOK

LEMMA SaneTarget ==
    ASSUME ScheduleSane, NEW t \in Target, NEW d \in Took,
           TargetFails(t, d) \/ \E s \in Signal : TargetOk(t, s, d)
    PROVE  ScheduleSane'
<1>1. d \in Nat
  BY LongestIs
<1>2. CASE TargetFails(t, d)
  <2>1. since' = Older(d) /\ timer' = Larger(0, timer - d) /\ activity' = activity
    BY <1>2 DEF TargetFails
  <2>2. next' \in [Target -> Int]
    BY <1>1, <1>2, Clocks, ScheduleAssumption DEF TargetFails
  <2>3. \A u \in Target : since'[u] = Never => activity'[u] = Never
    BY <1>1, <2>1, Passes DEF ScheduleSane
  <2> QED
    BY <1>1, <1>2, <2>1, <2>2, <2>3, Clocks, SaneIdle
    DEF TargetFails, ScheduleSane, ScheduleTypeOK
<1>3. CASE \E s \in Signal : TargetOk(t, s, d)
  <2>1. PICK s \in Signal : TargetOk(t, s, d)
    BY <1>3
  <2>2. next' \in [Target -> Int]
    BY <1>1, <2>1, Clocks, Intervals DEF TargetOk
  <2>3. since' \in [Target -> (0 .. MaxAge) \cup {Never}]
    <3>1. Older(d) \in [Target -> (0 .. MaxAge) \cup {Never}]
      BY <1>1, Clocks
    <3>2. since' = [Older(d) EXCEPT ![t] = 0] /\ 0 \in 0 .. MaxAge
      BY <2>1, ScheduleAssumption DEF TargetOk
    <3> QED
      BY <3>1, <3>2
  <2>4. activity' \in [Target -> Signal \cup {Never}]
    BY <2>1 DEF TargetOk, ScheduleSane, ScheduleTypeOK
  <2>5. ASSUME NEW u \in Target, since'[u] = Never
        PROVE  activity'[u] = Never
    <3>1. since' = [Older(d) EXCEPT ![t] = 0] /\ activity' = [activity EXCEPT ![t] = s]
      BY <2>1 DEF TargetOk
    <3>5. Never # 0
      <4>1. 0 \in 0 .. MaxAge /\ Never \notin 0 .. MaxAge
        BY ScheduleAssumption
      <4> QED
        BY <4>1
    <3>2. Older(d) \in [Target -> (0 .. MaxAge) \cup {Never}] /\ Never # 0
      BY <1>1, <3>5, Clocks
    <3>3. u # t /\ Older(d)[u] = Never
      BY <2>5, <3>1, <3>2
    <3>4. since[u] = Never
      BY <1>1, <3>3, Passes
    <3> QED
      BY <3>1, <3>3, <3>4 DEF ScheduleSane, ScheduleTypeOK
  <2> QED
    BY <1>1, <2>1, <2>2, <2>3, <2>4, <2>5, SaneIdle DEF TargetOk
<1> QED
  BY <1>2, <1>3

LEMMA SaneLost ==
    ASSUME ScheduleSane, NEW d \in Took, BrowserLost(d)
    PROVE  ScheduleSane'
<1>1. d \in Nat
  BY LongestIs
<1>2. next' = Nearer(d) /\ since' = Older(d) /\ timer' = Larger(0, timer - d)
  BY DEF BrowserLost
<1>3. \A t \in Target : since'[t] = Never => activity'[t] = Never
  BY <1>1, <1>2, Passes DEF BrowserLost, ScheduleSane
<1> QED
  BY <1>1, <1>2, <1>3, Clocks, SaneIdle DEF BrowserLost, ScheduleSane, ScheduleTypeOK

(* A batch is a few filters of the list, in its order. *)
LEMMA BatchIs ==
    ASSUME NEW fs \in FilterLists, NEW i \in Nat, i = 0 \/ i < Len(fs)
    PROVE  /\ BatchSize(Len(fs)) \in 0 .. 3
           /\ BatchSize(Len(fs)) = 0 <=> Len(fs) = 0
           /\ \A n \in 1 .. 3 : Len(fs) # 0 =>
                 /\ Turn(fs, i, n) \in Seq(ToSet(fs)) /\ Len(Turn(fs, i, n)) = n
                 /\ (i + n) % Len(fs) \in Nat /\ (i + n) % Len(fs) < Len(fs)
<1>1. fs \in Seq(Filter)
  BY ScheduleAssumption
<1>2. PICK n \in Nat : n = Len(fs)
  BY <1>1
<1>3. FewFilters \in Nat \ {0} /\ ManyFilters \in Nat \ {0}
  BY ScheduleAssumption
<1>4. BatchSize(n) \in 0 .. 3 /\ (BatchSize(n) = 0 <=> n = 0)
  <2>1. CASE n = 0
    BY <1>3, <2>1 DEF BatchSize
  <2>2. CASE n # 0 /\ n >= ManyFilters
    BY <1>3, <2>2 DEF BatchSize, Smaller
  <2>3. CASE n # 0 /\ n >= FewFilters /\ n < ManyFilters
    BY <1>3, <2>3 DEF BatchSize, Smaller
  <2>4. CASE n # 0 /\ ~(n >= ManyFilters) /\ ~(n >= FewFilters /\ n < ManyFilters)
    BY <1>3, <2>4 DEF BatchSize
  <2> QED
    BY <2>1, <2>2, <2>3, <2>4
<1>5. ASSUME NEW k \in 1 .. 3, n # 0
      PROVE  /\ Turn(fs, i, k) \in Seq(ToSet(fs)) /\ Len(Turn(fs, i, k)) = k
             /\ (i + k) % n \in Nat /\ (i + k) % n < n
  <2>1. \A m \in Nat : m % n \in Nat /\ m % n < n
    BY <1>2, <1>5
  <2>2. \A j \in 1 .. k : fs[((i + j - 1) % n) + 1] \in ToSet(fs)
    <3>1. \A j \in 1 .. n : fs[j] \in ToSet(fs)
      BY <1>1, <1>2 DEF ToSet
    <3>2. \A j \in 1 .. k : ((i + j - 1) % n) + 1 \in 1 .. n
      <4>1. ASSUME NEW j \in 1 .. k
            PROVE  ((i + j - 1) % n) + 1 \in 1 .. n
        <5>1. i + j - 1 \in Nat
          BY <1>5
        <5>2. PICK r \in Nat : r = (i + j - 1) % n /\ r < n
          BY <2>1, <5>1
        <5> QED
          BY <5>2
      <4> QED
        BY <4>1
    <3> QED
      BY <3>1, <3>2
  <2>3. Turn(fs, i, k) = [j \in 1 .. k |-> fs[((i + j - 1) % n) + 1]]
    BY <1>2 DEF Turn
  <2>4. Turn(fs, i, k) \in Seq(ToSet(fs)) /\ Len(Turn(fs, i, k)) = k
    BY <1>5, <2>2, <2>3
  <2> QED
    BY <2>1, <2>4
<1> QED
  BY <1>2, <1>4, <1>5

LEMMA SaneInjection ==
    ASSUME ScheduleSane, StartInjection
    PROVE  ScheduleSane'
<1>1. PICK fs \in FilterLists :
        /\ Refresh(fs)
        /\ LET i == IF idx >= Len(fs) THEN 0 ELSE idx
               n == BatchSize(Len(fs))
           IN  IF n = 0
               THEN /\ idx' = i
                    /\ timer' = InjectEvery
                    /\ pc' = "pick"
                    /\ UNCHANGED batch
               ELSE /\ idx' = (i + n) % Len(fs)
                    /\ batch' = Turn(fs, i, n)
                    /\ pc' = "batch"
                    /\ UNCHANGED timer
  BY DEF StartInjection
<1>2. idx \in Nat /\ fs \in Seq(Filter) /\ Len(fs) \in Nat
  BY ScheduleAssumption DEF ScheduleSane, ScheduleTypeOK
<1>3. PICK i \in Nat : i = (IF idx >= Len(fs) THEN 0 ELSE idx) /\ (i = 0 \/ i < Len(fs))
  BY <1>2
<1>4. PICK n \in 0 .. 3 : n = BatchSize(Len(fs)) /\ (n = 0 <=> Len(fs) = 0)
  BY <1>3, BatchIs
<1>5. filters' = fs
  BY <1>1 DEF Refresh
<1>6. batch = <<>> /\ pc = "inject"
  BY DEF StartInjection, ScheduleSane, ScheduleTypeOK
<1>7. UNCHANGED <<next, since, activity>>
  BY DEF StartInjection
<1>8. CASE n = 0
  <2>1. idx' = i /\ timer' = InjectEvery /\ pc' = "pick" /\ batch' = batch
    BY <1>1, <1>3, <1>4, <1>8
  <2>2. batch' = <<>> /\ Len(batch') = 0 /\ batch' \in Seq(ToSet(fs))
    BY <1>6, <2>1
  <2>3. timer' \in 0 .. InjectEvery
    BY <2>1, ScheduleAssumption
  <2> QED
    BY <1>3, <1>5, <1>7, <2>1, <2>2, <2>3 DEF ScheduleSane, ScheduleTypeOK
<1>9. CASE n # 0
  <2>1. idx' = (i + n) % Len(fs) /\ batch' = Turn(fs, i, n) /\ pc' = "batch" /\ timer' = timer
    BY <1>1, <1>3, <1>4, <1>9
  <2>2. n \in 1 .. 3 /\ Len(fs) # 0
    BY <1>4, <1>9
  <2>3. /\ batch' \in Seq(ToSet(fs)) /\ Len(batch') = n
        /\ idx' \in Nat /\ idx' < Len(fs)
    BY <1>3, <2>1, <2>2, BatchIs
  <2>4. batch' # <<>> /\ Len(batch') <= 3
    BY <2>2, <2>3
  <2> QED
    BY <1>5, <1>7, <2>1, <2>3, <2>4 DEF ScheduleSane, ScheduleTypeOK
<1> QED
  BY <1>8, <1>9

LEMMA BatchShrinks ==
    ASSUME ScheduleSane, pc = "batch"
    PROVE  /\ Len(batch) \in 1 .. 3
           /\ Tail(batch) \in Seq(ToSet(filters)) /\ Len(Tail(batch)) = Len(batch) - 1
           /\ Tail(batch) = <<>> <=> Len(batch) = 1
<1>1. batch \in Seq(ToSet(filters)) /\ batch # <<>> /\ Len(batch) <= 3
  BY DEF ScheduleSane, ScheduleTypeOK
<1>2. Len(batch) \in 1 .. 3
  <2>1. Len(batch) \in Nat \ {0} /\ Len(batch) <= 3
    BY <1>1, EmptySeq, Zenon
  <2>2. \A n \in Nat \ {0} : n <= 3 => n \in 1 .. 3
    OBVIOUS
  <2> QED
    BY <2>1, <2>2, Zenon
<1>3. Tail(batch) \in Seq(ToSet(filters)) /\ Len(Tail(batch)) = Len(batch) - 1
  BY <1>1
<1> QED
  BY <1>2, <1>3

LEMMA SaneFilter ==
    ASSUME ScheduleSane, NEW d \in Took, FilterOk(d) \/ FilterFails(d)
    PROVE  ScheduleSane'
<1>1. d \in Nat /\ pc = "batch"
  BY LongestIs DEF FilterOk, FilterFails
<1>2. next' = Nearer(d) /\ since' = Older(d)
      /\ UNCHANGED <<activity, filters, idx>>
  BY DEF FilterOk, FilterFails
<1>3. \A t \in Target : since'[t] = Never => activity'[t] = Never
  BY <1>1, <1>2, Passes DEF ScheduleSane
<1>4. /\ batch' \in Seq(ToSet(filters)) /\ Len(batch') <= 3
      /\ pc' \in {"pick", "batch"} /\ (pc' = "batch" <=> batch' # <<>>)
      /\ timer' \in 0 .. InjectEvery
  <2>1. timer \in 0 .. InjectEvery /\ InjectEvery \in 0 .. InjectEvery
    BY ScheduleAssumption DEF ScheduleSane, ScheduleTypeOK
  <2>2. CASE FilterOk(d)
    BY <1>1, <2>1, <2>2, BatchShrinks DEF FilterOk
  <2>3. CASE FilterFails(d)
    <3>1. batch' = <<>> /\ pc' = "pick" /\ timer' = timer
      BY <2>3 DEF FilterFails
    <3> QED
      BY <2>1, <3>1
  <2> QED
    BY <2>2, <2>3
<1> QED
  BY <1>1, <1>2, <1>3, <1>4, Clocks DEF ScheduleSane, ScheduleTypeOK

LEMMA SaneStep ==
    ASSUME ScheduleSane, [ScheduleNext]_svars
    PROVE  ScheduleSane'
<1>1. CASE TooEarly
  BY <1>1 DEF TooEarly, ScheduleSane, ScheduleTypeOK
<1>2. CASE UNCHANGED svars
  BY <1>2 DEF svars, ScheduleSane, ScheduleTypeOK
<1> QED
  BY <1>1, <1>2, SaneWait, SaneTarget, SaneLost, SaneInjection, SaneFilter
  DEF ScheduleNext, FilterStep

(* The plan of BrandWorker keeps its types: a time for each target, an age, a signal, *)
(* an index that stays in the lists of filters.                                       *)
THEOREM ScheduleTypeAlways == ScheduleSpec => []ScheduleTypeOK
<1>1. ScheduleSpec => []ScheduleSane
  BY SaneStart, SaneStep, PTL DEF ScheduleSpec
<1>2. ScheduleSane => ScheduleTypeOK
  BY DEF ScheduleSane
<1> QED
  BY <1>1, <1>2, PTL

(* When nothing is due, _seconds_until_next_task wakes the worker before any target is *)
(* late or has waited longer than the maximum revisit time.                            *)
THEOREM NoOversleepAlways == ScheduleSpec => NoOversleep
<1>1. ScheduleSpec => []ScheduleSane
  BY SaneStart, SaneStep, PTL DEF ScheduleSpec
<1>2. ASSUME ScheduleSane, NothingDue
      PROVE  \A t \in Target : /\ next'[t] >= 0
                               /\ since'[t] # Never => since'[t] <= MaxRevisit
  BY <1>2, NoOversleepStep
<1> QED
  BY <1>1, <1>2, PTL DEF NoOversleep, ScheduleSpec

-----------------------------------------------------------------------------
(* Every step keeps the ceiling. *)

Untroubled == MaxRevisit + Round < MaxAge /\ failing = {}

\* Kept in the next state, for a target whose age becomes a, with n younger than it and
\* p scrapes since the last one of a target.
Within(a, n, p) == a <= Limit(n) + p * Longest

LEMMA KeptNext ==
    ASSUME NEW t \in Target, NEW n \in Nat, n = Cardinality(Younger(t)'),
           NEW p \in 0 .. 3, p = Passed',
           since'[t] # Never => Within(since'[t], n, p)
    PROVE  Kept(t)'
  BY DEF Kept, Within, Limit

LEMMA YoungerNext ==
    ASSUME NEW t \in Target
    PROVE  /\ IsFiniteSet(Younger(t)')
           /\ Cardinality(Younger(t)') \in Nat
<1>1. Younger(t)' \in SUBSET Target
  BY DEF Younger
<1>2. IsFiniteSet(Younger(t)')
  BY <1>1, ScheduleAssumption, FS_Subset
<1> QED
  BY <1>2, FS_CardinalityType

LEMMA PassedIs ==
    ASSUME ScheduleSane
    PROVE  /\ Passed \in 0 .. 3
           /\ pc = "inject" => Passed = 0
           /\ pc = "pick" => Passed = 3
           /\ pc = "batch" => Passed = 3 - Len(batch) /\ Len(batch) \in 1 .. 3
<1>1. pc \in {"pick", "inject", "batch"}
  BY DEF ScheduleSane, ScheduleTypeOK
<1>2. pc = "batch" => Len(batch) \in 1 .. 3
  BY BatchShrinks
<1> QED
  BY <1>1, <1>2 DEF Passed

LEMMA PassedNext ==
    ASSUME ScheduleSane'
    PROVE  /\ Passed' \in 0 .. 3
           /\ pc' = "inject" => Passed' = 0
           /\ pc' = "pick" => Passed' = 3
           /\ pc' = "batch" => Passed' = 3 - Len(batch')
<1>1. pc' \in {"pick", "inject", "batch"}
  BY DEF ScheduleSane, ScheduleTypeOK
<1>2. ASSUME pc' = "batch"
      PROVE  3 - Len(batch') \in 0 .. 3
  <2>1. batch' \in Seq(ToSet(filters')) /\ Len(batch') <= 3
    BY DEF ScheduleSane, ScheduleTypeOK
  <2>2. Len(batch') \in Nat
    BY <2>1
  <2>3. \A n \in Nat : n <= 3 => 3 - n \in 0 .. 3
    OBVIOUS
  <2> QED
    BY <2>1, <2>2, <2>3
<1> QED
  BY <1>1, <1>2 DEF Passed

(* There is room for one more scrape below the ceiling and a round. *)
LEMMA Room ==
    ASSUME ScheduleSane, NEW t \in Target, Kept(t), since[t] # Never
    PROVE  since[t] \in Nat /\ since[t] + Longest <= MaxRevisit + Round
<1>1. since[t] \in Nat
  BY Ages
<1>2. PICK n \in Nat : n = Cardinality(Younger(t)) /\ n < Cardinality(Target)
  BY YoungerIs
<1>3. PICK all \in Nat : all = Cardinality(Target) /\ n < all
  BY <1>2, ScheduleAssumption, FS_CardinalityType
<1>4. PICK p \in 0 .. 3 : p = Passed
  BY PassedIs
<1>5. PICK k \in Nat : k = Longest
  BY LongestIs
<1>6. since[t] <= Limit(n) + p * k
  BY <1>2, <1>4, <1>5 DEF Kept
<1>7. p * k <= 3 * k /\ p * k \in Nat
  BY <1>4, <1>5
<1>8. Limit(n) + 4 * k <= Limit(all) /\ Limit(n) \in Nat /\ Limit(all) \in Nat
  BY <1>3, <1>5, LimitGrows
<1>9. Limit(all) = MaxRevisit + Round
  <2>1. 4 * k * all = all * 4 * k /\ MaxRevisit \in Nat
    BY <1>3, <1>5, ScheduleAssumption
  <2> QED
    BY <1>3, <1>5, <2>1 DEF Limit, Round, Longest
<1> QED
  BY <1>1, <1>5, <1>6, <1>7, <1>8, <1>9

(* What is younger stays so, and what was scraped just now is. *)
LEMMA YoungerStays ==
    ASSUME ScheduleSane, NEW t \in Target, since[t] # Never,
           NEW d \in Nat \ {0}, since[t] + d <= MaxAge, since'[t] = Older(d)[t],
           \A u \in Target : since'[u] = Older(d)[u] \/ since'[u] = 0
    PROVE  /\ since'[t] = since[t] + d
           /\ Younger(t) \subseteq Younger(t)'
           /\ \A u \in Target : since'[u] = 0 => u \in Younger(t)'
<1>1. MaxAge \in Nat /\ Never \notin 0 .. MaxAge
  BY ScheduleAssumption
<1>2. since'[t] = since[t] + d /\ since[t] \in Nat /\ since'[t] # Never
  BY <1>1, Passes, Ages
<1>3. Age(t)' = since[t] + d
  BY <1>2 DEF Age
<1>4. ASSUME NEW u \in Target, since'[u] = 0
      PROVE  u \in Younger(t)'
  <2>1. Age(u)' = 0
    BY <1>1, <1>4 DEF Age
  <2> QED
    BY <1>2, <1>3, <2>1 DEF Younger
<1>5. ASSUME NEW u \in Younger(t), since'[u] = Older(d)[u]
      PROVE  u \in Younger(t)'
  <2>1. u \in Target /\ Age(u) < Age(t) /\ Age(t) = since[t]
    BY Ages DEF Younger
  <2>2. since[u] # Never /\ since[u] \in Nat /\ since[u] < since[t]
    BY <1>1, <1>2, <2>1, Ages
  <2>3. since'[u] = since[u] + d
    BY <1>1, <1>2, <1>5, <2>1, <2>2, Passes
  <2>4. since'[u] # Never
    BY <1>1, <1>2, <2>2, <2>3
  <2>5. Age(u)' = since[u] + d
    BY <2>3, <2>4 DEF Age
  <2> QED
    BY <1>2, <1>3, <2>1, <2>2, <2>5 DEF Younger
<1>6. Younger(t) \subseteq Target
  BY DEF Younger
<1> QED
  BY <1>2, <1>4, <1>5, <1>6

LEMMA KeptScraped ==
    ASSUME ScheduleSane, ScheduleSane', Untroubled, \A u \in Target : Kept(u),
           NEW p \in Target, NEW s \in Signal, NEW d \in Took, TargetOk(p, s, d),
           NEW t \in Target
    PROVE  Kept(t)'
<1>1. PICK k \in Nat \ {0} : k = Longest
  BY LongestIs
<1>2. d \in Nat \ {0} /\ d <= k
  BY <1>1, LongestIs
<1>3. /\ since' = [Older(d) EXCEPT ![p] = 0]
      /\ Older(d) \in [Target -> (0 .. MaxAge) \cup {Never}]
      /\ pc = "pick" /\ pc' = "inject" /\ p \in Picks
  BY <1>2, Clocks DEF TargetOk
<1>4. since'[p] = 0 /\ \A u \in Target \ {p} : since'[u] = Older(d)[u]
  BY <1>3
<1>5. Passed = 3 /\ Passed' = 0
  BY <1>3, PassedIs, PassedNext
<1>6. PICK n \in Nat : n = Cardinality(Younger(t)') /\ IsFiniteSet(Younger(t)')
  BY YoungerNext
<1>7. PICK m \in Nat : m = Cardinality(Younger(t)) /\ IsFiniteSet(Younger(t))
  BY YoungerIs
<1>8. Limit(n) \in Nat /\ Limit(n) >= MaxRevisit /\ Limit(m) \in Nat /\ MaxRevisit \in Nat \ {0}
  BY LimitGrows, ScheduleAssumption
<1>9. ASSUME since'[t] # Never
      PROVE  since'[t] <= Limit(n)
  <2>1. CASE t = p
    BY <1>4, <1>8, <2>1
  <2>2. CASE t # p
    <3>1. since[t] # Never
      BY <1>2, <1>4, <1>9, <2>2, Passes
    <3>2. since[t] \in Nat /\ since[t] + k <= MaxRevisit + Round
      BY <1>1, <3>1, Room
    <3>3. MaxRevisit + Round < MaxAge /\ MaxAge \in Nat
      BY ScheduleAssumption DEF Untroubled
    <3>4. since[t] + d <= MaxAge
      <4>1. PICK r \in Int : r = MaxRevisit + Round
        <5>1. Cardinality(Target) \in Nat
          BY ScheduleAssumption, FS_CardinalityType
        <5>2. Round \in Nat
          BY <1>1, <5>1 DEF Round, Longest
        <5> QED
          BY <1>8, <5>2
      <4> QED
        BY <1>1, <1>2, <3>2, <3>3, <4>1
    <3>5. /\ since'[t] = since[t] + d
          /\ Younger(t) \subseteq Younger(t)' /\ p \in Younger(t)'
      BY <1>2, <1>4, <2>2, <3>1, <3>4, YoungerStays
    <3>6. CASE t \in Starving
      <4>1. p \in MostStarved
        BY <1>3, <3>6 DEF Picks
      <4>2. Age(p) >= Age(t) /\ Age(p) \in Nat /\ Age(t) \in Nat
        BY <2>2, <3>6, <4>1, Ages DEF MostStarved
      <4>3. p \notin Younger(t)
        BY <4>2 DEF Younger
      <4>4. Cardinality(Younger(t) \cup {p}) = m + 1 /\ IsFiniteSet(Younger(t) \cup {p})
        BY <1>7, <4>3, FS_AddElement
      <4>5. Younger(t) \cup {p} \subseteq Younger(t)'
        BY <3>5
      <4>6. m < n
        BY <1>6, <1>7, <4>4, <4>5, FS_Subset
      <4>7. Limit(m) + 4 * k <= Limit(n)
        BY <1>1, <4>6, LimitGrows
      <4>8. since[t] <= Limit(m) + 3 * k
        BY <1>1, <1>5, <1>7, <3>1 DEF Kept
      <4> QED
        BY <1>1, <1>2, <1>8, <3>2, <3>5, <4>7, <4>8
    <3>7. CASE t \notin Starving
      <4>1. since[t] < MaxRevisit
        BY <1>8, <3>1, <3>2, <3>7 DEF Starving
      <4>2. n # 0
        BY <1>6, <3>5, FS_EmptySet
      <4>3. Limit(0) + 4 * k <= Limit(n) /\ Limit(0) >= MaxRevisit /\ Limit(0) \in Nat
        BY <1>1, <4>2, LimitGrows
      <4> QED
        BY <1>1, <1>2, <1>8, <3>2, <3>5, <4>1, <4>3
    <3> QED
      BY <3>6, <3>7
  <2> QED
    BY <2>1, <2>2
<1>10. ASSUME since'[t] # Never
       PROVE  Within(since'[t], n, 0)
  BY <1>8, <1>9, <1>10, Multiples DEF Within
<1> QED
  BY <1>5, <1>6, <1>10, KeptNext

(* Nothing was scraped: the targets only grow older, and those that are scraped stay *)
(* below the ceiling or are let off for one scrape of a filter.                      *)
LEMMA KeptFilter ==
    ASSUME ScheduleSane, ScheduleSane', Untroubled, \A u \in Target : Kept(u),
           NEW d \in Took, FilterOk(d), NEW t \in Target
    PROVE  Kept(t)'
<1>0. ScheduleSane'
  OBVIOUS
<1>1. PICK k \in Nat \ {0} : k = Longest
  BY LongestIs
<1>2. d \in Nat \ {0} /\ d <= k
  BY <1>1, LongestIs
<1>3. since' = Older(d) /\ pc = "batch"
  BY DEF FilterOk
<1>4. PICK p \in 0 .. 2 : Passed = p /\ Passed' = p + 1
  <2>1. Passed = 3 - Len(batch) /\ Len(batch) \in 1 .. 3
    BY <1>3, PassedIs
  <2>2. CASE Len(batch) = 1
    BY <2>1, <2>2, PassedNext DEF FilterOk
  <2>3. CASE Len(batch) # 1
    <3>1. pc' = pc /\ batch' = Tail(batch)
      BY <2>3 DEF FilterOk
    <3>2. Len(Tail(batch)) = Len(batch) - 1
      BY <1>3, BatchShrinks
    <3>3. pc' = "batch" /\ Len(batch') = Len(batch) - 1
      BY <1>3, <3>1, <3>2
    <3>4. PICK n \in 1 .. 3 : n = Len(batch) /\ n # 1 /\ Passed = 3 - n
      BY <2>1, <2>3
    <3>5. Passed' = 3 - (n - 1)
      <4>1. Passed' = 3 - Len(batch')
        BY <1>0, <3>3, PassedNext
      <4> QED
        BY <3>3, <3>4, <4>1, Zenon
    <3>6. 3 - n \in 0 .. 1 /\ 3 - (n - 1) = (3 - n) + 1
      BY <3>4
    <3>7. 3 - n \in 0 .. 2 /\ Passed = 3 - n /\ Passed' = (3 - n) + 1
      BY <3>4, <3>5, <3>6
    <3> QED
      BY <3>7
  <2> QED
    BY <2>2, <2>3
<1>5. PICK n \in Nat : n = Cardinality(Younger(t)') /\ IsFiniteSet(Younger(t)')
  BY YoungerNext
<1>6. PICK m \in Nat : m = Cardinality(Younger(t)) /\ IsFiniteSet(Younger(t))
  BY YoungerIs
<1>7. ASSUME since'[t] # Never
      PROVE  since'[t] <= Limit(n) + (p + 1) * k
  <2>1. since[t] # Never
    BY <1>2, <1>3, <1>7, Passes
  <2>2. since[t] \in Nat /\ since[t] + k <= MaxRevisit + Round
    BY <1>1, <2>1, Room
  <2>3. since[t] + d <= MaxAge
    <3>1. MaxRevisit + Round < MaxAge /\ MaxAge \in Nat /\ MaxRevisit \in Nat
      BY ScheduleAssumption DEF Untroubled
    <3>2. Cardinality(Target) \in Nat
      BY ScheduleAssumption, FS_CardinalityType
    <3>3. Round \in Nat
      BY <1>1, <3>2 DEF Round, Longest
    <3> QED
      BY <1>1, <1>2, <2>2, <3>1, <3>3
  <2>4. since'[t] = since[t] + d /\ Younger(t) \subseteq Younger(t)'
    BY <1>2, <1>3, <2>1, <2>3, YoungerStays
  <2>5. m <= n
    BY <1>5, <1>6, <2>4, FS_Subset
  <2>6. Limit(m) <= Limit(n) /\ Limit(m) \in Nat /\ Limit(n) \in Nat
    BY <2>5, LimitGrows
  <2>7. since[t] <= Limit(m) + p * k
    BY <1>1, <1>4, <1>6, <2>1 DEF Kept
  <2>8. (p + 1) * k = p * k + k /\ p * k \in Nat
    BY <1>1, <1>4
  <2> QED
    BY <1>1, <1>2, <2>2, <2>4, <2>6, <2>7, <2>8
<1> QED
  <2>1. since'[t] # Never => Within(since'[t], n, p + 1)
    BY <1>1, <1>7 DEF Within
  <2>2. p + 1 \in 0 .. 3 /\ p + 1 = Passed'
    BY <1>4
  <2> QED
    BY <1>5, <2>1, <2>2, KeptNext

LEMMA KeptWaiting ==
    ASSUME ScheduleSane, ScheduleSane', NothingDue, NEW t \in Target
    PROVE  Kept(t)'
<1>1. since'[t] # Never => since'[t] <= MaxRevisit
  BY NoOversleepStep
<1>2. PICK n \in Nat : n = Cardinality(Younger(t)')
  BY YoungerNext
<1>3. PICK p \in 0 .. 3 : p = Passed'
  BY PassedNext
<1>4. Limit(n) \in Nat /\ Limit(n) >= MaxRevisit /\ p * Longest \in Nat
  BY LimitGrows, LongestIs
<1>5. ASSUME since'[t] # Never
      PROVE  Within(since'[t], n, p)
  <2>1. since'[t] \in Nat /\ MaxRevisit \in Nat
    BY <1>5, ScheduleAssumption DEF ScheduleSane, ScheduleTypeOK
  <2> QED
    BY <1>1, <1>4, <1>5, <2>1 DEF Within
<1> QED
  BY <1>2, <1>3, <1>5, KeptNext

(* The injection, or none: no time passes. *)
LEMMA KeptInjecting ==
    ASSUME ScheduleSane, ScheduleSane', \A u \in Target : Kept(u),
           StartInjection \/ TooEarly, NEW t \in Target
    PROVE  Kept(t)'
<1>1. pc = "inject" /\ since' = since
  BY DEF StartInjection, TooEarly
<1>2. PICK n \in Nat : n = Cardinality(Younger(t)') /\ n = Cardinality(Younger(t))
  <2>1. Younger(t)' = Younger(t)
    BY <1>1 DEF Younger, Age
  <2> QED
    BY <2>1, YoungerIs
<1>3. PICK p \in 0 .. 3 : p = Passed'
  BY PassedNext
<1>4. p * Longest \in Nat /\ Limit(n) \in Nat
  BY LongestIs, LimitGrows
<1>5. ASSUME since'[t] # Never
      PROVE  Within(since'[t], n, p)
  <2>1. since[t] \in Nat
    BY <1>1, <1>5, Ages
  <2>2. Passed = 0
    BY <1>1, PassedIs
  <2>3. since[t] <= Limit(n)
    BY <1>1, <1>2, <1>4, <1>5, <2>2, Multiples DEF Kept
  <2> QED
    BY <1>1, <1>4, <2>1, <2>3 DEF Within
<1> QED
  BY <1>2, <1>3, <1>5, KeptNext

LEMMA KeptStep ==
    ASSUME ScheduleInv, [ScheduleNext]_svars
    PROVE  ScheduleInv'
<1>1. ScheduleSane /\ ScheduleSane'
  BY SaneStep DEF ScheduleInv
<1>2. ASSUME Untroubled', NEW t \in Target
      PROVE  Kept(t)'
  <2>1. failing' = failing
    BY DEF ScheduleNext, FilterStep, NothingDue, TargetOk, TargetFails, BrowserLost,
           StartInjection, TooEarly, FilterOk, FilterFails, svars
  <2>2. Untroubled /\ failing = {}
    BY <1>2, <2>1 DEF Untroubled, Round
  <2>3. \A u \in Target : Kept(u)
    BY <2>2 DEF ScheduleInv, Untroubled
  <2>4. CASE NothingDue
    BY <1>1, <2>4, KeptWaiting
  <2>5. ASSUME NEW p \in Target, NEW d \in Took, \E s \in Signal : TargetOk(p, s, d)
        PROVE  Kept(t)'
    BY <1>1, <2>2, <2>3, <2>5, KeptScraped
  <2>6. CASE StartInjection \/ TooEarly
    BY <1>1, <2>3, <2>6, KeptInjecting
  <2>7. ASSUME NEW d \in Took, FilterOk(d)
        PROVE  Kept(t)'
    BY <1>1, <2>2, <2>3, <2>7, KeptFilter
  <2>8. ASSUME NEW d \in Took,
               BrowserLost(d) \/ FilterFails(d) \/ \E p \in Target : TargetFails(p, d)
        PROVE  FALSE
    BY <2>2, <2>8 DEF BrowserLost, FilterFails, TargetFails
  <2>9. CASE UNCHANGED svars
    <3>1. since' = since /\ pc' = pc /\ batch' = batch
      BY <2>9 DEF svars
    <3>2. Younger(t)' = Younger(t) /\ Passed' = Passed
      BY <3>1 DEF Younger, Age, Passed
    <3>3. Kept(t)
      BY <2>3
    <3> QED
      BY <3>1, <3>2, <3>3 DEF Kept, Limit
  <2> QED
    BY <2>4, <2>5, <2>6, <2>7, <2>8, <2>9 DEF ScheduleNext, FilterStep
<1> QED
  BY <1>1, <1>2 DEF ScheduleInv, Untroubled

LEMMA KeptStart ==
    ASSUME ScheduleInit
    PROVE  ScheduleInv
<1>1. \A t \in Target : Kept(t)
  BY DEF ScheduleInit, Kept
<1> QED
  BY <1>1, SaneStart DEF ScheduleInv

(* Where ages are cut off below the bound, there is nothing to show. *)
LEMMA CeilingHolds ==
    ASSUME ScheduleInv
    PROVE  CeilingKept
<1>1. ASSUME failing = {}, NEW t \in Target, since[t] # Never
      PROVE  since[t] <= MaxRevisit + Round
  <2>1. since[t] \in Nat /\ since[t] <= MaxAge /\ MaxAge \in Nat
    BY <1>1, Ages, ScheduleAssumption DEF ScheduleInv
  <2>2. PICK k \in Nat \ {0} : k = Longest
    BY LongestIs
  <2>3. MaxRevisit \in Nat /\ Round \in Nat
    <3>1. Cardinality(Target) \in Nat
      BY ScheduleAssumption, FS_CardinalityType
    <3> QED
      BY <2>2, <3>1, ScheduleAssumption DEF Round, Longest
  <2>4. CASE MaxRevisit + Round < MaxAge
    <3>1. Kept(t)
      BY <1>1, <2>4 DEF ScheduleInv
    <3>2. since[t] + k <= MaxRevisit + Round
      BY <1>1, <2>2, <3>1, Room DEF ScheduleInv
    <3> QED
      BY <2>1, <2>2, <2>3, <3>2
  <2>5. CASE ~(MaxRevisit + Round < MaxAge)
    BY <2>1, <2>3, <2>5
  <2> QED
    BY <2>4, <2>5
<1> QED
  BY <1>1 DEF CeilingKept, HardCeiling

(* A target that was scraped once, in a run without failures, is scraped again within *)
(* the maximum revisit time and one round of all the targets with their filters: the  *)
(* hard ceiling of _pick_next_starving_target, for any number of targets and filters. *)
THEOREM CeilingAlways == ScheduleSpec => []CeilingKept
  BY KeptStart, KeptStep, CeilingHolds, PTL DEF ScheduleSpec

-----------------------------------------------------------------------------
(* The browser object. *)

(* Queues of commands. *)

Item == [op : {"start", "warm", "search", "close", "quit"}, live : BOOLEAN]

Queues == {Q \in Seq(Seq(Item)) : Q # <<>>}

\* Nobody waits for any command, or for the last one at most.
NoneLive(Q) == \A q \in DOMAIN Q : \A i \in DOMAIN Q[q] : Q[q][i].live = FALSE
LastLive(Q) ==
    \A q \in DOMAIN Q : \A i \in DOMAIN Q[q] :
        Q[q][i].live = TRUE => q = Len(Q) /\ i = Len(Q[q])

\* What the current queue holds is waited for, or tells a thread to quit.
Served(Q) ==
    \A i \in DOMAIN Q[Len(Q)] : Q[Len(Q)][i].live = TRUE \/ Q[Len(Q)][i].op = "quit"

\* The steps of the queues.
Pushed(Q, c) == [Q EXCEPT ![Len(Q)] = Append(@, c)]
Popped(Q, q) == [Q EXCEPT ![q] = Tail(@)]
Parted(Q, c, e) == [Q EXCEPT ![Len(Q)] = Append(Append(@, c), e)]
Deafened(Q) == [q \in DOMAIN Q |-> [i \in DOMAIN Q[q] |-> Deaf(Q[q][i])]]

LEMMA QueueIs ==
    ASSUME NEW Q \in Queues
    PROVE  /\ Len(Q) \in Nat \ {0} /\ DOMAIN Q = 1 .. Len(Q) /\ Len(Q) \in DOMAIN Q
           /\ \A q \in DOMAIN Q : /\ Q[q] \in Seq(Item) /\ Len(Q[q]) \in Nat
                                  /\ DOMAIN Q[q] = 1 .. Len(Q[q])
                                  /\ \A i \in DOMAIN Q[q] : Q[q][i] \in Item
<1>1. Q \in Seq(Seq(Item)) /\ Q # <<>>
  BY DEF Queues
<1>2. Len(Q) \in Nat \ {0} /\ DOMAIN Q = 1 .. Len(Q)
  BY <1>1, EmptySeq, LenProperties
<1>3. ASSUME NEW q \in DOMAIN Q
      PROVE  /\ Q[q] \in Seq(Item) /\ Len(Q[q]) \in Nat
             /\ DOMAIN Q[q] = 1 .. Len(Q[q])
             /\ \A i \in DOMAIN Q[q] : Q[q][i] \in Item
  <2>1. Q[q] \in Seq(Item)
    BY <1>1, <1>2, <1>3, ElementOfSeq
  <2>2. Len(Q[q]) \in Nat /\ DOMAIN Q[q] = 1 .. Len(Q[q])
    BY <2>1, LenProperties
  <2>3. \A i \in 1 .. Len(Q[q]) : Q[q][i] \in Item
    BY <2>1, ElementOfSeq
  <2> QED
    BY <2>1, <2>2, <2>3
<1>4. Len(Q) \in DOMAIN Q
  BY <1>2
<1> QED
  BY <1>2, <1>3, <1>4

(* One of the queues is replaced. *)
LEMMA QueueReplaced ==
    ASSUME NEW Q \in Queues, NEW q \in DOMAIN Q, NEW s \in Seq(Item)
    PROVE  [Q EXCEPT ![q] = s] \in Queues /\ Len([Q EXCEPT ![q] = s]) = Len(Q)
<1>1. Q \in Seq(Seq(Item)) /\ q \in 1 .. Len(Q)
  BY QueueIs DEF Queues
<1>2. [Q EXCEPT ![q] = s] \in Seq(Seq(Item)) /\ Len([Q EXCEPT ![q] = s]) = Len(Q)
  BY <1>1, ExceptSeq
<1>3. [Q EXCEPT ![q] = s] # <<>>
  BY <1>2, QueueIs, EmptySeq
<1> QED
  BY <1>2, <1>3 DEF Queues

LEMMA PutIs ==
    ASSUME NEW Q \in Queues, NEW c \in Item, NEW R, R = Pushed(Q, c)
    PROVE  /\ R \in Queues /\ Len(R) = Len(Q) /\ DOMAIN R = DOMAIN Q
           /\ R[Len(R)] # <<>>
           /\ NoneLive(Q) /\ c.live = FALSE => NoneLive(R)
           /\ NoneLive(Q) => LastLive(R)
           /\ Served(Q) /\ (c.live = TRUE \/ c.op = "quit") => Served(R)
<1>1. PICK m \in Nat \ {0} : m = Len(Q) /\ m \in DOMAIN Q
  BY QueueIs
<1>2. PICK s \in Seq(Item) : s = Append(Q[m], c)
  BY <1>1, QueueIs, AppendProperties
<1>3. PICK n \in Nat : n = Len(Q[m]) /\ DOMAIN Q[m] = 1 .. n
  BY <1>1, QueueIs
<1>4. /\ s # <<>> /\ Len(s) = n + 1 /\ DOMAIN s = 1 .. n + 1
      /\ s[n + 1] = c /\ \A i \in 1 .. n : s[i] = Q[m][i]
  BY <1>1, <1>2, <1>3, QueueIs, AppendProperties, LenProperties
<1>5. R = [Q EXCEPT ![m] = s]
  BY <1>1, <1>2 DEF Pushed
<1>6. /\ R \in Queues /\ Len(R) = m /\ DOMAIN R = DOMAIN Q
      /\ R[m] = s /\ \A p \in DOMAIN Q \ {m} : R[p] = Q[p]
  <2>1. m \in DOMAIN Q /\ m = Len(Q)
    BY <1>1
  <2>2. s \in Seq(Item)
    BY <1>2
  <2>3. [Q EXCEPT ![m] = s] \in Queues /\ Len([Q EXCEPT ![m] = s]) = Len(Q)
    BY <2>1, <2>2, QueueReplaced
  <2>4. R \in Queues /\ Len(R) = m
    BY <1>5, <2>1, <2>3, Zenon
  <2>5. DOMAIN R = DOMAIN Q /\ R[m] = s /\ \A p \in DOMAIN Q \ {m} : R[p] = Q[p]
    BY <1>5, <2>1
  <2> QED
    BY <2>4, <2>5
<1>7. ASSUME NoneLive(Q), NEW q \in DOMAIN R, NEW i \in DOMAIN R[q]
      PROVE  R[q][i].live = FALSE \/ (q = m /\ i = n + 1 /\ R[q][i] = c)
  <2>1. CASE q = m
    <3>1. i \in 1 .. n \/ i = n + 1
      BY <1>3, <1>4, <1>6, <1>7, <2>1
    <3> QED
      BY <1>1, <1>3, <1>4, <1>6, <1>7, <2>1, <3>1 DEF NoneLive
  <2>2. CASE q # m
    BY <1>6, <1>7, <2>2 DEF NoneLive
  <2> QED
    BY <2>1, <2>2
<1>8. NoneLive(Q) /\ c.live = FALSE => NoneLive(R)
  BY <1>7 DEF NoneLive
<1>9. ASSUME NoneLive(Q), NEW q \in DOMAIN R, NEW i \in DOMAIN R[q], R[q][i].live = TRUE
      PROVE  q = Len(R) /\ i = Len(R[q])
  <2>1. q = m /\ i = n + 1
    BY <1>7, <1>9
  <2> QED
    BY <1>4, <1>6, <2>1
<1>10. ASSUME Served(Q), c.live = TRUE \/ c.op = "quit", NEW i \in DOMAIN s
       PROVE  s[i].live = TRUE \/ s[i].op = "quit"
  <2>1. i \in 1 .. n \/ i = n + 1
    BY <1>4, <1>10
  <2> QED
    BY <1>1, <1>3, <1>4, <1>10, <2>1 DEF Served
<1>11. Served(Q) /\ (c.live = TRUE \/ c.op = "quit") => Served(R)
  BY <1>6, <1>10 DEF Served
<1> QED
  <2>1. NoneLive(Q) => LastLive(R)
    BY <1>9 DEF LastLive
  <2> QED
    BY <1>1, <1>4, <1>6, <1>8, <1>11, <2>1

LEMMA NewIs ==
    ASSUME NEW Q \in Queues, NEW R, R = Append(Q, <<>>)
    PROVE  /\ R \in Queues /\ DOMAIN Q \subseteq DOMAIN R
           /\ R[Len(R)] = <<>> /\ Served(R)
           /\ NoneLive(Q) => NoneLive(R)
<1>1. PICK m \in Nat \ {0} : m = Len(Q) /\ DOMAIN Q = 1 .. m
  BY QueueIs
<1>2. <<>> \in Seq(Item)
  BY EmptySeq
<1>3. /\ R \in Seq(Seq(Item)) /\ R # <<>> /\ Len(R) = m + 1
      /\ R[m + 1] = <<>> /\ \A q \in 1 .. m : R[q] = Q[q]
  BY <1>1, <1>2, AppendProperties DEF Queues
<1>4. DOMAIN R = 1 .. m + 1
  BY <1>3, LenProperties
<1>5. R \in Queues
  BY <1>3 DEF Queues
<1>6. Served(R)
  BY <1>3 DEF Served
<1>7. ASSUME NoneLive(Q), NEW q \in DOMAIN R, NEW i \in DOMAIN R[q]
      PROVE  R[q][i].live = FALSE
  <2>1. q \in 1 .. m \/ q = m + 1
    BY <1>4
  <2> QED
    BY <1>1, <1>3, <1>7, <2>1 DEF NoneLive
<1> QED
  BY <1>1, <1>3, <1>4, <1>5, <1>6, <1>7 DEF NoneLive

LEMMA TakenIs ==
    ASSUME NEW Q \in Queues, NEW q \in DOMAIN Q, Q[q] # <<>>, NEW R, R = Popped(Q, q)
    PROVE  /\ R \in Queues /\ Len(R) = Len(Q) /\ DOMAIN R = DOMAIN Q
           /\ Head(Q[q]) \in Item
           /\ NoneLive(Q) => NoneLive(R) /\ Head(Q[q]).live = FALSE
           /\ LastLive(Q) => LastLive(R) /\ (Head(Q[q]).live = TRUE => NoneLive(R))
           /\ Served(Q) => Served(R)
           /\ Served(Q) /\ q = Len(Q) => Head(Q[q]).live = TRUE \/ Head(Q[q]).op = "quit"
           /\ q # Len(Q) => R[Len(R)] = Q[Len(Q)]
<1>1. PICK m \in Nat \ {0} : m = Len(Q) /\ m \in DOMAIN Q
  BY QueueIs
<1>2. PICK n \in Nat \ {0} : n = Len(Q[q]) /\ DOMAIN Q[q] = 1 .. n /\ Q[q] \in Seq(Item)
  BY QueueIs, EmptySeq
<1>3. PICK s \in Seq(Item) : s = Tail(Q[q])
  BY <1>2, HeadTailProperties
<1>4. Len(s) = n - 1 /\ DOMAIN s = 1 .. n - 1 /\ \A i \in 1 .. n - 1 : s[i] = Q[q][i + 1]
  BY <1>2, <1>3, HeadTailProperties, LenProperties
<1>5. R = [Q EXCEPT ![q] = s]
  BY <1>3 DEF Popped
<1>6. /\ R \in Queues /\ Len(R) = m /\ DOMAIN R = DOMAIN Q
      /\ R[q] = s /\ \A p \in DOMAIN Q \ {q} : R[p] = Q[p]
  <2>1. [Q EXCEPT ![q] = s] \in Queues /\ Len([Q EXCEPT ![q] = s]) = Len(Q)
    BY <1>3, QueueReplaced
  <2>2. R \in Queues /\ Len(R) = m
    BY <1>1, <1>5, <2>1, Zenon
  <2>3. DOMAIN R = DOMAIN Q /\ R[q] = s /\ \A p \in DOMAIN Q \ {q} : R[p] = Q[p]
    BY <1>5
  <2> QED
    BY <2>2, <2>3
<1>7. PICK h \in Item : h = Head(Q[q]) /\ h = Q[q][1] /\ 1 \in DOMAIN Q[q]
  BY <1>2, QueueIs
\* Each command of R was one of Q, one place further on at most.
<1>8. ASSUME NEW p \in DOMAIN R, NEW i \in DOMAIN R[p]
      PROVE  \/ p # q /\ i \in DOMAIN Q[p] /\ R[p] = Q[p]
             \/ p = q /\ i + 1 \in DOMAIN Q[q] /\ R[p][i] = Q[q][i + 1] /\ i \in 1 .. n - 1
  BY <1>2, <1>4, <1>6, <1>8
<1>9. NoneLive(Q) => NoneLive(R) /\ h.live = FALSE
  BY <1>6, <1>7, <1>8 DEF NoneLive
<1>10. ASSUME LastLive(Q), NEW p \in DOMAIN R, NEW i \in DOMAIN R[p], R[p][i].live = TRUE
       PROVE  p = Len(R) /\ i = Len(R[p]) /\ (p = q => n # 1) /\ p = m
  <2>1. CASE p # q
    BY <1>1, <1>6, <1>8, <1>10, <2>1 DEF LastLive
  <2>2. CASE p = q
    <3>1. i + 1 \in DOMAIN Q[q] /\ Q[q][i + 1].live = TRUE /\ i \in 1 .. n - 1
      BY <1>8, <1>10, <2>2
    <3>2. q = Len(Q) /\ i + 1 = n
      BY <1>2, <1>10, <3>1 DEF LastLive
    <3> QED
      BY <1>1, <1>2, <1>4, <1>6, <2>2, <3>1, <3>2
  <2> QED
    BY <2>1, <2>2
<1>11. LastLive(Q) => LastLive(R)
  BY <1>10 DEF LastLive
<1>12. ASSUME LastLive(Q), h.live = TRUE
       PROVE  NoneLive(R)
  <2>1. q = m /\ n = 1
    BY <1>1, <1>2, <1>7, <1>12 DEF LastLive
  <2>2. \A p \in DOMAIN R : \A i \in DOMAIN R[p] : R[p][i].live # TRUE
    BY <1>10, <1>12, <2>1
  <2>3. \A p \in DOMAIN R : \A i \in DOMAIN R[p] : R[p][i].live \in BOOLEAN
    <3>1. \A p \in DOMAIN R : \A i \in DOMAIN R[p] : R[p][i] \in Item
      BY <1>6, QueueIs
    <3> QED
      BY <3>1 DEF Item
  <2> QED
    BY <2>2, <2>3 DEF NoneLive
<1>13. ASSUME Served(Q), NEW i \in DOMAIN R[m]
       PROVE  R[m][i].live = TRUE \/ R[m][i].op = "quit"
  BY <1>1, <1>6, <1>8, <1>13 DEF Served
<1>14. Served(Q) => Served(R)
  BY <1>6, <1>13 DEF Served
<1>15. Served(Q) /\ q = Len(Q) => h.live = TRUE \/ h.op = "quit"
  BY <1>7 DEF Served
<1>16. q # m => R[m] = Q[m]
  BY <1>1, <1>6
<1> QED
  BY <1>1, <1>6, <1>7, <1>9, <1>11, <1>12, <1>14, <1>15, <1>16

LEMMA DeafIs ==
    ASSUME NEW Q \in Queues, NEW R, R = Deafened(Q)
    PROVE  R \in Queues /\ Len(R) = Len(Q) /\ DOMAIN R = DOMAIN Q /\ NoneLive(R)
<1>1. PICK m \in Nat \ {0} : m = Len(Q) /\ DOMAIN Q = 1 .. m
  BY QueueIs
<1>2. ASSUME NEW q \in 1 .. m
      PROVE  R[q] \in Seq(Item) /\ \A i \in DOMAIN R[q] : R[q][i].live = FALSE
  <2>1. PICK n \in Nat : n = Len(Q[q]) /\ DOMAIN Q[q] = 1 .. n
                          /\ \A i \in 1 .. n : Q[q][i] \in Item
    BY <1>1, <1>2, QueueIs
  <2>2. \A c \in Item : Deaf(c) \in Item /\ Deaf(c).live = FALSE
    BY DEF Item, Deaf
  <2>3. R[q] = [i \in 1 .. n |-> Deaf(Q[q][i])]
    BY <1>1, <1>2, <2>1 DEF Deafened
  <2>4. R[q] \in [1 .. n -> Item] /\ \A i \in 1 .. n : R[q][i].live = FALSE
    BY <2>1, <2>2, <2>3
  <2>5. R[q] \in Seq(Item)
    BY <2>1, <2>4, SeqDef
  <2> QED
    BY <2>3, <2>4, <2>5
<1>3. R \in [1 .. m -> Seq(Item)]
  BY <1>1, <1>2 DEF Deafened
<1>4. R \in Seq(Seq(Item))
  BY <1>3, SeqDef
<1>5. Len(R) = m /\ R # <<>>
  BY <1>1, <1>3, <1>4, LenProperties, EmptySeq
<1> QED
  BY <1>1, <1>2, <1>3, <1>4, <1>5 DEF Queues, NoneLive

LEMMA PartingIs ==
    ASSUME NEW Q \in Queues, NEW c \in Item, NEW e \in Item, NEW R, R = Parted(Q, c, e),
           c.live = FALSE, e.live = FALSE, NoneLive(Q)
    PROVE  R \in Queues /\ DOMAIN R = DOMAIN Q /\ NoneLive(R)
<1>1. PICK m \in Nat \ {0} : m = Len(Q) /\ m \in DOMAIN Q
  BY QueueIs
<1>2. PICK P \in Queues : P = Pushed(Q, c) /\ Len(P) = Len(Q) /\ DOMAIN P = DOMAIN Q /\ NoneLive(P)
  BY PutIs
<1>3. P = [Q EXCEPT ![m] = Append(Q[m], c)]
  BY <1>1, <1>2 DEF Pushed
<1>4. PICK S \in Queues : S = Pushed(P, e) /\ DOMAIN S = DOMAIN P /\ NoneLive(S)
  BY <1>2, PutIs
<1>5. S = [P EXCEPT ![m] = Append(P[m], e)]
  BY <1>1, <1>2, <1>4 DEF Pushed
<1>6. S = [Q EXCEPT ![m] = Append(Append(Q[m], c), e)]
  BY <1>1, <1>3, <1>5
<1>7. R = S
  BY <1>1, <1>6 DEF Parted
<1> QED
  BY <1>2, <1>4, <1>7, Zenon

LEMMA NoneIsLast ==
    ASSUME NEW Q, NoneLive(Q)
    PROVE  LastLive(Q)
  BY DEF NoneLive, LastLive

-----------------------------------------------------------------------------
(* The invariant. *)

Callers == [goal : {"none", "open", "search", "recycle", "close"},
            pc : {"idle", "wait", "ready", "failed", "closed", "join", "joined",
                  "abandon", "renew"},
            op : {"none", "start", "warm", "search", "close"},
            reply : {"none", "ok", "err", "blocked"}, tries : Int]

BrowserTypeInv ==
    /\ thread \in Thread \cup {NoThread}
    /\ life \in [Thread -> {"unborn", "get", "run", "ended"}]
    /\ queue \in Queues
    /\ on \in [Thread -> DOMAIN queue]
    /\ job \in [Thread -> Item]
    /\ \A t \in Thread : life[t] = "run" => job[t].op # "quit"
    /\ lost \in Nat
    /\ caller \in Callers

(* The caller asks for one thing at a time: there is one command, at most, that somebody *)
(* waits for, and none while nobody waits.                                               *)
Serves(t) == life[t] = "run" /\ job[t].live = TRUE
Waits == caller.pc = "wait" /\ caller.reply = "none"

OneCommand ==
    /\ ~Waits => NoneLive(queue) /\ \A t \in Thread : ~Serves(t)
    /\ LastLive(queue)
    /\ \A t \in Thread : Serves(t) => NoneLive(queue)
    /\ \A t, u \in Thread : Serves(t) /\ Serves(u) => t = u

(* The object's own thread reads the current queue, which holds what the caller waits for *)
(* and orders to quit, and it runs nothing else.                                          *)
OwnThread ==
    /\ caller.pc \notin {"abandon", "renew"} =>
          /\ Served(queue)
          /\ Alive(thread) =>
                on[thread] = Current /\ (life[thread] = "run" => job[thread].live = TRUE)
    /\ caller.pc = "renew" => thread = NoThread

(* Which threads there are: whenever the object is without one, or about to be, each of *)
(* them is paid for.                                                                    *)
Living == {t \in Thread : Alive(t)}
Paid == Cardinality(Living) <= lost

Accounted ==
    /\ LeakBounded
    /\ caller.pc \in {"abandon", "renew", "joined", "idle"} => Paid
    /\ caller.pc = "join" /\ queue[Current] = <<>> => Paid

BrowserInv == BrowserTypeInv /\ OneCommand /\ OwnThread /\ Accounted

LEMMA Countable ==
    ASSUME NEW L \in SUBSET Thread
    PROVE  /\ IsFiniteSet(L) /\ Cardinality(L) \in Nat
           /\ \A K \in SUBSET L : Cardinality(K) <= Cardinality(L) /\ Cardinality(K) \in Nat
           /\ \A t : Cardinality(L \ {t}) = IF t \in L THEN Cardinality(L) - 1 ELSE Cardinality(L)
<1>1. IsFiniteSet(L)
  BY BrowserAssumption, FS_Subset
<1>2. \A K \in SUBSET L : IsFiniteSet(K) /\ Cardinality(K) <= Cardinality(L)
  BY <1>1, FS_Subset
<1> QED
  BY <1>1, <1>2, FS_CardinalityType, FS_RemoveElement

(* The threads left behind, counted from all that live. *)
LEMMA LeakCount ==
    /\ Living \in SUBSET Thread
    /\ LeakBounded <=> Cardinality(Living \ {thread}) <= lost
<1>1. {t \in Thread : Alive(t) /\ t # thread} = Living \ {thread}
  BY DEF Living
<1> QED
  BY <1>1 DEF LeakBounded, Living

LEMMA LeakCountNext ==
    /\ Living' \in SUBSET Thread
    /\ LeakBounded' <=> Cardinality(Living' \ {thread'}) <= lost'
<1>1. {t \in Thread : Alive(t)' /\ t # thread'} = Living' \ {thread'}
  BY DEF Living
<1> QED
  BY <1>1 DEF LeakBounded, Living

LEMMA PaidUnlessOwn ==
    ASSUME BrowserInv, ~Alive(thread)
    PROVE  Paid
<1>1. Living \ {thread} = Living
  BY DEF Living
<1> QED
  BY <1>1, LeakCount DEF BrowserInv, Accounted, Paid

-----------------------------------------------------------------------------
(* The steps of the caller. *)

LEMMA CommandIs ==
    ASSUME NEW op \in {"start", "warm", "search", "close"}
    PROVE  Command(op) \in Item /\ Command(op).live = TRUE
  BY DEF Command, Item

LEMMA QuitIs ==
    /\ Quit \in Item /\ Quit.live = FALSE /\ Quit.op = "quit"
    /\ Deaf(Command("close")) \in Item /\ Deaf(Command("close")).live = FALSE
  BY DEF Quit, Command, Item, Deaf

(* Only the caller moves, and it waits for nothing. *)
LEMMA Moves ==
    ASSUME BrowserInv, UNCHANGED <<thread, life, on, job, queue, lost>>,
           ~Waits, caller.pc \notin {"abandon", "renew"}, caller' \in Callers,
           caller'.pc \in {"ready", "failed", "closed", "joined"},
           caller'.pc = "joined" => Paid
    PROVE  BrowserInv'
<1>1. BrowserTypeInv'
  BY DEF BrowserInv, BrowserTypeInv
<1>2. OneCommand'
  BY DEF BrowserInv, OneCommand, Serves, Waits
<1>3. OwnThread'
  BY DEF BrowserInv, OwnThread, Alive, Current
<1>4. Accounted'
  BY DEF BrowserInv, Accounted, LeakBounded, Living, Paid, Alive, Current
<1> QED
  BY <1>1, <1>2, <1>3, <1>4 DEF BrowserInv

LEMMA Asks ==
    ASSUME BrowserInv, ~Waits, caller.pc \in {"wait", "ready", "failed"},
           NEW aim \in {"none", "open", "search", "recycle", "close"},
           NEW op \in {"start", "warm", "search", "close"}, NEW tries \in Int,
           Ask(aim, op, tries)
    PROVE  BrowserInv'
<1>1. /\ caller' = Waiting(aim, op, tries)
      /\ queue' = Pushed(queue, Command(op))
      /\ UNCHANGED <<thread, life, on, job, lost>>
  BY DEF Ask, Put, Current, Pushed
<1>2. caller' \in Callers /\ caller'.pc = "wait" /\ caller'.reply = "none" /\ Waits'
  BY <1>1 DEF Waiting, Callers, Waits
<1>3. queue \in Queues /\ NoneLive(queue) /\ Served(queue) /\ \A t \in Thread : ~Serves(t)
  BY DEF BrowserInv, BrowserTypeInv, OneCommand, OwnThread
<1>4. /\ queue' \in Queues /\ Len(queue') = Len(queue) /\ DOMAIN queue' = DOMAIN queue
      /\ LastLive(queue') /\ Served(queue')
  BY <1>1, <1>3, CommandIs, PutIs
<1>5. BrowserTypeInv'
  BY <1>1, <1>2, <1>4 DEF BrowserInv, BrowserTypeInv
<1>6. \A t \in Thread : ~Serves(t)'
  BY <1>1, <1>3 DEF Serves
<1>7. OneCommand'
  BY <1>2, <1>4, <1>6 DEF OneCommand
<1>8. OwnThread'
  BY <1>1, <1>2, <1>4 DEF BrowserInv, OwnThread, Alive, Current
<1>9. Accounted'
  BY <1>1, <1>2 DEF BrowserInv, Accounted, LeakBounded, Living, Paid, Alive
<1> QED
  BY <1>5, <1>7, <1>8, <1>9 DEF BrowserInv

(* A new thread, where every thread that lives is paid for. *)
LEMMA Starts ==
    ASSUME BrowserInv, ~Waits, Paid, NEW aim \in {"none", "open", "search", "recycle", "close"},
           NEW tries \in Int, NEW Q \in Queues, DOMAIN queue \subseteq DOMAIN Q,
           NoneLive(Q), Served(Q), Start(aim, tries, Q)
    PROVE  BrowserInv'
<1>1. PICK t \in Thread :
        /\ thread' = t
        /\ life' = [life EXCEPT ![t] = "get"]
        /\ on' = [on EXCEPT ![t] = Len(Q)]
        /\ queue' = Pushed(Q, Command("start"))
        /\ caller' = Waiting(aim, "start", tries)
        /\ UNCHANGED <<job, lost>>
  <2>1. Unborn # {} /\ Unborn \subseteq Thread
    BY DEF Start, Unborn
  <2>2. Min(Unborn) \in Unborn
    <3>1. Cardinality(Thread) \in Nat /\ IsFiniteSet(Thread)
      BY BrowserAssumption, FS_CardinalityType
    <3>2. IsFiniteSet(Unborn) /\ Unborn \subseteq Int
      BY <2>1, <3>1, BrowserAssumption, FS_Subset
    <3> QED
      BY <2>1, <3>2, Smallest
  <2> QED
    BY <2>1, <2>2 DEF Start, Pushed
<1>2. caller' \in Callers /\ caller'.pc = "wait" /\ caller'.reply = "none" /\ Waits'
  BY <1>1 DEF Waiting, Callers, Waits
<1>3. \A u \in Thread : ~Serves(u)
  BY DEF BrowserInv, OneCommand
<1>4. /\ queue' \in Queues /\ Len(queue') = Len(Q) /\ DOMAIN queue' = DOMAIN Q
      /\ LastLive(queue') /\ Served(queue')
  BY <1>1, CommandIs, PutIs
<1>5. /\ life'[t] = "get" /\ \A u \in Thread \ {t} : life'[u] = life[u]
      /\ on'[t] = Len(Q) /\ \A u \in Thread \ {t} : on'[u] = on[u]
  BY <1>1 DEF BrowserInv, BrowserTypeInv
<1>6. BrowserTypeInv'
  <2>1. on' \in [Thread -> DOMAIN queue']
    <3>1. Len(Q) \in DOMAIN Q
      BY QueueIs
    <3> QED
      BY <1>1, <1>4, <3>1 DEF BrowserInv, BrowserTypeInv
  <2>2. life' \in [Thread -> {"unborn", "get", "run", "ended"}]
    BY <1>1 DEF BrowserInv, BrowserTypeInv
  <2>3. \A u \in Thread : life'[u] = "run" => job'[u].op # "quit"
    BY <1>1, <1>5 DEF BrowserInv, BrowserTypeInv
  <2> QED
    BY <1>1, <1>2, <1>4, <2>1, <2>2, <2>3 DEF BrowserInv, BrowserTypeInv
<1>7. \A u \in Thread : ~Serves(u)'
  BY <1>1, <1>3, <1>5 DEF Serves
<1>8. OneCommand'
  BY <1>2, <1>4, <1>7 DEF OneCommand
<1>9. OwnThread'
  BY <1>1, <1>2, <1>4, <1>5 DEF OwnThread, Current
<1>10. Accounted'
  <2>1. Living' \ {t} \subseteq Living
    BY <1>5 DEF Living, Alive
  <2>2. Cardinality(Living' \ {t}) <= Cardinality(Living)
    BY <2>1, LeakCount, Countable
  <2>3. Cardinality(Living' \ {t}) \in Nat /\ Cardinality(Living) \in Nat
    BY <2>1, LeakCount, Countable
  <2>4. Cardinality(Living' \ {thread'}) <= lost'
    BY <1>1, <2>2, <2>3 DEF Paid, BrowserInv, BrowserTypeInv
  <2> QED
    BY <1>2, <2>4, LeakCountNext DEF Accounted
<1> QED
  BY <1>6, <1>8, <1>9, <1>10 DEF BrowserInv

LEMMA StartsOver ==
    ASSUME BrowserInv, ~Waits, ~Alive(thread), caller.pc \notin {"abandon", "renew"},
           NEW aim \in {"none", "open", "search", "recycle", "close"},
           NEW tries \in Int, StartOver(aim, tries)
    PROVE  BrowserInv'
<1>1. queue \in Queues /\ NoneLive(queue) /\ Served(queue)
  BY DEF BrowserInv, BrowserTypeInv, OneCommand, OwnThread
<1>2. PICK P \in Queues : /\ P = Pushed(queue, Quit) /\ NoneLive(P) /\ DOMAIN P = DOMAIN queue
  BY <1>1, QuitIs, PutIs
<1>3. PICK Q \in Queues : /\ Q = Append(P, <<>>) /\ DOMAIN P \subseteq DOMAIN Q
                          /\ NoneLive(Q) /\ Served(Q)
  BY <1>2, NewIs
<1>4. Start(aim, tries, Q)
  BY <1>2, <1>3 DEF StartOver, Put, Current, Pushed
<1>5. Paid
  BY PaidUnlessOwn
<1> QED
  BY <1>2, <1>3, <1>4, <1>5, Starts

\* What is known while nobody waits: the object's own thread is at its queue, where it
\* finds nothing but orders to quit.
LEMMA Calm ==
    ASSUME BrowserInv, ~Waits, caller.pc \notin {"abandon", "renew"}
    PROVE  /\ queue \in Queues /\ NoneLive(queue) /\ Served(queue)
           /\ \A t \in Thread : ~Serves(t)
           /\ Alive(thread) => /\ thread \in Thread /\ life[thread] = "get"
                               /\ on[thread] = Current
<1>1. queue \in Queues /\ NoneLive(queue) /\ Served(queue) /\ \A t \in Thread : ~Serves(t)
  BY DEF BrowserInv, BrowserTypeInv, OneCommand, OwnThread
<1>2. ASSUME Alive(thread)
      PROVE  thread \in Thread /\ life[thread] = "get" /\ on[thread] = Current
  <2>1. thread \in Thread /\ life[thread] \in {"get", "run"}
    BY <1>2 DEF BrowserInv, BrowserTypeInv, Alive
  <2> QED
    BY <1>1, <1>2, <2>1 DEF BrowserInv, OwnThread, Serves
<1> QED
  BY <1>1, <1>2

LEMMA SaysQuit ==
    ASSUME BrowserInv, SayQuit
    PROVE  BrowserInv'
<1>1. ~Waits /\ caller.pc = "closed" /\ caller \in Callers
  BY DEF SayQuit, Waits, BrowserInv, BrowserTypeInv
<1>2. queue \in Queues /\ NoneLive(queue) /\ Served(queue) /\ \A t \in Thread : ~Serves(t)
  BY <1>1, Calm
<1>3. queue' = Pushed(queue, Quit)
  BY DEF SayQuit, Put, Current, Pushed
<1>4. /\ queue' \in Queues /\ Len(queue') = Len(queue) /\ DOMAIN queue' = DOMAIN queue
      /\ NoneLive(queue') /\ LastLive(queue') /\ Served(queue') /\ queue'[Len(queue')] # <<>>
  BY <1>2, <1>3, QuitIs, PutIs
<1>5. caller' \in Callers /\ caller'.pc = "join"
  BY <1>1 DEF SayQuit, Callers
<1>6. UNCHANGED <<thread, life, on, job, lost>>
  BY DEF SayQuit
<1>7. BrowserTypeInv'
  BY <1>4, <1>5, <1>6 DEF BrowserInv, BrowserTypeInv
<1>8. OneCommand'
  BY <1>2, <1>4, <1>6 DEF OneCommand, Serves
<1>9. OwnThread'
  BY <1>1, <1>4, <1>5, <1>6 DEF BrowserInv, OwnThread, Alive, Current
<1>10. Accounted'
  BY <1>4, <1>5, <1>6 DEF BrowserInv, Accounted, LeakBounded, Living, Alive, Current
<1> QED
  BY <1>7, <1>8, <1>9, <1>10 DEF BrowserInv

LEMMA Joins ==
    ASSUME BrowserInv, Join
    PROVE  BrowserInv'
<1>1. ~Waits /\ caller.pc = "join" /\ caller \in Callers
  BY DEF Join, Waits, BrowserInv, BrowserTypeInv
<1>2. UNCHANGED <<thread, life, on, job, queue, lost>>
      /\ caller' = [caller EXCEPT !.pc = "joined", !.reply = "none"]
  BY DEF Join, To
<1>3. Paid
  <2>1. CASE Alive(thread)
    <3>1. life[thread] = "get" /\ on[thread] = Current
      BY <1>1, <2>1, Calm
    <3>2. queue[Current] = <<>>
      BY <2>1, <3>1 DEF Join
    <3> QED
      BY <1>1, <3>2 DEF BrowserInv, Accounted
  <2>2. CASE ~Alive(thread)
    BY <2>2, PaidUnlessOwn
  <2> QED
    BY <2>1, <2>2
<1>4. caller' \in Callers /\ caller'.pc = "joined"
  BY <1>1, <1>2 DEF Callers
<1> QED
  BY <1>1, <1>2, <1>3, <1>4, Moves

\* The object is left without a thread, all of whose threads are paid for.
LEMMA LeavesThread ==
    ASSUME BrowserInv, ~Waits, ~Waits', NEW Q \in Queues, queue' = Q, NoneLive(Q),
           DOMAIN queue \subseteq DOMAIN Q,
           caller.pc # "renew" /\ caller'.pc \notin {"abandon", "renew"} => Served(Q),
           caller'.pc # "abandon", caller' \in Callers,
           thread' = NoThread, UNCHANGED <<life, on, job>>, lost' \in Nat,
           Cardinality(Living) <= lost', caller.pc # "renew" \/ Served(Q)
    PROVE  BrowserInv'
<1>1. BrowserTypeInv'
  BY DEF BrowserInv, BrowserTypeInv
<1>2. OneCommand'
  BY NoneIsLast DEF BrowserInv, OneCommand, Serves
<1>3. OwnThread'
  BY DEF OwnThread, Alive
<1>4. Living' = Living
  BY DEF Living, Alive
<1>5. Cardinality(Living' \ {thread'}) <= lost'
  <2>1. Living \ {NoThread} \subseteq Living
    OBVIOUS
  <2>2. Cardinality(Living \ {NoThread}) <= Cardinality(Living)
        /\ Cardinality(Living \ {NoThread}) \in Nat /\ Cardinality(Living) \in Nat
    BY <2>1, LeakCount, Countable
  <2> QED
    BY <1>4, <2>2
<1>6. Accounted'
  BY <1>4, <1>5, LeakCountNext DEF Accounted, Paid
<1> QED
  BY <1>1, <1>2, <1>3, <1>6 DEF BrowserInv

LEMMA Leaves ==
    ASSUME BrowserInv, Forget \/ Joined
    PROVE  BrowserInv'
<1>1. ~Waits /\ caller.pc \in {"failed", "joined"} /\ caller \in Callers /\ lost \in Nat
  BY DEF Forget, Joined, Waits, BrowserInv, BrowserTypeInv
<1>2. queue \in Queues /\ NoneLive(queue) /\ Served(queue)
  BY <1>1, Calm
<1>3. CASE Forget
  <2>1. /\ caller' = [caller EXCEPT !.goal = "close", !.pc = "joined"]
        /\ thread' = NoThread /\ UNCHANGED <<life, on, job, queue>>
        /\ lost' = IF Alive(thread) THEN lost + 1 ELSE lost
    BY <1>3 DEF Forget
  <2>2. caller' \in Callers /\ caller'.pc = "joined" /\ ~Waits'
    BY <1>1, <2>1 DEF Callers, Waits
  <2>3. Cardinality(Living) <= lost' /\ lost' \in Nat
    <3>1. /\ Cardinality(Living) \in Nat
          /\ Cardinality(Living \ {thread})
                = IF thread \in Living THEN Cardinality(Living) - 1 ELSE Cardinality(Living)
      BY LeakCount, Countable
    <3>2. Cardinality(Living \ {thread}) <= lost
      BY LeakCount DEF BrowserInv, Accounted
    <3>3. thread \in Living => Alive(thread)
      BY DEF Living
    <3> QED
      BY <1>1, <2>1, <3>1, <3>2, <3>3
  <2> QED
    BY <1>1, <1>2, <2>1, <2>2, <2>3, LeavesThread
<1>4. CASE Joined
  <2>1. Paid /\ caller.pc = "joined"
    BY <1>4 DEF Joined, BrowserInv, Accounted
  <2>2. CASE caller.goal = "recycle"
    <3>1. Start("recycle", 0, queue)
      BY <1>4, <2>2 DEF Joined
    <3> QED
      BY <1>1, <1>2, <2>1, <3>1, Starts
  <2>3. CASE caller.goal # "recycle"
    <3>1. /\ thread' = NoThread /\ UNCHANGED <<life, on, job, lost>>
          /\ queue' = Append(queue, <<>>) /\ caller' = Idle
      BY <1>4, <2>3 DEF Joined
    <3>2. PICK Q \in Queues : /\ Q = Append(queue, <<>>) /\ DOMAIN queue \subseteq DOMAIN Q
                              /\ Served(Q) /\ NoneLive(Q)
      BY <1>2, NewIs
    <3>3. caller' \in Callers /\ caller'.pc = "idle" /\ ~Waits'
      BY <3>1 DEF Idle, Callers, Waits
    <3>4. Cardinality(Living) <= lost' /\ lost' \in Nat
      BY <1>1, <2>1, <3>1 DEF Paid
    <3> QED
      BY <1>1, <2>1, <3>1, <3>2, <3>3, <3>4, LeavesThread
  <2> QED
    BY <2>2, <2>3
<1> QED
  BY <1>3, <1>4

LEMMA Abandons ==
    ASSUME BrowserInv, Abandon
    PROVE  BrowserInv'
<1>1. ~Waits /\ caller.pc = "abandon" /\ caller \in Callers /\ lost \in Nat
  BY DEF Abandon, Waits, BrowserInv, BrowserTypeInv
<1>2. queue \in Queues /\ NoneLive(queue) /\ Paid
  BY <1>1 DEF BrowserInv, BrowserTypeInv, OneCommand, Accounted
<1> DEFINE c == Deaf(Command("close"))
           Q == Parted(queue, c, Quit)
<1>3. Q \in Queues /\ DOMAIN Q = DOMAIN queue /\ NoneLive(Q)
  <2>1. c \in Item /\ c.live = FALSE /\ Quit \in Item /\ Quit.live = FALSE
    BY QuitIs
  <2> HIDE DEF c
  <2> QED
    BY <1>2, <2>1, PartingIs
<1>4. /\ queue' = Q /\ thread' = NoThread /\ UNCHANGED <<life, on, job, lost>>
      /\ caller' = [caller EXCEPT !.pc = "renew"]
  BY DEF Abandon, Parted, Current
<1> HIDE DEF Q
<1>5. caller' \in Callers /\ caller'.pc = "renew" /\ ~Waits'
  BY <1>1, <1>4 DEF Callers, Waits
<1>6. Cardinality(Living) <= lost' /\ lost' \in Nat
  BY <1>1, <1>2, <1>4 DEF Paid
<1> QED
  BY <1>1, <1>3, <1>4, <1>5, <1>6, LeavesThread

LEMMA Renews ==
    ASSUME BrowserInv, Renew
    PROVE  BrowserInv'
<1>1. ~Waits /\ caller.pc = "renew" /\ caller \in Callers /\ lost \in Nat
  BY DEF Renew, Waits, BrowserInv, BrowserTypeInv
<1>2. queue \in Queues /\ NoneLive(queue) /\ Paid /\ thread = NoThread
  BY <1>1 DEF BrowserInv, BrowserTypeInv, OneCommand, OwnThread, Accounted
<1>3. PICK Q \in Queues : /\ Q = Append(queue, <<>>) /\ DOMAIN queue \subseteq DOMAIN Q
                          /\ Served(Q) /\ NoneLive(Q)
  BY <1>2, NewIs
<1>4. /\ queue' = Q /\ thread' = NoThread /\ UNCHANGED <<life, on, job, lost>>
      /\ \E place \in {"ready", "closed", "failed"} : caller' = [caller EXCEPT !.pc = place]
  BY <1>2, <1>3 DEF Renew
<1>5. caller' \in Callers /\ caller'.pc \in {"ready", "closed", "failed"} /\ ~Waits'
  BY <1>1, <1>4 DEF Callers, Waits
<1>6. Cardinality(Living) <= lost' /\ lost' \in Nat
  BY <1>1, <1>2, <1>4 DEF Paid
<1> QED
  BY <1>1, <1>3, <1>4, <1>5, <1>6, LeavesThread

(* The commands are given up: nobody waits, and the thread they were for is paid for. *)
LEMMA CallTimesOut ==
    ASSUME BrowserInv, Timeout
    PROVE  BrowserInv'
<1>1. caller \in Callers /\ lost \in Nat /\ queue \in Queues /\ caller.pc = "wait"
  BY DEF Timeout, BrowserInv, BrowserTypeInv
<1>2. /\ job' = [t \in Thread |-> Deaf(job[t])] /\ queue' = Deafened(queue)
      /\ caller' = [caller EXCEPT !.pc = "abandon"] /\ lost' = lost + 1
      /\ UNCHANGED <<thread, life, on>>
  BY DEF Timeout, Deafened
<1>3. caller' \in Callers /\ caller'.pc = "abandon" /\ ~Waits'
  BY <1>1, <1>2 DEF Callers, Waits
<1>4. queue' \in Queues /\ DOMAIN queue' = DOMAIN queue /\ NoneLive(queue') /\ LastLive(queue')
  BY <1>1, <1>2, DeafIs, NoneIsLast
<1>5. \A t \in Thread : job'[t] \in Item /\ job'[t].live = FALSE /\ job'[t].op = job[t].op
  <2>1. \A c \in Item : Deaf(c) \in Item /\ Deaf(c).live = FALSE /\ Deaf(c).op = c.op
    BY DEF Item, Deaf
  <2> QED
    BY <1>2, <2>1 DEF BrowserInv, BrowserTypeInv
<1>6. BrowserTypeInv'
  <2>1. job' \in [Thread -> Item]
    BY <1>2, <1>5
  <2>2. \A t \in Thread : life'[t] = "run" => job'[t].op # "quit"
    BY <1>2, <1>5 DEF BrowserInv, BrowserTypeInv
  <2> QED
    BY <1>1, <1>2, <1>3, <1>4, <2>1, <2>2 DEF BrowserInv, BrowserTypeInv
<1>7. OneCommand'
  BY <1>4, <1>5 DEF OneCommand, Serves
<1>8. OwnThread'
  BY <1>3 DEF OwnThread
<1>9. Accounted'
  <2>1. Living' = Living
    BY <1>2 DEF Living, Alive
  <2>2. /\ Cardinality(Living) \in Nat
        /\ Cardinality(Living \ {thread})
              = IF thread \in Living THEN Cardinality(Living) - 1 ELSE Cardinality(Living)
    BY LeakCount, Countable
  <2>3. Cardinality(Living \ {thread}) <= lost
    BY LeakCount DEF BrowserInv, Accounted
  <2>4. Cardinality(Living) <= lost + 1 /\ Cardinality(Living \ {thread}) <= lost + 1
    BY <1>1, <2>2, <2>3
  <2> QED
    BY <1>2, <1>3, <2>1, <2>4, LeakCountNext DEF Accounted, Paid
<1> QED
  BY <1>6, <1>7, <1>8, <1>9 DEF BrowserInv

LEMMA CallerSteps ==
    ASSUME BrowserInv, Caller
    PROVE  BrowserInv'
<1>1. caller \in Callers
  BY DEF BrowserInv, BrowserTypeInv
<1>2. CASE Open
  <2>1. caller.pc = "idle" /\ ~Waits /\ Start("open", 0, queue)
    BY <1>2 DEF Open, Idle, Waits
  <2>2. Paid /\ queue \in Queues /\ NoneLive(queue) /\ Served(queue)
    BY <2>1, Calm DEF BrowserInv, Accounted
  <2> QED
    BY <2>1, <2>2, Starts
<1>3. CASE AskSearch \/ Retry
  <2>1. caller.pc \in {"ready", "failed"} /\ ~Waits
    BY <1>3 DEF AskSearch, Retry, Waits
  <2>2. PICK n \in Int : IF Alive(thread) THEN Ask("search", "search", n) ELSE StartOver("search", n)
    <3>1. CASE AskSearch
      BY <3>1 DEF AskSearch
    <3>2. CASE Retry
      BY <1>1, <3>2 DEF Retry, Callers
    <3> QED
      BY <1>3, <3>1, <3>2
  <2> QED
    BY <2>1, <2>2, Asks, StartsOver
<1>4. CASE Close
  <2>1. caller.pc = "ready" /\ ~Waits
    BY <1>4 DEF Close, Waits
  <2>2. PICK aim \in {"close", "recycle"} :
          IF Alive(thread)
          THEN Ask(aim, "close", 0)
          ELSE /\ caller' = [caller EXCEPT !.goal = aim, !.pc = "joined"]
               /\ UNCHANGED <<thread, life, on, job, queue, handles, cooldown, lost>>
    BY <1>4 DEF Close
  <2>3. CASE Alive(thread)
    BY <2>1, <2>2, <2>3, Asks
  <2>4. CASE ~Alive(thread)
    <3>1. Paid
      BY <2>4, PaidUnlessOwn
    <3>2. caller' \in Callers /\ caller'.pc = "joined"
      BY <1>1, <2>2, <2>4 DEF Callers
    <3> QED
      BY <2>1, <2>2, <2>4, <3>1, <3>2, Moves
  <2> QED
    BY <2>3, <2>4
<1>5. CASE Started
  <2>1. caller.pc = "wait" /\ ~Waits /\ caller.tries \in Int
        /\ caller.goal \in {"none", "open", "search", "recycle", "close"}
    BY <1>1, <1>5 DEF Started, Waits, Callers
  <2>2. Ask("search", "search", caller.tries) \/ Ask(caller.goal, "warm", 0)
    BY <1>5 DEF Started
  <2> QED
    BY <2>1, <2>2, Asks
<1>6. CASE NotStarted \/ Warm \/ Found \/ NotFound \/ Closed
  <2>1. caller.pc = "wait" /\ ~Waits
    BY <1>6 DEF NotStarted, Warm, Found, NotFound, Closed, Waits
  <2>2. PICK place \in {"failed", "ready", "closed"} : To(place)
    BY <1>6 DEF NotStarted, Warm, Found, NotFound, Closed
  <2>3. caller' \in Callers /\ caller'.pc = place
    BY <1>1, <2>2 DEF To, Callers
  <2> QED
    BY <2>1, <2>2, <2>3, Moves DEF To
<1>7. CASE GiveUp
  <2>1. caller.pc = "failed" /\ ~Waits
    BY <1>7 DEF GiveUp, Waits
  <2>2. CASE Alive(thread)
    <3>1. Ask("close", "close", 0)
      BY <1>7, <2>2 DEF GiveUp
    <3> QED
      BY <2>1, <3>1, Asks
  <2>3. CASE ~Alive(thread)
    <3>1. To("joined") /\ Paid
      BY <1>7, <2>3, PaidUnlessOwn DEF GiveUp
    <3>2. caller' \in Callers /\ caller'.pc = "joined"
      BY <1>1, <3>1 DEF To, Callers
    <3> QED
      BY <2>1, <3>1, <3>2, Moves DEF To
  <2> QED
    BY <2>2, <2>3
<1> QED
  BY <1>2, <1>3, <1>4, <1>5, <1>6, <1>7, SaysQuit, Joins, Leaves, Abandons, Renews DEF Caller

-----------------------------------------------------------------------------
(* The steps of the threads. *)

LEMMA Takes ==
    ASSUME BrowserInv, NEW t \in Thread, Take(t)
    PROVE  BrowserInv'
<1>1. PICK q \in DOMAIN queue : q = on[t] /\ queue[q] # <<>>
  BY DEF Take, BrowserInv, BrowserTypeInv
<1>2. queue \in Queues /\ LastLive(queue)
  BY DEF BrowserInv, BrowserTypeInv, OneCommand
<1>3. PICK h \in Item : h = Head(queue[q])
  BY <1>1, <1>2, TakenIs
<1>4. /\ queue' = Popped(queue, q)
      /\ job' = [job EXCEPT ![t] = h]
      /\ life' = [life EXCEPT ![t] = IF job'[t].op = "quit" THEN "ended" ELSE "run"]
      /\ life[t] = "get" /\ UNCHANGED <<thread, on, caller, lost>>
  BY <1>1, <1>3 DEF Take, Popped
<1>5. /\ queue' \in Queues /\ Len(queue') = Len(queue) /\ DOMAIN queue' = DOMAIN queue
      /\ LastLive(queue')
      /\ NoneLive(queue) => NoneLive(queue') /\ h.live = FALSE
      /\ h.live = TRUE => NoneLive(queue')
      /\ Served(queue) => Served(queue')
      /\ Served(queue) /\ q = Len(queue) => h.live = TRUE \/ h.op = "quit"
      /\ q # Len(queue) => queue'[Len(queue)] = queue[Len(queue)]
  BY <1>1, <1>2, <1>3, <1>4, TakenIs
<1>6. /\ job'[t] = h /\ life'[t] = IF h.op = "quit" THEN "ended" ELSE "run"
      /\ \A u \in Thread \ {t} : job'[u] = job[u] /\ life'[u] = life[u]
      /\ job' \in [Thread -> Item] /\ life' \in [Thread -> {"unborn", "get", "run", "ended"}]
  BY <1>4 DEF BrowserInv, BrowserTypeInv
<1>7. BrowserTypeInv'
  <2>1. \A u \in Thread : life'[u] = "run" => job'[u].op # "quit"
    BY <1>6 DEF BrowserInv, BrowserTypeInv
  <2> QED
    BY <1>4, <1>5, <1>6, <2>1 DEF BrowserInv, BrowserTypeInv
<1>8. OneCommand'
  <2>1. \A u \in Thread \ {t} : Serves(u)' <=> Serves(u)
    BY <1>6 DEF Serves
  <2>2. Serves(t)' => h.live = TRUE
    BY <1>6 DEF Serves
  <2>3. h.live = TRUE => Waits /\ \A u \in Thread : ~Serves(u)
    BY <1>5 DEF BrowserInv, OneCommand
  <2>4. Waits' <=> Waits
    BY <1>4 DEF Waits
  <2>5. ~Waits' => NoneLive(queue') /\ \A u \in Thread : ~Serves(u)'
    BY <1>5, <2>1, <2>2, <2>3, <2>4 DEF BrowserInv, OneCommand
  <2>6. \A u \in Thread : Serves(u)' => NoneLive(queue')
    BY <1>5, <2>1, <2>2 DEF BrowserInv, OneCommand
  <2>7. \A u, w \in Thread : Serves(u)' /\ Serves(w)' => u = w
    BY <2>1, <2>2, <2>3 DEF BrowserInv, OneCommand
  <2> QED
    BY <1>5, <2>5, <2>6, <2>7 DEF OneCommand
<1>9. OwnThread'
  <2>1. ASSUME caller.pc \notin {"abandon", "renew"}, Alive(thread)'
        PROVE  on[thread] = Len(queue) /\ (life'[thread] = "run" => job'[thread].live = TRUE)
    <3>1. CASE thread # t
      <4>1. Alive(thread)
        BY <1>4, <1>6, <2>1, <3>1 DEF Alive, BrowserInv, BrowserTypeInv
      <4>2. thread \in Thread
        BY <4>1 DEF Alive, BrowserInv, BrowserTypeInv
      <4> QED
        BY <1>6, <2>1, <3>1, <4>1, <4>2 DEF BrowserInv, OwnThread, Current
    <3>2. CASE thread = t
      <4>1. Alive(thread)
        BY <1>4, <2>1, <3>2 DEF Alive
      <4>2. on[thread] = Len(queue) /\ Served(queue) /\ q = Len(queue)
        BY <1>1, <2>1, <3>2, <4>1 DEF BrowserInv, OwnThread, Current
      <4>3. h.live = TRUE \/ h.op = "quit"
        BY <1>5, <4>2
      <4> QED
        BY <1>6, <3>2, <4>2, <4>3
    <3> QED
      BY <3>1, <3>2
  <2>2. caller.pc \notin {"abandon", "renew"} => Served(queue')
    BY <1>5 DEF BrowserInv, OwnThread
  <2> QED
    BY <1>4, <1>5, <2>1, <2>2 DEF BrowserInv, OwnThread, Current
<1>10. Accounted'
  <2>1. Living' \subseteq Living /\ Living \in SUBSET Thread
    BY <1>4, <1>6 DEF Living, Alive
  <2>2. /\ Cardinality(Living') <= Cardinality(Living) /\ Cardinality(Living') \in Nat
        /\ Cardinality(Living) \in Nat
    BY <2>1, Countable
  <2>3. Paid => Paid'
    BY <1>4, <2>2 DEF Paid, BrowserInv, BrowserTypeInv
  <2>4. LeakBounded'
    <3>1. Living' \ {thread} \subseteq Living \ {thread} /\ Living \ {thread} \in SUBSET Thread
      BY <2>1
    <3>2. /\ Cardinality(Living' \ {thread}) <= Cardinality(Living \ {thread})
          /\ Cardinality(Living' \ {thread}) \in Nat /\ Cardinality(Living \ {thread}) \in Nat
      BY <3>1, Countable
    <3>3. Cardinality(Living \ {thread}) <= lost
      BY LeakCount DEF BrowserInv, Accounted
    <3> QED
      BY <1>4, <3>2, <3>3, LeakCountNext DEF BrowserInv, BrowserTypeInv
  <2>5. ASSUME caller.pc = "join", queue'[Len(queue)] = <<>>
        PROVE  Paid'
    <3>1. CASE queue[Len(queue)] = <<>>
      BY <2>3, <2>5, <3>1 DEF BrowserInv, Accounted, Current
    <3>2. CASE queue[Len(queue)] # <<>>
      <4>1. ~Waits
        BY <2>5 DEF Waits
      <4>2. q = Len(queue) /\ Served(queue) /\ NoneLive(queue)
        BY <1>5, <2>5, <3>2, <4>1, Calm
      <4>3. h.op = "quit"
        BY <1>5, <4>2
      <4>4. t \in Living /\ t \notin Living'
        BY <1>4, <1>6, <4>3, BrowserAssumption DEF Living, Alive
      <4>5. Living' \subseteq Living \ {t} /\ Living \ {t} \in SUBSET Thread
        BY <2>1, <4>4
      <4>6. /\ Cardinality(Living') <= Cardinality(Living \ {t})
            /\ Cardinality(Living \ {t}) = Cardinality(Living) - 1
        BY <2>1, <4>4, <4>5, Countable
      <4>7. Cardinality(Living) <= lost + 1
        <5>1. /\ Cardinality(Living \ {thread})
                    = IF thread \in Living THEN Cardinality(Living) - 1 ELSE Cardinality(Living)
              /\ Cardinality(Living \ {thread}) <= lost /\ lost \in Nat
          BY <2>1, Countable, LeakCount DEF BrowserInv, BrowserTypeInv, Accounted
        <5> QED
          BY <2>2, <5>1
      <4>8. lost \in Nat
        BY DEF BrowserInv, BrowserTypeInv
      <4> QED
        BY <1>4, <2>2, <4>6, <4>7, <4>8 DEF Paid
    <3> QED
      BY <3>1, <3>2
  <2> QED
    BY <1>4, <1>5, <2>3, <2>4, <2>5 DEF BrowserInv, Accounted, Current
<1> QED
  BY <1>7, <1>8, <1>9, <1>10 DEF BrowserInv

LEMMA Finishes ==
    ASSUME BrowserInv, NEW t \in Thread, Finish(t)
    PROVE  BrowserInv'
<1>1. /\ life[t] = "run" /\ job[t] \in Item /\ job[t].op # "quit"
      /\ queue \in Queues /\ caller \in Callers
  BY DEF Finish, BrowserInv, BrowserTypeInv
<1>2. /\ life' = [life EXCEPT ![t] = "get"] /\ on' = [on EXCEPT ![t] = Len(queue)]
      /\ UNCHANGED <<thread, job, queue, lost>>
  BY DEF Finish, Current
<1>3. PICK o \in Outcome(t) :
        caller' = IF job[t].live THEN [caller EXCEPT !.reply = o[3]] ELSE caller
  BY DEF Finish
<1>4. o[3] \in {"ok", "err", "blocked"}
  <2>1. job[t].op \in {"start", "warm", "search", "close"}
    BY <1>1 DEF Item
  <2>2. CASE job[t].op = "start"
    BY <1>3, <2>2 DEF Outcome
  <2>3. CASE job[t].op = "close"
    BY <1>3, <2>3 DEF Outcome
  <2>4. CASE job[t].op \in {"warm", "search"} /\ handles # t
    BY <1>3, <2>4 DEF Outcome
  <2>5. CASE job[t].op = "warm" /\ handles = t
    BY <1>3, <2>5 DEF Outcome
  <2>6. CASE job[t].op = "search" /\ handles = t
    BY <1>3, <2>6 DEF Outcome
  <2> QED
    BY <2>1, <2>2, <2>3, <2>4, <2>5, <2>6
<1>5. /\ life'[t] = "get" /\ \A u \in Thread \ {t} : life'[u] = life[u]
      /\ on'[t] = Len(queue) /\ \A u \in Thread \ {t} : on'[u] = on[u]
      /\ life' \in [Thread -> {"unborn", "get", "run", "ended"}]
  BY <1>2 DEF BrowserInv, BrowserTypeInv
<1>6. caller' \in Callers /\ caller'.pc = caller.pc
      /\ (job[t].live = TRUE => caller'.reply # "none")
      /\ (job[t].live = FALSE => caller' = caller)
  <2>1. CASE job[t].live = TRUE
    BY <1>1, <1>3, <1>4, <2>1 DEF Callers
  <2>2. CASE job[t].live = FALSE
    BY <1>1, <1>3, <2>2
  <2>3. job[t].live \in BOOLEAN
    BY <1>1 DEF Item
  <2> QED
    BY <2>1, <2>2, <2>3
<1>7. BrowserTypeInv'
  <2>1. on' \in [Thread -> DOMAIN queue]
    BY <1>1, <1>2, QueueIs DEF BrowserInv, BrowserTypeInv
  <2>2. \A u \in Thread : life'[u] = "run" => job'[u].op # "quit"
    BY <1>2, <1>5 DEF BrowserInv, BrowserTypeInv
  <2> QED
    BY <1>2, <1>5, <1>6, <2>1, <2>2 DEF BrowserInv, BrowserTypeInv
<1>8. OneCommand'
  <2>1. ~Serves(t)' /\ \A u \in Thread \ {t} : Serves(u)' <=> Serves(u)
    BY <1>2, <1>5 DEF Serves
  <2>2. CASE job[t].live = TRUE
    <3>1. Serves(t)
      BY <1>1, <2>2 DEF Serves
    <3>2. NoneLive(queue) /\ \A u \in Thread : ~Serves(u)'
      BY <2>1, <3>1 DEF BrowserInv, OneCommand
    <3> QED
      BY <1>2, <3>2, NoneIsLast DEF OneCommand
  <2>3. CASE job[t].live = FALSE
    <3>1. Waits' <=> Waits
      BY <1>6, <2>3 DEF Waits
    <3> QED
      BY <1>2, <2>1, <3>1 DEF BrowserInv, OneCommand
  <2>4. job[t].live \in BOOLEAN
    BY <1>1 DEF Item
  <2> QED
    BY <2>2, <2>3, <2>4
<1>9. Alive(thread)' <=> Alive(thread)
  BY <1>1, <1>2, <1>5 DEF Alive, BrowserInv, BrowserTypeInv
<1>10. OwnThread'
  <2>1. ASSUME caller.pc \notin {"abandon", "renew"}, Alive(thread)
        PROVE  on'[thread] = Len(queue) /\ (life'[thread] = "run" => job'[thread].live = TRUE)
    <3>1. thread \in Thread /\ on[thread] = Len(queue)
          /\ (life[thread] = "run" => job[thread].live = TRUE)
      BY <2>1 DEF Alive, BrowserInv, BrowserTypeInv, OwnThread, Current
    <3> QED
      BY <1>2, <1>5, <3>1
  <2> QED
    BY <1>2, <1>6, <1>9, <2>1 DEF BrowserInv, OwnThread, Current
<1>11. Accounted'
  <2>1. Living' = Living
    BY <1>1, <1>2, <1>5 DEF Living, Alive
  <2>2. LeakBounded'
    BY <1>2, <2>1, LeakCount, LeakCountNext DEF BrowserInv, Accounted
  <2> QED
    BY <1>2, <1>6, <2>1, <2>2 DEF BrowserInv, Accounted, Paid, Current
<1> QED
  BY <1>7, <1>8, <1>10, <1>11 DEF BrowserInv

LEMMA BrowserStart ==
    ASSUME BrowserInit
    PROVE  BrowserInv
<1>1. queue = << <<>> >> /\ queue[1] = <<>> /\ Len(queue) = 1 /\ DOMAIN queue = {1}
  BY DEF BrowserInit
<1>2. queue \in Queues
  <2>1. <<>> \in Seq(Item)
    BY EmptySeq
  <2>2. << <<>> >> \in Seq(Seq(Item)) /\ << <<>> >> # <<>>
    BY <2>1
  <2> QED
    BY <1>1, <2>2 DEF Queues
<1>3. caller \in Callers /\ caller.pc = "idle"
  BY DEF BrowserInit, Idle, Callers
<1>4. BrowserTypeInv
  BY <1>1, <1>2, <1>3, QuitIs DEF BrowserInit, BrowserTypeInv
<1>5. NoneLive(queue) /\ Served(queue)
  BY <1>1 DEF NoneLive, Served
<1>6. OneCommand
  BY <1>5, NoneIsLast DEF BrowserInit, OneCommand, Serves
<1>7. OwnThread
  BY <1>3, <1>5 DEF BrowserInit, OwnThread, Alive
<1>8. Accounted
  <2>1. Living = {} /\ Living \ {thread} = {}
    BY DEF BrowserInit, Living, Alive
  <2>2. Cardinality(Living) = 0 /\ Cardinality(Living \ {thread}) = 0 /\ lost = 0
    BY <2>1, FS_EmptySet DEF BrowserInit
  <2> QED
    BY <2>2, LeakCount DEF Accounted, Paid
<1> QED
  BY <1>4, <1>6, <1>7, <1>8 DEF BrowserInv

LEMMA BrowserStep ==
    ASSUME BrowserInv, [BrowserNext]_bvars
    PROVE  BrowserInv'
<1>1. CASE UNCHANGED bvars
  BY <1>1 DEF bvars, BrowserInv, BrowserTypeInv, OneCommand, Serves, Waits, OwnThread, Alive,
              Current, Accounted, LeakBounded, Living, Paid
<1>2. CASE AtLimit
  BY <1>1, <1>2 DEF AtLimit
<1> QED
  BY <1>1, <1>2, CallerSteps, CallTimesOut, Takes, Finishes DEF BrowserNext

(* VintedBrowser leaves no more threads behind, each with its Chromium, than there were *)
(* calls that ran out of their 55 seconds and launches that failed; for any number of   *)
(* threads.                                                                             *)
THEOREM LeakAlways == BrowserSpec => []LeakBounded
<1>1. BrowserInv => LeakBounded
  BY DEF BrowserInv, Accounted
<1> QED
  BY <1>1, BrowserStart, BrowserStep, PTL DEF BrowserSpec

=============================================================================
