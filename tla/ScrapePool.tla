----------------------------- MODULE ScrapePool -----------------------------
(***************************************************************************)
(* The permanent scrape pool (run_permanent_scrape_pool and BrandWorker in *)
(* jobs/scrape_workers.py): one brand worker, a thread with a Chromium of  *)
(* its own, and the supervisor that replaces a worker that died or that    *)
(* has shown no activity for fifteen minutes.  A stopped worker is joined  *)
(* for twenty seconds and then left to itself, so it may go on beside its  *)
(* successor; both it and the supervisor close and forget its browser.  A  *)
(* call to a browser is given up after 55 seconds, its closing too, and    *)
(* then its Chromium may live on while the next one is launched.           *)
(***************************************************************************)
EXTENDS Naturals, FiniteSetsExt

CONSTANTS
    Worker,   \* 1 .. n: the BrandWorker objects, in the order they are made
    Browser,  \* 1 .. m: VintedBrowser objects
    NoBrowser,
    MaxHangs, \* bound: how often a scrape hangs
    MaxTimeouts \* bound: how often a call to a browser times out

ASSUME PoolAssumption ==
    /\ IsFiniteSet(Worker) /\ Worker = 1 .. Cardinality(Worker) /\ Worker # {}
    /\ NoBrowser \notin Browser /\ MaxHangs \in Nat /\ MaxTimeouts \in Nat

VARIABLES
    at,       \* [Worker -> where the thread of the worker is]
    goal,     \* [Worker -> what it scrapes or will: "brand", "filter", "retry", "none"]
    ref,      \* [Worker -> _browser]
    mine,     \* [Worker -> the browser given to the scrape at hand]
    stop,     \* the workers whose _stop is set
    quiet,    \* the workers with no activity for more than 900 seconds
    up,       \* the browsers with a live Chromium
    stray,    \* how many Chromium processes live on without a browser object
    current,  \* the worker the supervisor looks after
    sup,      \* where the supervisor is
    closing,  \* the browser the supervisor is closing
    late,     \* history: [Worker -> scrapes begun after the stop]
    hangs,    \* history: scrapes that hung
    timeouts  \* history: calls to a browser that timed out

pvars == <<at, goal, ref, mine, stop, quiet, up, stray, current, sup, closing, late, hangs,
           timeouts>>

\* Where a thread may be.  "ensure" and "launch" are _ensure_browser.
Busy == {"top", "ensure", "launch", "scrape", "hung", "reopen", "failed",
         "sleep", "last"}
Gone == {"done", "dead"}

PoolInit ==
    /\ at = [w \in Worker |-> IF w = 1 THEN "top" ELSE "unborn"]
    /\ goal = [w \in Worker |-> "none"]
    /\ ref = [w \in Worker |-> NoBrowser]
    /\ mine = [w \in Worker |-> NoBrowser]
    /\ stop = {} /\ quiet = {} /\ up = {}
    /\ current = 1
    /\ sup = "watch"
    /\ closing = NoBrowser
    /\ late = [w \in Worker |-> 0]
    /\ hangs = 0 /\ stray = 0 /\ timeouts = 0

Go(w, pc) == at' = [at EXCEPT ![w] = pc]

\* _close_browser, by the worker itself; TimesOut is what may come before.
CloseBrowser(w) ==
    /\ up' = up \ {ref[w]}
    /\ ref' = [ref EXCEPT ![w] = NoBrowser]

\* Bound: the last worker of the instance neither dies nor hangs.
Replaceable(w) == w + 1 \in Worker

Supervising == <<current, sup, closing>>
Strays == <<stray, timeouts>>

-----------------------------------------------------------------------------
(* The thread of a worker (_run). *)

\* Mutant: the loop does not look at _stop.
TopAlways(w) ==
    /\ at[w] = "top"
    /\ Go(w, "ensure")
    /\ goal' = [goal EXCEPT ![w] = "brand"]
    /\ UNCHANGED <<ref, mine, stop, quiet, up, late, hangs, Supervising, Strays>>

\* The test of the loop, and the planned pause between two bursts, for which
\* the browser is closed.
Top(w) ==
    /\ at[w] = "top"
    /\ Go(w, IF w \in stop THEN "last" ELSE "ensure")
    /\ goal' = [goal EXCEPT ![w] = "brand"]
    /\ UNCHANGED <<ref, mine, stop, quiet, up, late, hangs, Supervising, Strays>>

BurstOff(w) ==
    /\ at[w] = "top" /\ w \notin stop
    /\ ref[w] # NoBrowser
    /\ CloseBrowser(w)
    /\ UNCHANGED <<at, goal, mine, stop, quiet, late, hangs, Supervising, Strays>>

\* Reading the settings for the pause is outside of the try block.
Dies(w) ==
    /\ at[w] = "top" /\ w \notin stop
    /\ Replaceable(w)
    /\ Go(w, "dead")
    /\ UNCHANGED <<goal, ref, mine, stop, quiet, up, late, hangs, Supervising, Strays>>

\* A browser whose thread lives is good enough; else it is closed and a new one
\* takes its place, in the attribute first.
Spare == Browser \ (up \cup {ref[w] : w \in Worker} \cup {mine[w] : w \in Worker} \cup {closing})

Ensure(w) ==
    /\ at[w] = "ensure"
    /\ IF ref[w] \in up
       THEN /\ mine' = [mine EXCEPT ![w] = ref[w]]
            /\ Go(w, "scrape")
            /\ UNCHANGED <<ref, up>>
       ELSE /\ Spare # {}
            /\ ref' = [ref EXCEPT ![w] = Min(Spare)]
            /\ up' = up \cup {Min(Spare)}
            /\ Go(w, "launch")
            /\ UNCHANGED mine
    /\ UNCHANGED <<goal, stop, quiet, late, hangs, Supervising, Strays>>

\* start() and warm_up() went well: what is returned is read from the attribute
\* again.
Launched(w) ==
    /\ at[w] = "launch"
    /\ mine' = [mine EXCEPT ![w] = ref[w]]
    /\ Go(w, "scrape")
    /\ UNCHANGED <<goal, ref, stop, quiet, up, late, hangs, Supervising, Strays>>

\* start() failed: the browser is forgotten, and the cycle, or the injection of
\* the filters, has failed.  What start() had launched it closed again, unless
\* it timed out.
NotLaunched(w) ==
    /\ at[w] = "launch"
    /\ CloseBrowser(w)
    /\ goal' = [goal EXCEPT ![w] = "none"]
    /\ Go(w, "failed")
    /\ UNCHANGED <<mine, stop, quiet, late, hangs, Supervising, Strays>>

\* Each search of a stopped browser starts it again.  A scrape that was given
\* none has one of its own, as long as it lasts.
Searches(w) ==
    /\ at[w] = "scrape"
    /\ w \in stop => goal[w] # "filter"
    /\ up' = (up \cup {mine[w]}) \ {NoBrowser}
    /\ late' = IF w \in stop THEN [late EXCEPT ![w] = @ + 1] ELSE late

\* After the scrape of a brand come the filters: the browser is ensured before
\* the stop is read.
Drop(w) == mine' = [mine EXCEPT ![w] = NoBrowser]

Scraped(w) ==
    /\ Drop(w)
    /\ IF goal[w] = "brand"
       THEN Go(w, "ensure") /\ goal' = [goal EXCEPT ![w] = "filter"]
       ELSE Go(w, "top") /\ UNCHANGED goal

\* A filter is tried a second time, with a new browser and whatever _stop says.
NotScraped(w) ==
    /\ Drop(w)
    /\ IF goal[w] = "filter"
       THEN Go(w, "reopen") /\ goal' = [goal EXCEPT ![w] = "retry"]
       ELSE Go(w, "failed") /\ UNCHANGED goal

ScrapeOk(w) ==
    /\ Searches(w)
    /\ Scraped(w)
    /\ UNCHANGED <<ref, stop, quiet, hangs, Supervising, Strays>>

ScrapeFails(w) ==
    /\ Searches(w)
    /\ NotScraped(w)
    /\ UNCHANGED <<ref, stop, quiet, hangs, Supervising, Strays>>

\* The database or Discord does not answer once the page is there, and after
\* fifteen minutes the supervisor may notice.
Hangs(w) ==
    /\ hangs < MaxHangs /\ Replaceable(w)
    /\ Searches(w)
    /\ hangs' = hangs + 1
    /\ Go(w, "hung")
    /\ UNCHANGED <<goal, ref, mine, stop, quiet, Supervising, Strays>>

Quiet(w) ==
    /\ at[w] = "hung"
    /\ quiet' = quiet \cup {w}
    /\ UNCHANGED <<at, goal, ref, mine, stop, up, late, hangs, Supervising, Strays>>

Resumes(w) ==
    /\ at[w] = "hung"
    /\ quiet' = quiet \ {w}
    /\ Scraped(w) \/ NotScraped(w)
    /\ UNCHANGED <<ref, stop, up, late, hangs, Supervising, Strays>>

Reopen(w) ==
    /\ at[w] = "reopen"
    /\ CloseBrowser(w)
    /\ Go(w, "ensure")
    /\ UNCHANGED <<goal, mine, stop, quiet, late, hangs, Supervising, Strays>>

\* No filter is due, the batch is over, or the worker was stopped.
NoFilters(w) ==
    /\ at[w] = "scrape" /\ goal[w] = "filter"
    /\ Drop(w)
    /\ Go(w, "top")
    /\ UNCHANGED <<goal, ref, stop, quiet, up, late, hangs, Supervising, Strays>>

\* Mutant: the browser is forgotten without being closed.
FailedOpen(w) ==
    /\ at[w] = "failed"
    /\ ref' = [ref EXCEPT ![w] = NoBrowser]
    /\ Go(w, "sleep")
    /\ UNCHANGED <<goal, mine, stop, quiet, up, late, hangs, Supervising, Strays>>

\* The browser is closed; the recovery sleep, which a stop cuts short, counts as
\* activity.  After a brand the loop goes on to the filters.
Failed(w) ==
    /\ at[w] = "failed"
    /\ CloseBrowser(w)
    /\ Go(w, "sleep")
    /\ UNCHANGED <<goal, mine, stop, quiet, late, hangs, Supervising, Strays>>

Slept(w) ==
    /\ at[w] = "sleep"
    /\ Scraped(w)
    /\ UNCHANGED <<ref, stop, quiet, up, late, hangs, Supervising, Strays>>

Ends(w) ==
    /\ at[w] = "last"
    /\ CloseBrowser(w)
    /\ Go(w, "done")
    /\ UNCHANGED <<goal, mine, stop, quiet, late, hangs, Supervising, Strays>>

-----------------------------------------------------------------------------
(* The supervisor. *)

\* A worker that is dead, or that is alive and quiet (one that sleeps is not).
Ill == at[current] = "dead" \/ current \in quiet

\* Mutant: only a worker that died is replaced.
CondemnDead ==
    /\ sup = "watch"
    /\ at[current] = "dead"
    /\ stop' = stop \cup {current}
    /\ closing' = ref[current]
    /\ sup' = IF ref[current] = NoBrowser THEN "join" ELSE "close"
    /\ UNCHANGED <<goal, at, ref, mine, quiet, up, current, late, hangs, Strays>>

Condemn ==
    /\ sup = "watch"
    /\ Ill
    /\ stop' = stop \cup {current}
    /\ closing' = ref[current]
    /\ sup' = IF ref[current] = NoBrowser THEN "join" ELSE "close"
    /\ UNCHANGED <<goal, at, ref, mine, quiet, up, current, late, hangs, Strays>>

\* stop() of the browser takes a minute at worst, and swallows a timeout; only
\* then is it forgotten, whatever the attribute holds by now.
CloseIt ==
    /\ sup = "close"
    /\ up' = up \ {closing}
    /\ sup' = "forget"
    /\ UNCHANGED <<goal, at, ref, mine, stop, quiet, current, closing, late, hangs, Strays>>

ForgetIt ==
    /\ sup = "forget"
    /\ ref' = [ref EXCEPT ![current] = NoBrowser]
    /\ closing' = NoBrowser
    /\ sup' = "join"
    /\ UNCHANGED <<goal, at, mine, stop, quiet, up, current, late, hangs, Strays>>

\* The join waits twenty seconds; the successor starts whether or not the
\* thread has ended.
Replace ==
    /\ sup = "join"
    /\ current' = current + 1
    /\ at' = [at EXCEPT ![current + 1] = "top"]
    /\ sup' = "watch"
    /\ UNCHANGED <<goal, ref, mine, stop, quiet, up, closing, late, hangs, Strays>>

-----------------------------------------------------------------------------
(* Calls that time out. *)

\* The browser a call may be under way to: a pause, a recycling, a launch or a
\* warm-up, the searches of a scrape, a failure, the end.  A search that finds
\* its browser without a thread starts it again, and may time out again.
Called(w) ==
    CASE at[w] \in {"top", "launch", "reopen", "failed", "last"} -> {ref[w]} \cap up
      [] at[w] = "scrape" -> {mine[w]} \ {NoBrowser}
      [] OTHER -> {}

CalledOff == IF sup = "close" THEN {closing} \cap up ELSE {}

\* force_stop: the thread of the object is abandoned with its Chromium, which is
\* counted from here on though a launch may bring it up later.  What the caller
\* does about the TimeoutError are the steps of a failure, or of a close that
\* finds nothing to close.
TimesOut ==
    /\ timeouts < MaxTimeouts
    /\ \E b \in CalledOff \cup UNION {Called(w) : w \in Worker} : up' = up \ {b}
    /\ stray' = stray + 1
    /\ timeouts' = timeouts + 1
    /\ UNCHANGED <<at, goal, ref, mine, stop, quiet, late, hangs, Supervising>>

\* The thread comes back and finds the command to close, or the process died.
Reaped ==
    /\ stray > 0
    /\ stray' = stray - 1
    /\ UNCHANGED <<at, goal, ref, mine, stop, quiet, up, late, hangs, timeouts, Supervising>>

-----------------------------------------------------------------------------
WorkerStep(w) ==
    \/ Top(w) \/ BurstOff(w)
    \/ Ensure(w) \/ Launched(w) \/ NotLaunched(w)
    \/ ScrapeOk(w) \/ ScrapeFails(w) \/ NoFilters(w) \/ Reopen(w)
    \/ Failed(w) \/ Slept(w) \/ Ends(w)

Supervisor == Condemn \/ CloseIt \/ ForgetIt \/ Replace

PoolNext ==
    \/ \E w \in Worker : WorkerStep(w) \/ Dies(w) \/ Hangs(w) \/ Quiet(w) \/ Resumes(w)
    \/ Supervisor \/ TimesOut \/ Reaped

PoolSpec == PoolInit /\ [][PoolNext]_pvars

\* Threads run, and the supervisor has its turn; nothing says that a scrape that
\* hangs ever ends.  Time goes on meanwhile.
PoolFairness ==
    /\ \A w \in Worker : WF_pvars(WorkerStep(w)) /\ WF_pvars(Quiet(w))
    /\ WF_pvars(Supervisor)

-----------------------------------------------------------------------------
PoolTypeOK ==
    /\ at \in [Worker -> Busy \cup Gone \cup {"unborn"}]
    /\ goal \in [Worker -> {"brand", "filter", "retry", "none"}]
    /\ ref \in [Worker -> Browser \cup {NoBrowser}]
    /\ mine \in [Worker -> Browser \cup {NoBrowser}]
    /\ stop \subseteq Worker /\ quiet \subseteq Worker /\ up \subseteq Browser
    /\ current \in Worker
    /\ sup \in {"watch", "close", "forget", "join"}
    /\ closing \in Browser \cup {NoBrowser}
    /\ late \in [Worker -> Nat] /\ hangs \in 0 .. MaxHangs
    /\ timeouts \in 0 .. MaxTimeouts /\ stray \in 0 .. timeouts

\* "1 Chromium brand = stable; 2+ -> OOM" (scrape_workers.py:1178).  Only a call
\* that timed out, one for each, leaves a Chromium beside the worker's, as long as
\* no scrape hangs for fifteen minutes: deaths, failures, pauses, recycling and
\* replacements do not, in whatever order they meet the timeouts.
OneChromiumUnlessLost == hangs = 0 => Cardinality(up) + stray <= 1 + timeouts

\* A worker that was told to stop begins one more scrape at most, so for as long
\* as the targets of its successor are scraped twice.
StoppedScrapesOnce == \A w \in Worker : late[w] <= 1

\* A pool whose worker died or fell silent has a working one again.
PoolRecovers == Ill ~> ~Ill

=============================================================================
