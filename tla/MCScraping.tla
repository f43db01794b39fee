----------------------------- MODULE MCScraping -----------------------------
(***************************************************************************)
(* Small instances of the four parts of the scraping: the schedule and the *)
(* browser of a worker, the pool of workers, and the redeploys that their  *)
(* supervisor asks for.  The four share no state in the models, so one run *)
(* checks them side by side: a behaviour is one of a single part, and the  *)
(* variables of the others are parked, in states in which nothing that     *)
(* must happen is enabled.                                                 *)
(***************************************************************************)
EXTENDS ScrapeSchedule, VintedBrowser, ScrapePool, RailwayRedeploy

CONSTANTS hi, lo, f1, f2, f3

VARIABLE part  \* the part a behaviour is about

MCPriority == [t \in Target |-> IF t = hi THEN "high" ELSE "low"]
MCBase == [t \in Target |-> IF t = hi THEN 4 ELSE 12]

\* A page full of new items, and one with nothing new.
MCSignal == {[newest |-> 10, oldest |-> 40, saturated |-> TRUE, created |-> 2],
             [newest |-> 2000, oldest |-> 3000, saturated |-> FALSE, created |-> 0]}

MCFilterLists == {<<>>, <<f1>>, <<f1, f2>>, <<f1, f2, f3>>}
MCNoFilters == {<<>>}
MCOneTargetFails == {{lo}}
MCFaults == {{}, {f1}, {lo, f2, "browser"}}

ScheduleParked ==
    /\ next = [t \in Target |-> 0] /\ since = [t \in Target |-> 0]
    /\ activity = [t \in Target |-> Never]
    /\ pc = "parked" /\ timer = 0 /\ filters = <<>> /\ idx = 0 /\ batch = <<>>
    /\ edits = 0 /\ failing = {}

BrowserParked ==
    /\ thread = NoThread /\ life = [t \in Thread |-> "unborn"]
    /\ on = [t \in Thread |-> 1] /\ job = [t \in Thread |-> Quit]
    /\ queue = << <<>> >> /\ handles = NoThread /\ cooldown = "none"
    /\ caller = [Idle EXCEPT !.pc = "parked"] /\ lost = 0

PoolParked ==
    /\ at = [w \in Worker |-> "unborn"] /\ goal = [w \in Worker |-> "none"]
    /\ ref = [w \in Worker |-> NoBrowser] /\ mine = [w \in Worker |-> NoBrowser]
    /\ stop = {} /\ quiet = {} /\ up = {} /\ current = 1 /\ sup = "watch"
    /\ closing = NoBrowser /\ late = [w \in Worker |-> 0] /\ hangs = 0
    /\ stray = 0 /\ timeouts = 0

Part(p, i, parked) == IF part = p THEN i ELSE parked

ScrapingInit ==
    /\ part \in {"schedule", "browser", "pool", "redeploy"}
    /\ Part("schedule", ScheduleInit, ScheduleParked)
    /\ Part("browser", BrowserInit, BrowserParked)
    /\ Part("pool", PoolInit, PoolParked)
    /\ RedeployInit

ScrapingNext ==
    /\ UNCHANGED part
    /\ \/ part = "schedule" /\ ScheduleNext /\ UNCHANGED <<bvars, pvars, rvars>>
       \/ part = "browser" /\ BrowserNext /\ UNCHANGED <<svars, pvars, rvars>>
       \/ part = "pool" /\ PoolNext /\ UNCHANGED <<svars, bvars, rvars>>
       \/ part = "redeploy" /\ RedeployNext /\ UNCHANGED <<svars, bvars, pvars>>

ScrapingSpec ==
    /\ ScrapingInit
    /\ [][ScrapingNext]_<<part, svars, bvars, pvars, rvars>>
    /\ ScheduleFairness /\ BrowserFairness /\ PoolFairness /\ RedeployFairness

=============================================================================
