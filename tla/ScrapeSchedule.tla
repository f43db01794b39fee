--------------------------- MODULE ScrapeSchedule ---------------------------
(***************************************************************************)
(* The loop of a brand worker: which target it scrapes next, how long it   *)
(* waits, and how it slips the members' private filters in between         *)
(* (jobs/scrape_workers.py, services/filter_scrape_targets.py).            *)
(*                                                                         *)
(* Time is counted in half seconds.  Each step of the loop carries the     *)
(* time it takes, so the thread is one sequence of steps and no clock runs *)
(* beside it.                                                              *)
(***************************************************************************)
EXTENDS Integers, Sequences, SequencesExt, FiniteSetsExt

CONSTANTS
    Target,      \* the searches of searches.yaml that have a channel and fell to this
                 \* worker; a worker without any is not started (partition_targets)
    Priority,    \* [Target -> {"high", "medium", "low"}]
    Base,        \* [Target -> Nat]: target_poll_interval_seconds
    Never,       \* a target that was not scraped yet
    MaxRevisit,  \* SCRAPE_MAX_REVISIT_SECONDS
    Signal,      \* what a page may tell of its activity (records, see below)
    Took,        \* how long a scrape may take
    FilterLists, \* the lists of filter targets the database may hold
    FewFilters,  \* from this many filters on a batch holds two (6 in the code)
    ManyFilters, \* from this many on it holds three (15)
    InjectEvery, \* private_filter_scrape_interval_seconds
    Faults,      \* what may fail: sets of targets, of filters, and "browser"
    MaxAge,      \* bound: ages are not told apart beyond it
    MaxEdits     \* bound: how often the members change their filters

Filter == UNION {ToSet(fs) : fs \in FilterLists}

ASSUME ScheduleAssumption ==
    /\ MaxRevisit \in Nat \ {0} /\ MaxAge \in Nat /\ MaxAge > MaxRevisit
    /\ IsFiniteSet(Target) /\ Target # {}
    /\ Priority \in [Target -> {"high", "medium", "low"}]
    /\ Base \in [Target -> Nat \ {0}]
    /\ Signal \subseteq [newest : Nat, oldest : Nat, saturated : BOOLEAN, created : Nat]
    /\ Never \notin Signal /\ Never \notin 0 .. MaxAge
    /\ IsFiniteSet(Took) /\ Took # {} /\ Took \subseteq Nat \ {0}
    /\ FilterLists \subseteq Seq(Filter)
    /\ FewFilters \in Nat \ {0} /\ ManyFilters \in Nat \ {0}
    /\ InjectEvery \in Nat \ {0}

VARIABLES
    next,      \* _next_run, as the time left (negative: overdue)
    since,     \* time since _last_scrape_at
    activity,  \* _target_activity: the signal of the last scrape, or Never
    pc,        \* where the loop is
    timer,     \* time left to _next_filter_inject_at
    filters,   \* FilterTargetRotator._targets
    idx,       \* FilterTargetRotator._idx
    batch,     \* the filters of this injection that are still to scrape
    edits,     \* history: changes of the members' filters
    failing    \* which targets and filters may fail in this behaviour, and
               \* whether "browser" may

svars == <<next, since, activity, pc, timer, filters, idx, batch, edits, failing>>

Sec == 2

Smaller(a, b) == IF a < b THEN a ELSE b
Larger(a, b) == IF a > b THEN a ELSE b

-----------------------------------------------------------------------------
(* The choice of a target. *)

\* A page's signal: the ages of its first and last item, whether it is full of
\* new items, and how many of them were new.
Hotness(t) ==
    IF activity[t] = Never THEN 50 * Sec
    ELSE LET s == activity[t]
         IN  Larger(0, 600 * Sec - (s.newest + since[t]))
             + (IF s.saturated THEN Larger(0, 300 * Sec - (s.oldest + since[t])) ELSE 0)
             + s.created * 40 * Sec

\* Twenty times the weight of a priority.
Weight == [high |-> 50, medium |-> 23, low |-> 14]

Score(t) == Larger(0, 0 - next[t]) * Weight[Priority[t]] + 20 * Hotness(t)

\* Mutant: the ceiling is only for targets that were never scraped.
StarvingUnlessScraped == {t \in Target : since[t] = Never}

Starving == {t \in Target : since[t] = Never \/ since[t] >= MaxRevisit}
Due == {t \in Target : next[t] <= 0}

\* A target that was never scraped counts as the oldest of all.
Age(t) == IF since[t] = Never THEN MaxAge + 1 ELSE since[t]

MostStarved ==
    {t \in Starving :
        \A u \in Starving \ {t} :
            \/ Age(t) > Age(u)
            \/ Age(t) = Age(u) /\ Hotness(t) >= Hotness(u)}

BestDue == {t \in Due : \A u \in Due : Score(t) >= Score(u)}

\* _pick_due_target; equals are broken at random or by hash.
Picks == IF Starving # {} THEN MostStarved ELSE BestDue

\* Mutant: the wait looks at the plan of the targets, and not at the ceiling.
UntilPlanned == Larger(1, Min({next[t] : t \in Target}))

\* _seconds_until_next, for a worker that has nothing to do.
UntilNext ==
    Larger(1, Min({next[t] : t \in Target}
                  \cup {MaxRevisit - since[t] : t \in {u \in Target : since[u] # Never}}))

\* _adaptive_poll_interval
Adapted(t, s) ==
    CASE s.saturated /\ s.oldest < 30 * Sec -> Smaller(Base[t], 3 * Sec)
      [] s.saturated /\ s.oldest \in 30 * Sec .. (90 * Sec) - 1 ->
            Smaller(Base[t], Larger(4 * Sec, Base[t] \div 2))
      [] ~s.saturated /\ s.newest > 900 * Sec ->
            Smaller((3 * Base[t]) \div 2, Base[t] + 30 * Sec)
      [] OTHER -> Base[t]

-----------------------------------------------------------------------------
(* Time. *)

Older(d) ==
    [t \in Target |-> IF since[t] = Never THEN Never ELSE Smaller(MaxAge, since[t] + d)]

Nearer(d) == [t \in Target |-> Larger(0 - MaxRevisit, next[t] - d)]

ScheduleInit ==
    /\ next = [t \in Target |-> 0]
    /\ since = [t \in Target |-> Never]
    /\ activity = [t \in Target |-> Never]
    /\ pc = "pick"
    /\ timer = 0
    /\ filters \in FilterLists
    /\ idx = 0
    /\ batch = <<>>
    /\ edits = 0
    /\ failing \in Faults

\* Nothing is due: the worker waits, two seconds at most, and looks again.
NothingDue ==
    /\ pc = "pick"
    /\ Picks = {}
    /\ LET d == Smaller(UntilNext, 2 * Sec)
       IN  /\ next' = Nearer(d)
           /\ since' = Older(d)
           /\ timer' = Larger(0, timer - d)
    /\ UNCHANGED <<activity, pc, filters, idx, batch, edits, failing>>

TargetOk(t, s, d) ==
    /\ pc = "pick"
    /\ t \in Picks
    /\ since' = [Older(d) EXCEPT ![t] = 0]
    /\ activity' = [activity EXCEPT ![t] = s]
    /\ next' = [Nearer(d) EXCEPT ![t] = Adapted(t, s)]
    /\ timer' = Larger(0, timer - d)
    /\ pc' = "inject"
    /\ UNCHANGED <<filters, idx, batch, edits, failing>>

\* The scrape raised: the target is put off like any other, but it is no
\* younger for it.
TargetFails(t, d) ==
    /\ pc = "pick"
    /\ t \in failing
    /\ t \in Picks
    /\ since' = Older(d)
    /\ next' = [Nearer(d) EXCEPT ![t] = Base[t]]
    /\ timer' = Larger(0, timer - d)
    /\ pc' = "inject"
    /\ UNCHANGED <<activity, filters, idx, batch, edits, failing>>

\* The browser does not come back after a failure, or not at all: the loop
\* starts over and the target is not even put off.
BrowserLost(d) ==
    /\ pc = "pick"
    /\ "browser" \in failing
    /\ since' = Older(d)
    /\ next' = Nearer(d)
    /\ timer' = Larger(0, timer - d)
    /\ UNCHANGED <<activity, pc, filters, idx, batch, edits, failing>>

-----------------------------------------------------------------------------
(* Private filters, between two scrapes of brands. *)

BatchSize(n) ==
    CASE n = 0 -> 0
      [] n >= ManyFilters -> Smaller(3, n)
      [] n >= FewFilters /\ n < ManyFilters -> Smaller(2, n)
      [] OTHER -> 1

\* Mutant: the turn forgets to advance within a batch.
TurnStuck(fs, i, n) == [k \in 1 .. n |-> fs[(i % Len(fs)) + 1]]

\* next_batch: n filters from position i on, round robin.
Turn(fs, i, n) == [k \in 1 .. n |-> fs[((i + k - 1) % Len(fs)) + 1]]

\* The rotator reads the active filters again when its list is twenty seconds
\* old: the position is kept unless the list became too short.
Refresh(fs) ==
    /\ filters' = fs
    /\ edits' = IF fs = filters THEN edits ELSE edits + 1
    /\ edits' <= MaxEdits

StartInjection ==
    /\ pc = "inject"
    /\ timer = 0
    /\ \E fs \in FilterLists :
         /\ Refresh(fs)
         /\ LET i == IF idx >= Len(fs) THEN 0 ELSE idx
                n == BatchSize(Len(fs))
            IN  IF n = 0
                THEN /\ idx' = i
                     /\ timer' = InjectEvery
                     /\ pc' = "pick"
                     /\ UNCHANGED batch
                ELSE /\ idx' = (i + n) % Len(fs)
                     /\ batch' = Turn(fs, i, n)
                     /\ pc' = "batch"
                     /\ UNCHANGED timer
    /\ UNCHANGED <<next, since, activity, failing>>

TooEarly ==
    /\ pc = "inject"
    /\ timer > 0
    /\ pc' = "pick"
    /\ UNCHANGED <<next, since, activity, timer, filters, idx, batch, edits, failing>>

FilterOk(d) ==
    /\ pc = "batch"
    /\ batch' = Tail(batch)
    /\ next' = Nearer(d)
    /\ since' = Older(d)
    /\ IF Len(batch) = 1
       THEN pc' = "pick" /\ timer' = InjectEvery
       ELSE UNCHANGED <<pc, timer>>
    /\ UNCHANGED <<activity, filters, idx, edits, failing>>

\* The scrape of the filter failed, and again with a new browser, or there is no
\* browser: what is left of the batch is dropped, though the turn has passed it,
\* and the next injection is not put off.
FilterFails(d) ==
    /\ pc = "batch"
    /\ {Head(batch), "browser"} \cap failing # {}
    /\ batch' = <<>>
    /\ next' = Nearer(d)
    /\ since' = Older(d)
    /\ pc' = "pick"
    /\ UNCHANGED <<activity, timer, filters, idx, edits, failing>>

-----------------------------------------------------------------------------
FilterStep ==
    \/ StartInjection
    \/ TooEarly
    \/ \E d \in Took : FilterOk(d) \/ FilterFails(d)

ScheduleNext ==
    \/ NothingDue
    \/ \E t \in Target, d \in Took :
          \/ \E s \in Signal : TargetOk(t, s, d)
          \/ TargetFails(t, d)
    \/ \E d \in Took : BrowserLost(d)
    \/ FilterStep

ScheduleSpec == ScheduleInit /\ [][ScheduleNext]_svars

\* The thread goes on; nothing says that what fails works some day.
ScheduleFairness == WF_svars(ScheduleNext)

-----------------------------------------------------------------------------
(* What should hold. *)

ScheduleTypeOK ==
    /\ next \in [Target -> Int]
    /\ since \in [Target -> (0 .. MaxAge) \cup {Never}]
    /\ activity \in [Target -> Signal \cup {Never}]
    /\ pc \in {"pick", "inject", "batch"}
    /\ timer \in 0 .. InjectEvery
    /\ filters \in FilterLists
    /\ idx \in Nat /\ (idx = 0 \/ idx < Len(filters))
    /\ batch \in Seq(ToSet(filters))
    /\ (pc = "batch") = (batch # <<>>)

\* The time a round over all the targets may take, the filters in between
\* included.
Round == Cardinality(Target) * 4 * Max(Took)

\* "A hard ceiling between two scrapes of a brand" (config.py:203): a target
\* whose scrapes work, and whose worker's browser and filters do, is never left
\* longer than the ceiling and one round, whatever the other targets do.
HardCeiling ==
    \A t \in Target :
        (({t, "browser"} \cup Filter) \cap failing = {} /\ since[t] # Never)
            => since[t] <= MaxRevisit + Round

\* The same where nothing fails: the priorities, the hotness and the injected
\* filters together keep no target waiting longer.
CeilingKept == (failing = {}) => HardCeiling

\* A worker that has nothing to do wakes up in time for the first target that
\* will be due, and for the first one that reaches the ceiling.
NoOversleep ==
    [][NothingDue => \A t \in Target :
                  /\ next'[t] >= 0
                  /\ since'[t] # Never => since'[t] <= MaxRevisit]_svars

\* A scrape of f that works, and a batch that is dropped with f still to come.
FilterServed(f) == Len(batch) > 0 /\ Head(batch) = f /\ \E d \in Took : FilterOk(d)

FilterSwallowed(f) == Len(batch) > 0 /\ f \in ToSet(Tail(batch)) /\ \E d \in Took : FilterFails(d)

\* The turn always cuts the list at the same places.
SameBatches ==
    LET n == BatchSize(Len(filters)) IN n > 1 /\ Len(filters) % n = 0

\* A private filter that stays in the rotation, and whose own scrapes work, is
\* scraped again and again, though other filters fail for ever: unless the size
\* of a batch divides the number of filters, and the one before it in its batch
\* is one that fails.
FiltersServed ==
    \A f \in Filter :
        <>[](f \in ToSet(filters) /\ {f, "browser"} \cap failing = {})
            => \/ []<><<FilterServed(f)>>_svars
               \/ <>[]SameBatches /\ []<><<FilterSwallowed(f)>>_svars

=============================================================================
