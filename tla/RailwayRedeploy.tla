-------------------------- MODULE RailwayRedeploy --------------------------
(***************************************************************************)
(* The scraper asks its host for a redeploy, hence for another address,    *)
(* when Vinted keeps blocking it or when it can start no more threads      *)
(* (services/scrape_block_tracker.py, services/railway_redeploy.py).  What *)
(* it counts is kept in a checkpoint, for the redeploy ends the process;   *)
(* so is the time of the last redeploy.                                    *)
(*                                                                         *)
(* Times are ages in ticks of the clock.  No proxy is configured and       *)
(* SCRAPE_AUTO_REDEPLOY_ENABLED is set: otherwise nothing here happens.    *)
(***************************************************************************)
EXTENDS Naturals, Sequences, SequencesExt

CONSTANTS
    Threshold,  \* SCRAPE_403_REDEPLOY_THRESHOLD, SCRAPE_THREAD_REDEPLOY_THRESHOLD
    Window,     \* _RECENT_WINDOW_SECONDS
    Cooldown,   \* SCRAPE_AUTO_REDEPLOY_COOLDOWN_SECONDS
    MaxFaults   \* bound: how often the database fails

ASSUME RedeployAssumption ==
    /\ Threshold \in Nat \ {0} /\ Window \in Nat /\ Cooldown \in Nat \ {0}
    /\ MaxFaults \in Nat

VARIABLES
    tracker,   \* the counters in memory: blocked pages and thread limits
    saved,     \* the checkpoint of the tracker; thread limits are not in it
    last,      \* the checkpoint of the last redeploy: its age, at most Cooldown;
               \* none at all is as good as an old one
    sinceRedeploy, \* history: the age of the last redeploy that was accepted
    faults     \* history: failures of the database

rvars == <<tracker, saved, last, sinceRedeploy, faults>>

\* A counter: failures since the last success, at most Threshold of them, and
\* the ages of the recent ones.
Zero == [row |-> 0, recent |-> <<>>]

AtMost(n, m) == IF n < m THEN n ELSE m

Counted(c) ==
    LET recent == Append(c.recent, 0)
    IN  [row |-> AtMost(c.row + 1, Threshold),
         recent |-> IF Len(recent) > Threshold THEN Tail(recent) ELSE recent]

Reset(c) == [c EXCEPT !.row = 0]

Aged(c) ==
    [c EXCEPT !.recent = SelectSeq([i \in DOMAIN @ |-> @[i] + 1], LAMBDA a : a <= Window)]

Reached(c) == c.row >= Threshold \/ Len(c.recent) >= Threshold

RedeployInit ==
    /\ tracker = [blocked |-> Zero, threads |-> Zero]
    /\ saved = Zero
    /\ last = Cooldown
    /\ sinceRedeploy = Cooldown
    /\ faults = 0

Fault == faults < MaxFaults /\ faults' = faults + 1
NoFault == UNCHANGED faults

-----------------------------------------------------------------------------
\* Each page that was blocked, and each that was not, is written to the
\* checkpoint; a failure to write it goes unnoticed.
Persist == \/ NoFault /\ saved' = tracker'.blocked
           \/ Fault /\ UNCHANGED saved

CatalogBlocked ==
    /\ tracker' = [tracker EXCEPT !.blocked = Counted(@)]
    /\ Persist
    /\ UNCHANGED <<last, sinceRedeploy>>

CatalogSuccess ==
    /\ tracker' = [tracker EXCEPT !.blocked = Reset(@)]
    /\ Persist
    /\ UNCHANGED <<last, sinceRedeploy>>

ThreadLimit ==
    /\ tracker' = [tracker EXCEPT !.threads = Counted(@)]
    /\ UNCHANGED <<saved, last, sinceRedeploy, faults>>

\* A brand was scraped.
CycleSuccess ==
    /\ tracker' = [tracker EXCEPT !.threads = Reset(@)]
    /\ UNCHANGED <<saved, last, sinceRedeploy, faults>>

\* redeploy_cooldown_remaining: a checkpoint that cannot be read is as good as
\* none.
Cooled == \/ NoFault /\ last >= Cooldown
          \/ Fault

\* Mutant: the time of the redeploy is not stored.
RedeployUndated ==
    /\ Reached(tracker.threads) \/ Reached(tracker.blocked)
    /\ Cooled
    /\ sinceRedeploy' = 0
    /\ UNCHANGED <<tracker, saved, last>>

\* The supervisor's check, every twenty seconds.  The host accepts; the process
\* lives on until it is replaced.
Redeploy ==
    /\ Reached(tracker.threads) \/ Reached(tracker.blocked)
    /\ Cooled
    /\ sinceRedeploy' = 0
    /\ last' = 0
    /\ UNCHANGED <<tracker, saved>>

\* The host accepted, but the time of the redeploy could not be stored.
RedeployUnsaved ==
    /\ Reached(tracker.threads) \/ Reached(tracker.blocked)
    /\ last >= Cooldown
    /\ Fault
    /\ sinceRedeploy' = 0
    /\ UNCHANGED <<tracker, saved, last>>

\* Mutant: the next process starts from zero.
RestartFromZero ==
    /\ NoFault
    /\ tracker' = [blocked |-> Zero, threads |-> Zero]
    /\ UNCHANGED <<saved, last, sinceRedeploy>>

\* The process ends, for a redeploy or for any other reason, and the next one
\* reads the checkpoint.
Restart ==
    /\ \/ NoFault /\ tracker' = [blocked |-> saved, threads |-> Zero]
       \/ Fault /\ tracker' = [blocked |-> Zero, threads |-> Zero]
    /\ UNCHANGED <<saved, last, sinceRedeploy>>

Staler(age) == AtMost(age + 1, Cooldown)

Tick ==
    /\ tracker' = [c \in DOMAIN tracker |-> Aged(tracker[c])]
    /\ saved' = Aged(saved)
    /\ last' = Staler(last)
    /\ sinceRedeploy' = Staler(sinceRedeploy)
    /\ UNCHANGED faults

RedeployNext ==
    \/ CatalogBlocked \/ CatalogSuccess \/ ThreadLimit \/ CycleSuccess
    \/ Redeploy \/ RedeployUnsaved \/ Restart \/ Tick

RedeploySpec == RedeployInit /\ [][RedeployNext]_rvars

\* Time goes on, and a host that is asked again and again accepts some day.
RedeployFairness == WF_rvars(Tick) /\ SF_rvars(Redeploy)

-----------------------------------------------------------------------------
Counter == [row : 0 .. Threshold, recent : Seq(0 .. Window)]

RedeployTypeOK ==
    /\ tracker \in [blocked : Counter, threads : Counter]
    /\ saved \in Counter
    /\ last \in 0 .. Cooldown
    /\ sinceRedeploy \in 0 .. Cooldown
    /\ faults \in 0 .. MaxFaults

\* While the database works, two redeploys are at least a cooldown apart,
\* whatever became of the process in between.
RedeploysSpaced ==
    [][(Redeploy \/ RedeployUnsaved) /\ faults' = 0
          => sinceRedeploy >= Cooldown]_rvars

\* A scraper that is blocked for good asks for a redeploy again and again, even
\* if it is restarted all the time.
RedeploysEventually ==
    ([]<><<CatalogBlocked>>_rvars /\ <>[][~CatalogSuccess]_rvars) => []<><<Redeploy>>_rvars
=============================================================================
