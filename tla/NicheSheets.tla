----------------------------- MODULE NicheSheets -----------------------------
(***************************************************************************)
(* The product sheets (services/niche_product_sheets.py), beside the       *)
(* detector: one process takes the best niche that the detector posted,    *)
(* develops it with scrapes of its own, builds a sheet of photographs of   *)
(* several sellers and posts it, at most one an hour and never two of one  *)
(* niche.  A niche that fails is left alone for thirty days.  The two run  *)
(* as separate services or, in the role niches, in turn, and share the     *)
(* records of the detector.                                                *)
(*                                                                         *)
(* The preflight of the sheet rejects nothing that the choice has let      *)
(* through with the same snapshot, and is part of the choice.              *)
(***************************************************************************)
EXTENDS NicheDetector

CONSTANTS
    MinOpportunity,  \* MIN_OPPORTUNITY_SCORE, below which a score is weak
    InTurn,          \* whether the two take turns: the role niches
    MaxExpire        \* bound: how often a skip runs out

VARIABLES
    fiched,     \* market:fiches:posted_keys
    skipped,    \* market:fiches:skipped_keys
    since,      \* the age of the last sheet in ticks, Hour when it is older or unknown
    spc,        \* where the process of the sheets is
    queue,      \* the candidates that the present choice still looks at
    tried,      \* what this cycle has tried
    developed,  \* whether it has developed a niche
    chosen,     \* the niche of the sheet, None otherwise
    sheets,     \* history: [Niche -> how many sheets of it Discord took]
    unmarked,   \* history: [Niche -> how many of them were not recorded]
    expired     \* how many skips have run out

nvars == <<fiched, skipped, since, spc, queue, tried, developed, chosen,
           sheets, unmarked, expired>>
sheetvars == <<dvars, nvars>>
DetectorOnly == <<live, keys, stamps, best, dpc, pick, posts, lost>>

SheetsInit ==
    /\ DetectorInit
    /\ fiched = {} /\ skipped = {} /\ since = Hour /\ spc = "idle"
    /\ queue = {} /\ tried = {} /\ developed = FALSE /\ chosen = None
    /\ sheets = [k \in Niche |-> 0] /\ unmarked = [k \in Niche |-> 0] /\ expired = 0

SheetsTypeOK ==
    /\ DetectorTypeOK
    /\ fiched \cup skipped \cup queue \cup tried \subseteq Niche
    /\ sheets \in [Niche -> Nat] /\ unmarked \in [Niche -> Nat]
    /\ since \in 0 .. Hour /\ chosen \in Niche \cup {None} /\ developed \in BOOLEAN
    /\ spc \in {"idle", "choose", "scan", "develop", "build", "post", "mark"}

\* The score of the history orders the niches; without one that of the market.
SheetOrder(k) == IF best[k] > 0 THEN best[k] ELSE live[k]
\* Mutant: all that the detector posted.
ValidatedAll == keys

Validated == keys \ fiched

\* A weak score gives way to the best one it was posted with.
SheetScore(k) ==
    IF live[k] \in 1 .. MinOpportunity - 1 /\ best[k] >= PublishScore THEN best[k] ELSE live[k]

\* The end of a cycle, which forgets what it has tried.
EndCycle == spc' = "idle" /\ chosen' = None /\ queue' = {} /\ tried' = {} /\ developed' = FALSE

\* A cycle begins when the last sheet is an hour old.
BeginSheet ==
    /\ spc = "idle" /\ since >= Hour
    /\ spc' = "choose"
    /\ UNCHANGED <<dvars, fiched, skipped, since, queue, tried, developed, chosen, sheets,
                   unmarked, expired>>

LoadCandidates ==
    /\ spc = "choose" /\ spc' = "scan" /\ queue' = Validated \ (skipped \cup tried)
    /\ UNCHANGED <<dvars, fiched, skipped, since, tried, developed, chosen, sheets,
                   unmarked, expired>>

Foremost(k) == k \in queue /\ \A j \in queue : SheetOrder(k) >= SheetOrder(j)

\* Mutant: it is left out of this cycle only.
ScanPass(k) ==
    /\ spc = "scan" /\ Foremost(k) /\ SheetScore(k) < PublishScore
    /\ queue' = queue \ {k}
    /\ UNCHANGED <<dvars, fiched, skipped, since, spc, tried, developed, chosen, sheets,
                   unmarked, expired>>

\* Without a snapshot, with a small sample or a low score it is skipped.
ScanSkip(k) ==
    /\ spc = "scan" /\ Foremost(k) /\ SheetScore(k) < PublishScore
    /\ skipped' = skipped \cup {k} /\ queue' = queue \ {k}
    /\ UNCHANGED <<dvars, fiched, since, spc, tried, developed, chosen, sheets,
                   unmarked, expired>>

ScanTake(k) ==
    /\ spc = "scan" /\ Foremost(k) /\ SheetScore(k) >= PublishScore
    /\ chosen' = k /\ tried' = tried \cup {k} /\ queue' = {}
    /\ spc' = IF developed THEN "build" ELSE "develop"
    /\ UNCHANGED <<dvars, fiched, skipped, since, developed, sheets, unmarked, expired>>

NothingToSheet ==
    /\ spc = "scan" /\ queue = {} /\ EndCycle
    /\ UNCHANGED <<dvars, fiched, skipped, since, sheets, unmarked, expired>>

\* Enough rounds over enough time; the market is computed again in any case.
Develop(enough) ==
    /\ spc = "develop"
    /\ \E f \in [Niche -> LiveScore] : live' = f
    /\ IF enough
       THEN spc' = "build" /\ developed' = TRUE /\ UNCHANGED <<skipped, chosen>>
       ELSE /\ spc' = "choose" /\ skipped' = skipped \cup {chosen} /\ chosen' = None
            /\ UNCHANGED developed
    /\ UNCHANGED <<keys, stamps, best, dpc, pick, posts, lost, faults, fiched, since,
                   queue, tried, sheets, unmarked, expired>>

\* The opportunity of the choice is always a candidate, and its score suffices:
\* the photographs for a mosaic, of six listings at least, alone decide.
Build(mosaic) ==
    /\ spc = "build"
    /\ IF mosaic
       THEN spc' = "post" /\ UNCHANGED <<skipped, chosen>>
       ELSE spc' = "choose" /\ skipped' = skipped \cup {chosen} /\ chosen' = None
    /\ UNCHANGED <<dvars, fiched, since, queue, tried, developed, sheets, unmarked, expired>>

Sheeted == sheets' = [sheets EXCEPT ![chosen] = @ + 1]
Unrecorded == unmarked' = [unmarked EXCEPT ![chosen] = @ + 1]

SheetAccepted ==
    /\ spc = "post" /\ spc' = "mark" /\ Sheeted
    /\ UNCHANGED <<dvars, fiched, skipped, since, queue, tried, developed, chosen,
                   unmarked, expired>>

\* An error ends the cycle; the sheet may be there all the same.
SheetFailed ==
    /\ spc = "post" /\ EndCycle
    /\ \/ UNCHANGED <<sheets, unmarked, faults>>
       \/ Fault /\ Sheeted /\ Unrecorded
    /\ UNCHANGED <<DetectorOnly, fiched, skipped, since, expired>>

MarkFiche ==
    /\ spc = "mark" /\ EndCycle
    /\ fiched' = fiched \cup {chosen} /\ skipped' = skipped \ {chosen} /\ since' = 0
    /\ UNCHANGED <<dvars, sheets, unmarked, expired>>

SheetsCrash ==
    /\ spc # "idle" /\ EndCycle /\ Fault
    /\ IF spc = "mark" THEN Unrecorded ELSE UNCHANGED unmarked
    /\ UNCHANGED <<DetectorOnly, fiched, skipped, since, sheets, expired>>

\* Thirty days later.
SkipExpires(k) ==
    /\ k \in skipped /\ expired < MaxExpire /\ expired' = expired + 1
    /\ skipped' = skipped \ {k}
    /\ UNCHANGED <<dvars, fiched, since, spc, queue, tried, developed, chosen, sheets,
                   unmarked>>

NicheTick ==
    /\ Aged /\ since' = IF since < Hour THEN since + 1 ELSE Hour
    /\ UNCHANGED <<fiched, skipped, spc, queue, tried, developed, chosen, sheets,
                   unmarked, expired>>

SheetStep ==
    \/ BeginSheet \/ LoadCandidates \/ \E k \in Niche : ScanSkip(k) \/ ScanTake(k)
    \/ NothingToSheet \/ \E yes \in BOOLEAN : Develop(yes) \/ Build(yes)
    \/ SheetAccepted \/ SheetFailed \/ MarkFiche \/ SheetsCrash

SheetsNext ==
    \/ (InTurn => spc = "idle") /\ DetectorStep /\ UNCHANGED nvars
    \/ (InTurn => dpc = "idle") /\ SheetStep
    \/ (\E k \in Niche : SkipExpires(k)) \/ NicheTick

SheetsSpec == SheetsInit /\ [][SheetsNext]_sheetvars

\* Time passes, both processes run on between their crashes, and the sheets have
\* their turn again and again; Discord takes a sheet that is tried again and again.
SheetsFairness ==
    /\ WF_sheetvars(NicheTick)
    /\ WF_sheetvars(dpc # "idle" /\ DetectorStep /\ UNCHANGED nvars)
    /\ WF_sheetvars(spc # "idle" /\ SheetStep)
    /\ SF_sheetvars(dpc = "idle" /\ BeginSheet) /\ SF_sheetvars(SheetAccepted)

-----------------------------------------------------------------------------
(* Properties *)

\* No niche has two sheets, unless one was posted and not recorded: "jamais la
\* même niche deux fois".
OneSheetPerNiche == \A k \in Niche : sheets[k] <= 1 + unmarked[k]

\* A niche that the detector posted has its sheet or is skipped in the end, however
\* the market moves meanwhile.
SheetSettles == \A k \in Niche : k \in keys ~> k \in fiched \cup skipped

=============================================================================
