---------------------------- MODULE NicheDetector ----------------------------
(***************************************************************************)
(* The detector of niches (services/detector_pipeline.py, the publication  *)
(* post_interesting_niches_to_discord of services/market_intel.py and the  *)
(* checkpoints of services/opportunity_engine.py).  A cycle collects and   *)
(* analyses the market, picks one niche that was never posted, posts it    *)
(* and records it in one transaction after the other: the keys and names   *)
(* that were posted, the stamps of the hour, and the history that the      *)
(* sheets read.  The process may stop between any two of them.             *)
(*                                                                         *)
(* A score is 0 when the market of the niche is no opportunity.  What the  *)
(* signals of a niche change is the order of the candidates alone, and any *)
(* order is allowed here.  The cut of the records at 5000 niches is beyond *)
(* the niches of an instance.                                              *)
(***************************************************************************)
EXTENDS Integers, Sequences, SequencesExt, FiniteSetsExt

CONSTANTS
    Niche,          \* niche keys
    NicheName,      \* [Niche -> its normalised name]
    LiveScore,      \* the scores a market may have, 0 among them
    PublishScore,   \* PUBLISH_MIN_SCORE
    MaxPerHour,     \* DETECTOR_MAX_POSTS_PER_HOUR
    Hour,           \* an hour, in ticks
    Forced,         \* whether a cycle may be run by hand with --force
    MaxFaults       \* bound: crashes, and posts whose answer is lost

None == "none"

ASSUME NicheAssumption ==
    /\ None \notin Niche /\ 0 \in LiveScore /\ LiveScore \subseteq Nat
    /\ Hour \in Nat /\ MaxFaults \in Nat

VARIABLES
    live,      \* [Niche -> the score of its market as computed last]
    keys,      \* market:opp:posted_keys: the niches that were posted
    stamps,    \* market:opp:hourly_posts: the ages of the posts of the last hour
    best,      \* opportunity_history: [Niche -> the best score it was posted with]
    dpc,       \* where the detector is
    pick,      \* the niche it is about to post, None otherwise
    posts,     \* history: [Names -> how often Discord took a niche of this name]
    lost,      \* history: [Names -> how many of these posts were not recorded]
    faults     \* how many faults there were

Names == {NicheName[k] : k \in Niche}

dvars == <<live, keys, stamps, best, dpc, pick, posts, lost, faults>>

DetectorInit ==
    /\ live = [k \in Niche |-> 0] /\ keys = {} /\ stamps = <<>>
    /\ best = [k \in Niche |-> 0] /\ dpc = "idle" /\ pick = None
    /\ posts = [n \in Names |-> 0] /\ lost = [n \in Names |-> 0] /\ faults = 0

DetectorTypeOK ==
    /\ live \in [Niche -> LiveScore] /\ keys \subseteq Niche
    /\ best \in [Niche -> LiveScore] /\ pick \in Niche \cup {None}
    /\ dpc \in {"idle", "analysed", "post", "mark", "stamp", "history"}
    /\ posts \in [Names -> Nat] /\ lost \in [Names -> Nat] /\ faults \in 0 .. MaxFaults

Fault == faults < MaxFaults /\ faults' = faults + 1

WasPosted(k) == \E j \in keys : NicheName[j] = NicheName[k]

\* The market is collected and computed again; a collection that fails only
\* leaves it as it was.
Analyse ==
    /\ dpc = "idle" /\ dpc' = "analysed"
    /\ \E f \in [Niche -> LiveScore] : live' = f
    /\ UNCHANGED <<keys, stamps, best, pick, posts, lost, faults>>

\* What is published is interesting, was never posted under its key or its name,
\* and is within the hourly cap, which --force lifts.
Fresh == {k \in Niche : live[k] >= PublishScore /\ ~WasPosted(k)}
HourlyLeft == MaxPerHour - Len(stamps)

Choose(force) ==
    /\ dpc = "analysed"
    /\ IF Fresh = {} \/ (HourlyLeft <= 0 /\ ~force)
       THEN dpc' = "idle" /\ UNCHANGED pick
       ELSE dpc' = "post" /\ pick' \in Fresh
    /\ UNCHANGED <<live, keys, stamps, best, posts, lost, faults>>

Posted == posts' = [posts EXCEPT ![NicheName[pick]] = @ + 1]
Loses == lost' = [lost EXCEPT ![NicheName[pick]] = @ + 1]

PostAccepted ==
    /\ dpc = "post" /\ dpc' = "mark" /\ Posted
    /\ UNCHANGED <<live, keys, stamps, best, pick, lost, faults>>

\* The channel is unknown, or any other error ends the cycle.
PostRefused ==
    /\ dpc = "post" /\ dpc' = "idle" /\ pick' = None
    /\ UNCHANGED <<live, keys, stamps, best, posts, lost, faults>>

PostUnanswered ==
    /\ dpc = "post" /\ dpc' = "idle" /\ pick' = None
    /\ Fault /\ Posted /\ Loses
    /\ UNCHANGED <<live, keys, stamps, best>>

\* Mutant: the record of the keys is written anew, not added to.
MarkOverKeys ==
    /\ dpc = "mark" /\ dpc' = "stamp" /\ keys' = {pick}
    /\ UNCHANGED <<live, stamps, best, pick, posts, lost, faults>>

MarkPosted ==
    /\ dpc = "mark" /\ dpc' = "stamp" /\ keys' = keys \cup {pick}
    /\ UNCHANGED <<live, stamps, best, pick, posts, lost, faults>>

\* At most three hours' worth of stamps are kept.
RecordHourly ==
    LET all == Append(stamps, 0)
    IN  /\ dpc = "stamp" /\ dpc' = "history"
        /\ stamps' = SubSeq(all, 1 + (IF Len(all) > 3 * MaxPerHour
                                      THEN Len(all) - 3 * MaxPerHour ELSE 0), Len(all))
        /\ UNCHANGED <<live, keys, best, pick, posts, lost, faults>>

\* A failure here is logged and forgotten.
RecordHistory ==
    /\ dpc = "history" /\ dpc' = "idle" /\ pick' = None
    /\ \/ best' = [best EXCEPT ![pick] = IF live[pick] > @ THEN live[pick] ELSE @]
       \/ UNCHANGED best
    /\ UNCHANGED <<live, keys, stamps, posts, lost, faults>>

\* A post whose key was not recorded yet is forgotten.
DetectorCrash ==
    /\ dpc # "idle" /\ dpc' = "idle" /\ pick' = None /\ Fault
    /\ IF dpc = "mark" THEN Loses ELSE UNCHANGED lost
    /\ UNCHANGED <<live, keys, stamps, best, posts>>

\* A stamp counts while it is less than an hour old.
Older(ages) == SelectSeq([i \in DOMAIN ages |-> ages[i] + 1], LAMBDA a : a < Hour)

Aged ==
    /\ stamps' = Older(stamps)
    /\ UNCHANGED <<live, keys, best, dpc, pick, posts, lost, faults>>

DetectorStep ==
    \/ Analyse \/ \E f \in Forced : Choose(f)
    \/ PostAccepted \/ PostRefused \/ PostUnanswered
    \/ MarkPosted \/ RecordHourly \/ RecordHistory \/ DetectorCrash

-----------------------------------------------------------------------------
(* Properties *)

\* A niche, and a name, is posted once: again only if the record of a post was
\* lost (_is_recently_posted_key: "ne jamais republier la même détection").
DetectedOnce == \A n \in Names : posts[n] <= 1 + lost[n]

=============================================================================
