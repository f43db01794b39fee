----------------------------- MODULE ListingStore -----------------------------
(***************************************************************************)
(* The life of the rows of the table listings: the scrape inserts and      *)
(* refreshes them (db/repositories.py), the public feed announces those    *)
(* that are new, the market marks those that were not seen for two days as *)
(* gone (services/listing_reconcile.py), and the retention deletes them by *)
(* their age, on sale or not (jobs/db_retention.py).                       *)
(*                                                                         *)
(* Time is counted in ticks of some hours, and ages stop at Old.  The row  *)
(* that was deleted and is scraped again is a new one: nothing is left of  *)
(* what the table knew.  That an announcement may be lost or repeated on   *)
(* its way is the subject of DiscordOutbox; here it is one step.           *)
(***************************************************************************)
EXTENDS Integers, FiniteSets

CONSTANTS
    Article,        \* articles of the catalogue
    Dated,          \* those whose date of publication the catalogue gives
    Tier,           \* the pressure on the disk: RetentionTier
    Keep,           \* listings_keep_hours of each tier
    Reclaiming,     \* the tiers that delete until the database is small enough
    ReclaimFloor,   \* what such a deletion keeps at least: three hours
    MaxListingAge,  \* max_listing_age_minutes of the deal filter
    StaleAfter,     \* max_age_hours of the reconciliation
    Old             \* bound: where ages stop

ASSUME ArticleAssumption == Dated \subseteq Article
ASSUME KeepAssumption ==
    /\ MaxListingAge \in Nat /\ ReclaimFloor \in Nat /\ StaleAfter \in Nat /\ Old \in Nat
    /\ Keep \in [Tier -> Nat] /\ Reclaiming \subseteq Tier
    /\ MaxListingAge < ReclaimFloor
    /\ \A t \in Tier : MaxListingAge < Keep[t] /\ Keep[t] <= Old

VARIABLES
    born,    \* articles that were published
    sale,    \* articles that are on sale
    age,     \* [Article -> how long ago it was published]
    held,    \* articles that have a row
    first,   \* first_seen_at of the row, as an age
    seen,    \* last_seen_at
    active,  \* is_active
    left,    \* disappeared_at of a row that is not active
    posted,  \* rows whose discord_posted_at is set
    page,    \* what the present scrape found and has not yet looked at
    alerts   \* history: [Article -> how often it was announced]

lvars == <<born, sale, age, held, first, seen, active, left, posted, page, alerts>>

StoreInit ==
    /\ born = {} /\ sale = {} /\ held = {} /\ active = {} /\ posted = {} /\ page = {}
    /\ age = [a \in Article |-> 0] /\ first = [a \in Article |-> 0]
    /\ seen = [a \in Article |-> 0] /\ left = [a \in Article |-> 0]
    /\ alerts = [a \in Article |-> 0]

StoreTypeOK ==
    /\ born \subseteq Article /\ sale \subseteq born /\ held \subseteq born
    /\ active \subseteq held /\ posted \subseteq held /\ page \subseteq born
    /\ age \in [Article -> 0 .. Old] /\ first \in [Article -> 0 .. Old]
    /\ seen \in [Article -> 0 .. Old] /\ left \in [Article -> 0 .. Old]
    /\ alerts \in [Article -> Nat]

-----------------------------------------------------------------------------
(* The catalogue *)

Publish(a) ==
    /\ a \notin born /\ born' = born \cup {a} /\ sale' = sale \cup {a}
    /\ UNCHANGED <<age, held, first, seen, active, left, posted, page, alerts>>

\* It is sold, or withdrawn.
Leave(a) ==
    /\ a \in sale /\ sale' = sale \ {a}
    /\ UNCHANGED <<born, age, held, first, seen, active, left, posted, page, alerts>>

-----------------------------------------------------------------------------
(* scrape_search_once *)

Zero(f, S) == [a \in Article |-> IF a \in S THEN 0 ELSE f[a]]

\* upsert_listing: an insert knows nothing of the past, an update keeps the date of
\* the first sight and whether it was announced.
UpsertListings(S) ==
    /\ page = {} /\ S # {} /\ S \subseteq sale
    /\ held' = held \cup S /\ first' = Zero(first, S \ held) /\ seen' = Zero(seen, S)
    /\ active' = active \cup S /\ left' = Zero(left, S) /\ page' = S
    /\ UNCHANGED <<born, sale, age, posted, alerts>>

\* A row whose deletion the scrape meets is not looked at.
Unposted == (page \cap held) \ posted
\* Mutant: the age of the row, not of the article.
TooLateByRow(a) == a \in Dated /\ first[a] > MaxListingAge

TooLate(a) == a \in Dated /\ age[a] > MaxListingAge

\* The deal filter: what is too old is marked as if it had been posted, what
\* qualifies is announced and marked, and the rest is looked at another time.
AnnouncePage(Q) ==
    /\ page # {} /\ page' = {}
    /\ Q \subseteq {a \in Unposted : ~TooLate(a)}
    /\ posted' = posted \cup Q \cup {a \in Unposted : TooLate(a)}
    /\ alerts' = [a \in Article |-> IF a \in Q THEN alerts[a] + 1 ELSE alerts[a]]
    /\ UNCHANGED <<born, sale, age, held, first, seen, active, left>>

-----------------------------------------------------------------------------
(* reconcile_stale_listings *)

Stale == {a \in active : seen[a] >= StaleAfter}

Reconcile ==
    /\ active' = active \ Stale /\ left' = Zero(left, Stale)
    /\ UNCHANGED <<born, sale, age, held, first, seen, posted, page, alerts>>

-----------------------------------------------------------------------------
(* run_db_retention_once: the age of the row decides, whatever it is. *)

\* The last wave of a reclaim may go down to its floor.
Kept(t) == {Keep[t]} \cup IF t \in Reclaiming THEN ReclaimFloor .. Keep[t] ELSE {}

Expired(keep) == {a \in held : first[a] >= keep}

Retain ==
    /\ \E t \in Tier : \E keep \in Kept(t) :
          /\ held' = held \ Expired(keep) /\ active' = active \ Expired(keep)
          /\ posted' = posted \ Expired(keep)
    /\ UNCHANGED <<born, sale, age, first, seen, left, page, alerts>>

-----------------------------------------------------------------------------

Later(x) == IF x < Old THEN x + 1 ELSE Old
LaterAll(f, S) == [a \in Article |-> IF a \in S THEN Later(f[a]) ELSE f[a]]

StoreTick ==
    /\ age' = LaterAll(age, born)
    /\ first' = LaterAll(first, held) /\ seen' = LaterAll(seen, held)
    /\ left' = LaterAll(left, held \ active)
    /\ UNCHANGED <<born, sale, held, active, posted, page, alerts>>

StoreNext ==
    \/ \E a \in Article : Publish(a) \/ Leave(a)
    \/ \E S \in SUBSET sale : UpsertListings(S)
    \/ \E Q \in SUBSET Article : AnnouncePage(Q)
    \/ Reconcile \/ Retain \/ StoreTick

StoreSpec == StoreInit /\ [][StoreNext]_lvars

-----------------------------------------------------------------------------
(* Properties *)

\* An article is announced once, though its row is deleted and inserted anew: by
\* then it is too old.  An article without a date has no such protection.
AlertedOnce == \A a \in Dated : alerts[a] <= 1

Promise == INSTANCE Announcements WITH
    Thing <- Dated,
    told <- [a \in Dated |-> alerts[a]],
    new <- {a \in Dated : age[a] <= MaxListingAge}

\* The scrape, the reconciliation and the retention, which share the table and know
\* nothing of each other, implement the promise of Announcements: once at most, and
\* only as long as the article is new.
AnnouncedAsPromised == Promise!AnnounceSpec

=============================================================================
