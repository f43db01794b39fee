---------------------------- MODULE Announcements ----------------------------
(***************************************************************************)
(* What the public feed promises of the articles whose date is known: each *)
(* is announced once at most, and only as long as it is new.  There are no *)
(* rows here that are inserted, refreshed and deleted; ListingStore is     *)
(* shown to implement this.                                                *)
(***************************************************************************)
EXTENDS Naturals

CONSTANT Thing

VARIABLES
    told,  \* [Thing -> how often it was announced]
    new    \* the things that are new

avars == <<told, new>>

AnnounceInit == told = [a \in Thing |-> 0] /\ new = Thing

\* Some of what is new and was never announced.
Announce ==
    /\ \E S \in SUBSET {a \in new : told[a] = 0} :
          told' = [a \in Thing |-> IF a \in S THEN 1 ELSE told[a]]
    /\ UNCHANGED new

GetOld == new' \subseteq new /\ UNCHANGED told

AnnounceSpec == AnnounceInit /\ [][Announce \/ GetOld]_avars

=============================================================================
