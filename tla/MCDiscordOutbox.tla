--------------------------- MODULE MCDiscordOutbox ---------------------------
(* Small instances of DiscordOutbox for TLC. *)
EXTENDS DiscordOutbox

\* Listing 2 is mirrored to the ALL channel, listing 1 goes to its brand channel.
MCKindsOf == [l \in Listing |-> IF l = 2 THEN {"brand", "all"} ELSE {"brand"}]

\* The deal filter never rejects listing 3 for good; the others get any verdict.
MCVerdictsOf == [l \in Listing |-> IF l = 3 THEN {"deal", "soft"} ELSE Verdict]

=============================================================================
