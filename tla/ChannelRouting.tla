--------------------------- MODULE ChannelRouting ---------------------------
(***************************************************************************)
(* Where a listing that the deal filter lets through is posted             *)
(* (notify/discord.py, resolve_discord_channels of jobs/discord_outbox.py).*)
(* Shoes and clothes of one brand go to different channels, and whether a  *)
(* listing is a shoe is decided once for the price and once more for the   *)
(* channel.  Channels are tables of the configuration, and so are the      *)
(* searches that bring the listings in (config/searches.yaml).             *)
(***************************************************************************)
EXTENDS DealFilter

CONSTANTS
    BrandChannel,    \* brand_channel_map(): [brand -> channel]
    SneakerChannel,  \* sneaker_channel_map(): [brand -> channel]
    AllChannel,      \* DISCORD_CHANNEL_ALL, or NoValue
    MirrorAll,       \* DISCORD_MIRROR_ALL_VETEMENT
    Classics,        \* CLASSIQUE_BRANDS
    Luxuries,        \* LUXE_BRANDS
    Unmirrored,      \* brands that have a channel and are not mirrored: adidas
    Begins,          \* <<label, brand>>: the label starts with the brand and a space
    Searches         \* searches.yaml: [brand, catalogs, enabled]

-----------------------------------------------------------------------------
(* Brands.  A label is normalised; it belongs to a brand that it equals, or  *)
(* else to one that it begins with.                                          *)

Brands(label, S) == IF label \in S THEN {label} ELSE {b \in S : <<label, b>> \in Begins}

Lookup(label, channels) ==
    IF Brands(label, DOMAIN channels) = {} THEN NoValue
    ELSE channels[CHOOSE b \in Brands(label, DOMAIN channels) : TRUE]

RouteChannel(label, isShoe) == Lookup(label, IF isShoe THEN SneakerChannel ELSE BrandChannel)

IsAllowedBrand(label, S) == Brands(label, S) # {}

IsClassique(label) == Brands(label, Classics) # {}

-----------------------------------------------------------------------------

\* The category that the evaluation carries: the one that gave the price.
DealCategory(l) ==
    IF l.brand \in DOMAIN Deals THEN ResolveCategory(l, Deals[l.brand])[1] ELSE NoValue

ListingIsShoe(l) ==
    DealCategory(l) \in {"chaussure", "dunk", "air_force_1"} \/ DetectShoe(l)

SneakerIds == {SneakerChannel[b] : b \in DOMAIN SneakerChannel}

ChannelAllows(channel, isShoe) == channel # NoValue /\ (isShoe <=> channel \in SneakerIds)

BelongsInAll(label, isShoe, channel) ==
    /\ ~isShoe /\ channel \notin SneakerIds
    /\ Brands(label, Unmirrored) = {}
    /\ channel \notin {BrandChannel[b] : b \in Unmirrored \cap DOMAIN BrandChannel}
    /\ IsClassique(label) /\ label \notin Luxuries

ShouldMirror(label, isShoe, channel) ==
    /\ MirrorAll /\ AllChannel \notin {NoValue, channel}
    /\ BelongsInAll(label, isShoe, channel)

\* The channel of the brand and the copy for all clothes; without the first the
\* outbox passes the listing over and marks nothing.
ResolveChannels(l) ==
    LET isShoe == ListingIsShoe(l)
        channel == RouteChannel(l.brand, isShoe)
    IN  IF ~ChannelAllows(channel, isShoe) THEN [brand |-> NoValue, all |-> NoValue]
        ELSE [brand |-> channel,
              all |-> IF ShouldMirror(l.brand, isShoe, channel) THEN AllChannel ELSE NoValue]

-----------------------------------------------------------------------------
(* The searches of the public feed. *)

Tracked == DOMAIN BrandChannel \cup DOMAIN SneakerChannel

ActiveSearches == {s \in Searches : s.enabled /\ s.brand \in Tracked}

Catalog(l) == IF Has(l, "shoe catalogue") THEN "shoes" ELSE "clothes"

\* What a search brings in and keeps: its catalogues, and its brand only.
Kept(s, l) == Catalog(l) \in s.catalogs /\ IsAllowedBrand(l.brand, {s.brand})

-----------------------------------------------------------------------------
(* Properties *)

\* A listing that a search of the public feed brings in and the deal filter lets
\* through has a channel (searches.yaml and deal_filters.yaml open the shoes of the
\* luxury brands to both).
QualifiedIsRouted ==
    (\E s \in ActiveSearches : Kept(s, offer)) /\ EvaluateDeal(offer).post
        => ResolveChannels(offer).brand # NoValue

=============================================================================
