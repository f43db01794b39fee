------------------------ MODULE DiscordOutboxProofs ------------------------
(***************************************************************************)
(* Theorems about DiscordOutbox for every set of listings, threads and     *)
(* queries and every bound.                                                *)
(***************************************************************************)
EXTENDS DiscordOutbox, TLAPS

(* A row is a key and a rank, a key a listing and a kind.                    *)
LEMMA RowParts ==
  ASSUME NEW r \in Row
  PROVE  /\ r = <<r[1], r[2]>>
         /\ KeyOf(r) \in Key /\ r[2] \in 1..MaxGen
         /\ ListingOf(r) \in Listing /\ KindOf(r) \in Kind
BY DEF Row, Key, KeyOf, ListingOf, KindOf

LEMMA KeyParts ==
  ASSUME NEW k \in Key
  PROVE  k[1] \in Listing /\ k[2] \in Kind
BY DEF Key

(* Writing a status column of the right type keeps status and late typed.   *)
LEMMA WriteStatusType ==
  ASSUME NEW f, f \in [Row -> RowStatus], late \subseteq Row, WriteStatus(f)
  PROVE  status' \in [Row -> RowStatus] /\ late' \subseteq Row
BY DEF WriteStatus

(* Inserting one row per key of K keeps the table's types.                  *)
LEMMA InsertType ==
  ASSUME TypeOK, NEW K, K \subseteq Key, RoomFor(K), Insert(K)
  PROVE  /\ status' \in [Row -> RowStatus]
         /\ late' \subseteq Row
         /\ gen' \in [Key -> 0..MaxGen]
<1> DEFINE f == [r \in Row |-> IF KeyOf(r) \in K /\ r = NewRow(KeyOf(r)) THEN "pending" ELSE status[r]]
<1>1. f \in [Row -> RowStatus]
  BY DEF TypeOK, RowStatus
<1>2. WriteStatus(f)
  BY DEF Insert
<1>3. \A k \in K : gen[k] + 1 \in 0..MaxGen
  BY BoundAssumption DEF RoomFor, TypeOK
<1>4. gen' = [k \in Key |-> IF k \in K THEN gen[k] + 1 ELSE gen[k]]
  BY DEF Insert
<1>5. gen' \in [Key -> 0..MaxGen]
  BY <1>3, <1>4 DEF TypeOK
<1>6. late \subseteq Row
  BY DEF TypeOK
<1> HIDE DEF f
<1>7. status' \in [Row -> RowStatus] /\ late' \subseteq Row
  BY <1>1, <1>2, <1>6, WriteStatusType
<1> QED
  BY <1>5, <1>7

(* Skipping the stale rows of a read keeps the types it touches.             *)
LEMMA SkipStaleType ==
  ASSUME TypeOK, NEW R, R \subseteq Row, SkipStale(R)
  PROVE  /\ status' \in [Row -> RowStatus]
         /\ late' \subseteq Row
         /\ posted' \subseteq Listing
<1> DEFINE f == [r \in Row |-> IF r \in R THEN "skipped" ELSE status[r]]
<1>1. f \in [Row -> RowStatus]
  BY DEF TypeOK, RowStatus
<1>2. WriteStatus(f) /\ late \subseteq Row
  BY DEF SkipStale, TypeOK
<1>3. posted' \subseteq Listing
  BY DEF SkipStale, TypeOK
<1> HIDE DEF f
<1> QED
  BY <1>1, <1>2, <1>3, WriteStatusType

(* The local state of a thread that starts, or is done.                      *)
LEMMA IdleType == IdleScraper \in ScraperState /\ BootFlusher \in FlusherState
BY DEF IdleScraper, ScraperState, WorkerPc, BootFlusher, FlusherState, FlusherPc

LEMMA PreviewOrIdleType ==
  ASSUME NEW s \in ScraperState
  PROVE  PreviewOrIdle(s) \in ScraperState
BY DEF PreviewOrIdle, IdleScraper, ScraperState, WorkerPc

LEMMA PreviewOrIdleFields ==
  ASSUME NEW s
  PROVE  PreviewOrIdle(s).boot = FALSE /\ PreviewOrIdle(s).pc \in {"idle", "preview"}
<1>1. CASE PreviewOn
  BY <1>1 DEF PreviewOrIdle, IdleScraper
<1>2. CASE ~PreviewOn
  BY <1>2 DEF PreviewOrIdle, IdleScraper
<1> QED
  BY <1>1, <1>2

LEMMA AfterFlushType ==
  ASSUME TypeOK, NEW n, NEW raised, NEW drain
  PROVE  AfterFlush(n, raised, drain) \in FlusherState
<1> DEFINE p == IF drain /\ (n = 0 \/ raised \/ fl.rounds + 1 >= DrainMax) THEN "stopped" ELSE "idle"
           m == IF drain THEN fl.rounds + 1 ELSE 0
<1>1. p \in FlusherPc
  BY DEF FlusherPc
<1>2. fl.stopping \in BOOLEAN /\ fl.rounds \in Nat
  BY DEF TypeOK, FlusherState
<1>3. m \in Nat
  BY <1>2
<1>4. AfterFlush(n, raised, drain) =
        [pc |-> p, jobs |-> {}, sent |-> {}, failed |-> {}, stopping |-> fl.stopping,
         draining |-> FALSE, rounds |-> m]
  BY DEF AfterFlush
<1> HIDE DEF p, m
<1> QED
  BY <1>1, <1>2, <1>3, <1>4 DEF FlusherState

----------------------------------------------------------------------------
(* Type correctness, one lemma per group of actions *)

(* Only a public query is ever bootstrapped, so bootstrapped \subseteq Query is *)
(* inductive only together with what the threads remember of their query.       *)
BootIsPublic ==
  \A w \in Worker : scr[w].boot \/ scr[w].pc = "bootmark" => scr[w].query \in Query

TypeInv == TypeOK /\ BootIsPublic

LEMMA InitType == Init => TypeOK
BY BoundAssumption, IdleType DEF Init, TypeOK, RowStatus

LEMMA ScrapeType ==
  ASSUME TypeInv, NEW w \in Worker, Scrape(w)
  PROVE  TypeOK'
<1> USE IdleType DEF TypeInv
<1>0. scr[w] \in ScraperState
  BY DEF TypeOK
<1>1. ASSUME NEW q \in Query \cup FilterQuery, NEW P \in SUBSET Listing, UpsertPage(w, q, P)
      PROVE  TypeOK'
  <2> DEFINE b == q \in Query \ bootstrapped
             s == [IdleScraper EXCEPT !.pc = "upserted", !.query = q, !.page = P, !.boot = b]
  <2>2. scr' = [scr EXCEPT ![w] = s]
    BY <1>1 DEF UpsertPage
  <2>3. b \in BOOLEAN
    OBVIOUS
  <2> HIDE DEF b
  <2>1. s \in ScraperState
    BY <2>3 DEF ScraperState, IdleScraper, WorkerPc
  <2> HIDE DEF s
  <2> QED
    BY <1>1, <2>1, <2>2 DEF TypeOK, UpsertPage, table, hist
<1>2. CASE BootstrapSilence(w)
  BY <1>2 DEF TypeOK, BootstrapSilence, table, hist, ScraperState, WorkerPc
<1>3. CASE BootstrapCheckpoint(w)
  BY <1>3 DEF TypeOK, BootIsPublic, BootstrapCheckpoint, table, hist
<1>4. ASSUME NEW qualified \in SUBSET scr[w].page, NEW hard \in SUBSET scr[w].page,
             NEW top \in SUBSET scr[w].page, Select(w, qualified, hard, top)
      PROVE  TypeOK'
  <2>1. scr'[w] \in ScraperState /\ scr' = [scr EXCEPT ![w] = scr'[w]]
    <3>1. CASE scr[w].query \in FilterQuery
      BY <1>0, <1>4, <3>1 DEF TypeOK, Select
    <3>2. CASE scr[w].query \notin FilterQuery /\ top = {}
      BY <1>0, <1>4, <3>2, PreviewOrIdleType DEF TypeOK, Select
    <3>3. CASE scr[w].query \notin FilterQuery /\ top # {}
      <4> DEFINE s == [scr[w] EXCEPT !.pc = "announce", !.announce = top]
      <4>1. s \in ScraperState
        BY <1>0 DEF ScraperState, WorkerPc
      <4>2. scr' = [scr EXCEPT ![w] = s]
        BY <1>4, <3>3 DEF Select
      <4> HIDE DEF s
      <4> QED
        BY <4>1, <4>2 DEF TypeOK
    <3> QED
      BY <3>1, <3>2, <3>3
  <2>2. posted' \subseteq Listing
    BY <1>0, <1>4 DEF TypeOK, Select, ScraperState
  <2> QED
    BY <1>4, <2>1, <2>2 DEF TypeOK, Select, table, hist
<1>5. CASE EnqueueRead(w)
  <2> DEFINE K == {k \in Key : /\ k[1] \in {l \in scr[w].announce : "brand" \in KindsOf[l]} \ stale
                               /\ k[2] \in KindsOf[k[1]]
                               /\ Live(k) = {}}
             M == {l \in scr[w].announce : "brand" \in KindsOf[l]} \cap stale
             s == [scr[w] EXCEPT !.pc = "inserting", !.announce = {}, !.insert = K, !.mark = M]
  <2>1. K \subseteq Key /\ M \subseteq Listing
    BY DEF TypeOK
  <2>2. scr' = [scr EXCEPT ![w] = s]
    BY <1>0, <1>5 DEF EnqueueRead, TypeOK, ScraperState
  <2> HIDE DEF K, M
  <2>3. s \in ScraperState
    BY <1>0, <2>1 DEF ScraperState, WorkerPc
  <2> HIDE DEF s
  <2>4. scr' \in [Worker -> ScraperState]
    BY <2>2, <2>3 DEF TypeOK
  <2> QED
    BY <1>5, <2>4 DEF TypeOK, EnqueueRead, db, table, hist
<1>6. CASE EnqueueCommit(w)
  <2>1. scr[w].insert \subseteq Key /\ scr[w].mark \subseteq Listing
    BY <1>0 DEF ScraperState
  <2>2. /\ status' \in [Row -> RowStatus] /\ late' \subseteq Row
        /\ gen' \in [Key -> 0..MaxGen]
    BY <1>6, <2>1, InsertType DEF EnqueueCommit
  <2>3. scr' \in [Worker -> ScraperState]
    BY <1>0, <1>6, PreviewOrIdleType DEF EnqueueCommit, TypeOK
  <2> QED
    BY <1>6, <2>2, <2>3 DEF TypeOK, EnqueueCommit, hist
<1>7. CASE EnqueueAbort(w)
  BY <1>7 DEF TypeOK, EnqueueAbort, db, table, hist
<1>8. ASSUME NEW l \in Listing, PreviewCheck(w, l)
      PROVE  TypeOK'
  BY <1>8 DEF TypeOK, PreviewCheck, db, table, hist, ScraperState, WorkerPc
<1>9. CASE PreviewSkip(w)
  BY <1>9 DEF TypeOK, PreviewSkip, db, table, hist
<1>10. CASE PreviewInsert(w)
  <2> DEFINE K == {k \in Key : k[1] \in scr[w].announce \cap inDb /\ k[2] = "preview"}
  <2>1. CASE UNCHANGED <<table, previewReady>>
    BY <1>10, <2>1 DEF TypeOK, PreviewInsert, db, table, hist
  <2>2. CASE RoomFor(K) /\ Insert(K) /\ previewReady' = FALSE
    <3>1. K \subseteq Key
      OBVIOUS
    <3> HIDE DEF K
    <3>2. /\ status' \in [Row -> RowStatus] /\ late' \subseteq Row
          /\ gen' \in [Key -> 0..MaxGen]
      BY <2>2, <3>1, InsertType
    <3> QED
      BY <1>10, <2>2, <3>2 DEF TypeOK, PreviewInsert, db, hist
  <2> QED
    BY <1>10, <2>1, <2>2 DEF PreviewInsert
<1> QED
  BY <1>1, <1>2, <1>3, <1>4, <1>5, <1>6, <1>7, <1>8, <1>9, <1>10 DEF Scrape

LEMMA FlushType ==
  ASSUME TypeOK, Flush
  PROVE  TypeOK'
<1>1. CASE Purge
  BY <1>1, SkipStaleType DEF TypeOK, Purge, Pending, hist, FlusherState, FlusherPc
<1>2. ASSUME NEW drip \in SUBSET Pending, FlushSelect(drip)
      PROVE  TypeOK'
  BY <1>2, SkipStaleType, AfterFlushType DEF TypeOK, FlushSelect, Pending, hist, FlusherState, FlusherPc
<1>3. CASE DrainEmpty
  BY <1>3, AfterFlushType DEF TypeOK, DrainEmpty, db, table, hist
<1>4. ASSUME NEW r \in fl.jobs, NEW outcome \in {"ok", "refused", "lost"}, Post(r, outcome)
      PROVE  TypeOK'
  <2> DEFINE f == [fl EXCEPT !.jobs = @ \ {r},
                             !.sent = IF outcome = "ok" THEN @ \cup {r} ELSE @,
                             !.failed = IF outcome = "ok" THEN @ ELSE @ \cup {r}]
  <2>0. fl' = f /\ fl \in FlusherState /\ r \in Row
    BY <1>4 DEF TypeOK, Post, FlusherState
  <2>1. f \in FlusherState
    <3>1. CASE outcome = "ok"
      BY <2>0, <3>1 DEF FlusherState
    <3>2. CASE outcome # "ok"
      BY <2>0, <3>2 DEF FlusherState
    <3> QED
      BY <3>1, <3>2
  <2> HIDE DEF f
  <2>2. delivered' \in [Row -> Nat] /\ excused' \in [Row -> Nat]
    <3> DEFINE d == IF outcome = "refused" THEN delivered[r] ELSE delivered[r] + 1
               e == IF outcome = "lost" THEN excused[r] + 1 ELSE excused[r]
    <3>1. d \in Nat /\ e \in Nat
      BY <2>0 DEF TypeOK
    <3>2. delivered' = [delivered EXCEPT ![r] = d] /\ excused' = [excused EXCEPT ![r] = e]
      BY <1>4 DEF Post
    <3> HIDE DEF d, e
    <3> QED
      BY <3>1, <3>2 DEF TypeOK
  <2> QED
    BY <1>4, <2>0, <2>1, <2>2 DEF TypeOK, Post, db, table
<1>5. CASE FlushMark
  BY <1>5, AfterFlushType, WriteStatusType DEF TypeOK, FlushMark, hist, RowStatus
<1>6. CASE FlushMarkFails
  <2>1. fl' \in FlusherState
    BY <1>6, AfterFlushType DEF FlushMarkFails
  <2>2. excused' \in [Row -> Nat]
    BY <1>6 DEF FlushMarkFails, ForgetSent, TypeOK
  <2> QED
    BY <1>6, <2>1, <2>2 DEF TypeOK, FlushMarkFails, db, table
<1> QED
  BY <1>1, <1>2, <1>3, <1>4, <1>5, <1>6 DEF Flush

LEMMA OtherType ==
  ASSUME TypeOK, Requeue \/ Stop \/ Restart \/ Clock \/ Retention
  PROVE  TypeOK'
<1>1. CASE Requeue
  BY <1>1, WriteStatusType DEF TypeOK, Requeue, db, hist, RowStatus
<1>2. CASE Stop
  BY <1>2 DEF TypeOK, Stop, db, table, hist, FlusherState
<1>3. CASE Restart
  BY <1>3, IdleType, BoundAssumption DEF TypeOK, Restart, ForgetSent, db, table
<1>4. CASE Clock
  BY <1>4 DEF TypeOK, Clock, GrowStale, RowAges, PreviewIntervalElapses, db, table, hist
<1>5. ASSUME NEW old \in SUBSET Pending, RetainOutbox(old)
      PROVE  TypeOK'
  BY <1>5, WriteStatusType DEF TypeOK, RetainOutbox, db, hist, RowStatus
<1>6. ASSUME NEW l \in Listing, DeleteListing(l)
      PROVE  TypeOK'
  BY <1>6, WriteStatusType DEF TypeOK, DeleteListing, hist, RowStatus
<1> QED
  BY <1>1, <1>2, <1>3, <1>4, <1>5, <1>6 DEF Retention

LEMMA StutterType == TypeOK /\ UNCHANGED vars => TypeOK'
BY DEF TypeOK, vars, db, table, hist

LEMMA BootStep ==
  ASSUME TypeInv, [Next]_vars
  PROVE  BootIsPublic'
<1> SUFFICES ASSUME NEW v \in Worker, (scr[v].boot \/ scr[v].pc = "bootmark")'
             PROVE  scr'[v].query \in Query
  BY DEF BootIsPublic
<1>0. scr[v].boot \/ scr[v].pc = "bootmark" => scr[v].query \in Query
  BY DEF TypeInv, BootIsPublic
<1>1. ASSUME NEW w \in Worker, Scrape(w)
      PROVE  scr'[v].query \in Query
  <2>1. scr \in [Worker -> ScraperState]
    BY DEF TypeInv, TypeOK
  <2>2. CASE v # w
    BY <1>0, <1>1, <2>1, <2>2
    DEF Scrape, UpsertPage, BootstrapSilence, BootstrapCheckpoint, Select, EnqueueRead,
        EnqueueCommit, EnqueueAbort, PreviewCheck, PreviewSkip, PreviewInsert
  <2>3. CASE v = w
    <3>1. ASSUME NEW q \in Query \cup FilterQuery, NEW P, UpsertPage(w, q, P)
          PROVE  scr'[v].query \in Query
      BY <2>1, <2>3, <3>1 DEF UpsertPage, IdleScraper
    <3>2. CASE BootstrapSilence(w)
      BY <1>0, <2>1, <2>3, <3>2 DEF BootstrapSilence, ScraperState
    <3>6. CASE EnqueueRead(w)
      BY <1>0, <2>1, <2>3, <3>6 DEF EnqueueRead, ScraperState
    <3>7. ASSUME NEW l \in Listing, PreviewCheck(w, l)
          PROVE  scr'[v].query \in Query
      BY <1>0, <2>1, <2>3, <3>7 DEF PreviewCheck, ScraperState
    <3>3. CASE BootstrapCheckpoint(w) \/ EnqueueAbort(w) \/ PreviewSkip(w) \/ PreviewInsert(w)
      BY <2>1, <2>3, <3>3
      DEF BootstrapCheckpoint, EnqueueAbort, PreviewSkip, PreviewInsert, IdleScraper
    <3>4. CASE EnqueueCommit(w)
      BY <2>1, <2>3, <3>4 DEF EnqueueCommit, PreviewOrIdle, IdleScraper
    <3>5. ASSUME NEW qualified, NEW hard, NEW top, Select(w, qualified, hard, top)
          PROVE  scr'[v].query \in Query
      <4>1. ~scr[w].boot /\ scr[w].pc = "upserted" /\ scr[w].boot \in BOOLEAN
        BY <2>1, <3>5 DEF Select, ScraperState
      <4>2. \/ scr'[w] = IdleScraper
            \/ scr'[w] = PreviewOrIdle(scr[w])
            \/ scr'[w] = [scr[w] EXCEPT !.pc = "announce", !.announce = top]
        BY <2>1, <3>5 DEF Select
      <4>3. ~scr'[w].boot /\ scr'[w].pc # "bootmark"
        <5>1. CASE scr'[w] = PreviewOrIdle(scr[w])
          BY <5>1, PreviewOrIdleFields
        <5>3. CASE scr'[w] = IdleScraper
          BY <5>3 DEF IdleScraper
        <5>2. CASE scr'[w] = [scr[w] EXCEPT !.pc = "announce", !.announce = top]
          <6>1. scr'[w].boot = scr[w].boot /\ scr'[w].pc = "announce"
            BY <2>1, <5>2 DEF ScraperState
          <6> QED
            BY <4>1, <6>1
        <5> QED
          BY <4>2, <5>1, <5>2, <5>3
      <4> QED
        BY <2>3, <4>3
    <3> QED
      BY <1>1, <3>1, <3>2, <3>3, <3>4, <3>5, <3>6, <3>7 DEF Scrape
  <2> QED
    BY <2>2, <2>3
<1>2. CASE Restart
  BY <1>2 DEF Restart, IdleScraper
<1>3. CASE UNCHANGED scr
  BY <1>0, <1>3
<1>4. Flush \/ Requeue \/ Stop \/ Clock \/ Retention \/ UNCHANGED vars => UNCHANGED scr
  BY DEF Flush, Purge, FlushSelect, DrainEmpty, Post, FlushMark, FlushMarkFails, Requeue, Stop,
     Clock, GrowStale, RowAges, PreviewIntervalElapses, Retention, RetainOutbox, DeleteListing, vars
<1> QED
  BY <1>1, <1>2, <1>3, <1>4 DEF Next

LEMMA TypeInvInductive == Spec => []TypeInv
<1>1. Init => TypeInv
  BY InitType DEF Init, TypeInv, BootIsPublic, IdleScraper
<1>2. TypeInv /\ [Next]_vars => TypeInv'
  BY ScrapeType, FlushType, OtherType, StutterType, BootStep DEF Next, TypeInv
<1> QED
  BY <1>1, <1>2, PTL DEF Spec

(* Every reachable state is well typed: the tables, the local state of the      *)
(* scrape and flush threads, and the delivery history.                         *)
THEOREM TypeCorrect == Spec => []TypeOK
<1>1. TypeInv => TypeOK
  BY DEF TypeInv
<1> QED
  BY TypeInvInductive, <1>1, PTL

----------------------------------------------------------------------------
(* Every delivery is accounted for *)

(* Ranks not handed out yet have no row, no delivery and no send in progress. *)
UnbornRows ==
  \A r \in Row : r[2] > gen[KeyOf(r)] =>
    /\ status[r] = "none" /\ delivered[r] = 0 /\ excused[r] = 0
    /\ r \notin fl.jobs \cup fl.sent \cup fl.failed

(* The rows of the flush in progress: those not posted, or refused, owe nothing;  *)
(* those posted carry one delivery that is still to be recorded.                *)
InFlight ==
  /\ fl.pc # "sending" => fl.jobs = {} /\ fl.sent = {} /\ fl.failed = {}
  /\ fl.jobs \cap fl.failed = {}
  /\ \A r \in fl.jobs \cup fl.failed : delivered[r] = excused[r]
  /\ \A r \in fl.sent : delivered[r] = excused[r] + 1

Accounted == UnbornRows /\ InFlight /\ DeliveriesAccounted

(* A step that posts nothing, records nothing and queues no closed row.          *)
LEMMA AccountedFrame ==
  ASSUME TypeOK, Accounted, UNCHANGED <<gen, delivered, excused>>,
         \A r \in Row : status'[r] \in {"pending", "failed"} => status[r] \in {"pending", "failed"},
         \A r \in Row : status[r] = "none" => status'[r] = "none",
         fl'.jobs = fl.jobs, fl'.sent = fl.sent, fl'.failed = fl.failed,
         fl'.pc # "sending" => fl.pc # "sending"
  PROVE  Accounted'
<1>1. UnbornRows'
  BY DEF Accounted, UnbornRows, KeyOf
<1>2. InFlight'
  BY DEF Accounted, InFlight
<1>3. DeliveriesAccounted'
  BY DEF Accounted, DeliveriesAccounted
<1> QED
  BY <1>1, <1>2, <1>3 DEF Accounted

(* New rows take the next rank of their key, which owes nothing.                 *)
LEMMA AccountedInsert ==
  ASSUME TypeOK, Accounted, NEW K, K \subseteq Key, Insert(K), UNCHANGED <<fl, delivered, excused>>
  PROVE  Accounted'
<1>1. \A r \in Row : status'[r] = IF KeyOf(r) \in K /\ r = NewRow(KeyOf(r)) THEN "pending" ELSE status[r]
  BY DEF Insert, WriteStatus
<1>2. \A k \in Key : gen'[k] = IF k \in K THEN gen[k] + 1 ELSE gen[k]
  BY DEF Insert
<1>3. \A k \in Key : gen[k] \in Int /\ gen'[k] \in Int /\ gen'[k] >= gen[k]
  BY <1>2, BoundAssumption DEF TypeOK
<1>4. ASSUME NEW r \in Row, KeyOf(r) \in K, r = NewRow(KeyOf(r))
      PROVE  r[2] = gen[KeyOf(r)] + 1
  BY <1>4 DEF NewRow
<1>5. ASSUME NEW r \in Row, r[2] > gen'[KeyOf(r)]
      PROVE  r[2] > gen[KeyOf(r)] /\ status'[r] = status[r]
  <2>1. KeyOf(r) \in Key /\ r[2] \in Int
    BY RowParts
  <2>2. r[2] > gen[KeyOf(r)]
    BY <1>3, <1>5, <2>1
  <2>3. ~(KeyOf(r) \in K /\ r = NewRow(KeyOf(r)))
    BY <1>2, <1>3, <1>4, <1>5, <2>1
  <2> QED
    BY <1>1, <2>2, <2>3
<1>6. UnbornRows'
  BY <1>5 DEF Accounted, UnbornRows, KeyOf
<1>7. InFlight'
  BY DEF Accounted, InFlight
<1>8. ASSUME NEW r \in Row
      PROVE  /\ delivered'[r] <= excused'[r] + 1
             /\ status'[r] \in {"pending", "failed"} /\ r \notin fl'.sent => delivered'[r] = excused'[r]
  <2>1. CASE KeyOf(r) \in K /\ r = NewRow(KeyOf(r))
    <3>1. r[2] > gen[KeyOf(r)]
      BY <1>3, <1>4, <2>1, RowParts
    <3>2. delivered[r] = 0 /\ excused[r] = 0
      BY <3>1 DEF Accounted, UnbornRows
    <3> QED
      BY <3>2
  <2>2. CASE ~(KeyOf(r) \in K /\ r = NewRow(KeyOf(r)))
    BY <1>1, <2>2 DEF Accounted, DeliveriesAccounted
  <2> QED
    BY <2>1, <2>2
<1>9. DeliveriesAccounted'
  BY <1>8 DEF DeliveriesAccounted
<1> QED
  BY <1>6, <1>7, <1>9 DEF Accounted

(* A crash or a failed commit turns the unrecorded deliveries into excused ones.   *)
LEMMA AccountedForget ==
  ASSUME TypeOK, Accounted, ForgetSent, UNCHANGED <<status, gen, delivered>>,
         fl'.jobs = {}, fl'.sent = {}, fl'.failed = {}
  PROVE  Accounted'
<1>1. \A r \in Row : excused'[r] = IF r \in fl.sent THEN excused[r] + 1 ELSE excused[r]
  BY DEF ForgetSent
<1>2. UnbornRows'
  BY <1>1 DEF Accounted, UnbornRows, KeyOf
<1>3. InFlight'
  BY DEF InFlight
<1>4. ASSUME NEW r \in Row
      PROVE  /\ delivered[r] <= excused'[r] + 1
             /\ status[r] \in {"pending", "failed"} => delivered[r] = excused'[r]
  <2>1. delivered[r] \in Nat /\ excused[r] \in Nat
    BY DEF TypeOK
  <2>2. CASE r \in fl.sent
    BY <1>1, <2>1, <2>2 DEF Accounted, InFlight
  <2>3. CASE r \notin fl.sent
    BY <1>1, <2>1, <2>3 DEF Accounted, DeliveriesAccounted
  <2> QED
    BY <2>2, <2>3
<1>5. DeliveriesAccounted'
  BY <1>4 DEF DeliveriesAccounted
<1> QED
  BY <1>2, <1>3, <1>5 DEF Accounted

LEMMA AccountedInit == Init => Accounted
BY DEF Init, Accounted, UnbornRows, InFlight, DeliveriesAccounted, BootFlusher

LEMMA AccountedScrape ==
  ASSUME TypeOK, Accounted, NEW w \in Worker, Scrape(w)
  PROVE  Accounted'
<1>1. scr[w].insert \subseteq Key
  BY DEF TypeOK, ScraperState
<1>2. CASE EnqueueCommit(w)
  BY <1>1, <1>2, AccountedInsert DEF EnqueueCommit, hist
<1>3. CASE PreviewInsert(w)
  <2> DEFINE K == {k \in Key : k[1] \in scr[w].announce \cap inDb /\ k[2] = "preview"}
  <2>1. K \subseteq Key
    OBVIOUS
  <2>2. UNCHANGED table \/ Insert(K)
    BY <1>3 DEF PreviewInsert
  <2>3. UNCHANGED <<fl, delivered, excused>>
    BY <1>3 DEF PreviewInsert, hist
  <2> HIDE DEF K
  <2>4. CASE UNCHANGED table
    BY <2>3, <2>4, AccountedFrame DEF table
  <2> QED
    BY <2>1, <2>2, <2>3, <2>4, AccountedInsert
<1>4. CASE UNCHANGED <<table, fl, hist>>
  BY <1>4, AccountedFrame DEF table, hist
<1> QED
  BY <1>2, <1>3, <1>4
  DEF Scrape, UpsertPage, BootstrapSilence, BootstrapCheckpoint, Select, EnqueueRead,
      EnqueueAbort, PreviewCheck, PreviewSkip

(* What one flush leaves behind.                                               *)
LEMMA AfterFlushFields ==
  ASSUME NEW n, NEW raised, NEW drain
  PROVE  /\ AfterFlush(n, raised, drain).pc # "sending"
         /\ AfterFlush(n, raised, drain).jobs = {}
         /\ AfterFlush(n, raised, drain).sent = {}
         /\ AfterFlush(n, raised, drain).failed = {}
BY DEF AfterFlush

LEMMA FlushEnds ==
  ASSUME FlushMark \/ FlushMarkFails \/ DrainEmpty
  PROVE  fl'.pc # "sending" /\ fl'.jobs = {} /\ fl'.sent = {} /\ fl'.failed = {}
<1>1. CASE FlushMark
  <2>1. \E n, m, d : fl' = AfterFlush(n, m, d)
    BY <1>1, Zenon DEF FlushMark
  <2> QED
    BY <2>1, AfterFlushFields
<1>2. CASE FlushMarkFails
  <2>1. \E n, m, d : fl' = AfterFlush(n, m, d)
    BY <1>2, Zenon DEF FlushMarkFails
  <2> QED
    BY <2>1, AfterFlushFields
<1>3. CASE DrainEmpty
  <2>1. \E n, m, d : fl' = AfterFlush(n, m, d)
    BY <1>3, Zenon DEF DrainEmpty
  <2> QED
    BY <2>1, AfterFlushFields
<1> QED
  BY <1>1, <1>2, <1>3

LEMMA AccountedFlush ==
  ASSUME TypeOK, Accounted, Flush
  PROVE  Accounted'
<1>1. CASE Purge
  <2>1. fl \in FlusherState
    BY DEF TypeOK
  <2>2. /\ fl'.jobs = fl.jobs /\ fl'.sent = fl.sent /\ fl'.failed = fl.failed
        /\ fl.pc = "boot"
    BY <1>1, <2>1 DEF Purge, FlusherState
  <2> QED
    BY <1>1, <2>2, AccountedFrame DEF Purge, SkipStale, WriteStatus, Pending, hist
<1>2. ASSUME NEW drip \in SUBSET Pending, FlushSelect(drip)
      PROVE  Accounted'
  <2>1. fl.jobs = {} /\ fl.sent = {} /\ fl.failed = {}
    BY <1>2 DEF FlushSelect, Accounted, InFlight
  <2>2. fl'.sent = {} /\ fl'.failed = {} /\ fl'.jobs = drip /\ (fl'.pc # "sending" => drip = {})
    BY <1>2, <2>1, AfterFlushFields DEF FlushSelect, TypeOK, FlusherState
  <2>3. /\ UNCHANGED <<gen, delivered, excused>>
        /\ \A r \in Row : /\ status'[r] \in {"pending", "failed"} => status[r] \in {"pending", "failed"}
                          /\ status[r] = "none" => status'[r] = "none"
    BY <1>2 DEF FlushSelect, SkipStale, WriteStatus, Pending, hist
  <2>4. \A r \in drip : r \in Row /\ status[r] = "pending"
    BY DEF Pending
  <2>5. UnbornRows'
    <3> SUFFICES ASSUME NEW r \in Row, r[2] > gen[KeyOf(r)]
                 PROVE  /\ status'[r] = "none" /\ delivered'[r] = 0 /\ excused'[r] = 0
                        /\ r \notin fl'.jobs \cup fl'.sent \cup fl'.failed
      BY <2>3 DEF UnbornRows, KeyOf
    <3>1. status[r] = "none" /\ delivered[r] = 0 /\ excused[r] = 0
      BY DEF Accounted, UnbornRows
    <3> QED
      BY <2>2, <2>3, <2>4, <3>1
  <2>6. InFlight'
    BY <2>1, <2>2, <2>3, <2>4 DEF Accounted, InFlight, DeliveriesAccounted
  <2>7. DeliveriesAccounted'
    <3> SUFFICES ASSUME NEW r \in Row
                 PROVE  /\ delivered'[r] <= excused'[r] + 1
                        /\ status'[r] \in {"pending", "failed"} => delivered'[r] = excused'[r]
      BY DEF DeliveriesAccounted
    <3>1. /\ delivered[r] <= excused[r] + 1
          /\ status[r] \in {"pending", "failed"} => delivered[r] = excused[r]
      BY <2>1 DEF Accounted, DeliveriesAccounted
    <3> QED
      BY <2>3, <3>1
  <2> QED
    BY <2>5, <2>6, <2>7 DEF Accounted
<1>3. CASE DrainEmpty
  <2>1. fl.pc # "sending" /\ fl.jobs = {} /\ fl.sent = {} /\ fl.failed = {}
    BY <1>3 DEF DrainEmpty, Accounted, InFlight
  <2> QED
    BY <1>3, <2>1, AfterFlushFields, AccountedFrame DEF DrainEmpty, table, hist
<1>4. ASSUME NEW r \in fl.jobs, NEW outcome \in {"ok", "refused", "lost"}, Post(r, outcome)
      PROVE  Accounted'
  <2>1. r \in Row /\ r \notin fl.failed /\ r \notin fl.sent /\ delivered[r] = excused[r]
    BY BoundAssumption DEF TypeOK, FlusherState, Accounted, InFlight
  <2>2. UNCHANGED <<status, gen>> /\ fl.pc = "sending" /\ fl'.pc = "sending"
    BY <1>4 DEF Post, table, TypeOK, FlusherState
  <2>3. fl'.jobs = fl.jobs \ {r}
    BY <1>4 DEF Post, TypeOK, FlusherState
  <2>4. \A x \in Row : x # r => delivered'[x] = delivered[x] /\ excused'[x] = excused[x]
    BY <1>4 DEF Post, TypeOK
  <2>5. CASE outcome = "ok"
    <3>1. fl'.sent = fl.sent \cup {r} /\ fl'.failed = fl.failed
      BY <1>4, <2>5 DEF Post, TypeOK, FlusherState
    <3>2. delivered'[r] = delivered[r] + 1 /\ excused'[r] = excused[r]
      BY <1>4, <2>1, <2>5 DEF Post, TypeOK
    <3>3. UnbornRows'
      BY <2>1, <2>2, <2>3, <2>4, <3>1 DEF Accounted, UnbornRows, KeyOf
    <3>4. InFlight'
      BY <2>1, <2>2, <2>3, <2>4, <3>1, <3>2 DEF Accounted, InFlight, TypeOK, FlusherState
    <3>6. delivered[r] \in Nat /\ excused[r] \in Nat
      BY <2>1 DEF TypeOK
    <3>5. DeliveriesAccounted'
      BY <2>1, <2>2, <2>4, <3>1, <3>2, <3>6 DEF Accounted, DeliveriesAccounted
    <3> QED
      BY <3>3, <3>4, <3>5 DEF Accounted
  <2>6. CASE outcome # "ok"
    <3>1. fl'.sent = fl.sent /\ fl'.failed = fl.failed \cup {r}
      BY <1>4, <2>6 DEF Post, TypeOK, FlusherState
    <3>2. delivered'[r] = excused'[r]
      <4>1. CASE outcome = "refused"
        BY <1>4, <2>1, <4>1 DEF Post, TypeOK
      <4>2. CASE outcome = "lost"
        BY <1>4, <2>1, <4>2 DEF Post, TypeOK
      <4> QED
        BY <2>6, <4>1, <4>2
    <3>6. excused'[r] \in Nat
      BY <1>4, <2>1 DEF Post, TypeOK
    <3>3. UnbornRows'
      BY <2>1, <2>2, <2>3, <2>4, <3>1 DEF Accounted, UnbornRows, KeyOf
    <3>4. InFlight'
      BY <2>1, <2>2, <2>3, <2>4, <3>1, <3>2 DEF Accounted, InFlight, TypeOK, FlusherState
    <3>5. DeliveriesAccounted'
      BY <2>1, <2>2, <2>4, <3>1, <3>2, <3>6 DEF Accounted, DeliveriesAccounted
    <3> QED
      BY <3>3, <3>4, <3>5 DEF Accounted
  <2> QED
    BY <2>5, <2>6
<1>5. CASE FlushMark
  <2>1. /\ fl'.pc # "sending" /\ fl'.jobs = {} /\ fl'.sent = {} /\ fl'.failed = {}
        /\ UNCHANGED <<gen, delivered, excused>>
    BY <1>5, FlushEnds DEF FlushMark, hist
  <2>2. \A r \in Row : status'[r] = IF ~Exists(r) THEN status[r]
                                    ELSE IF r \in fl.failed THEN "failed"
                                    ELSE IF r \in fl.sent THEN "sent"
                                    ELSE status[r]
    BY <1>5 DEF FlushMark, WriteStatus
  <2>3. UnbornRows'
    BY <2>1, <2>2 DEF Accounted, UnbornRows, KeyOf, Exists
  <2>4. InFlight'
    BY <2>1 DEF InFlight
  <2>5. DeliveriesAccounted'
    BY <2>1, <2>2 DEF Accounted, DeliveriesAccounted, InFlight, Exists
  <2> QED
    BY <2>3, <2>4, <2>5 DEF Accounted
<1>6. CASE FlushMarkFails
  <2>1. /\ fl'.pc # "sending" /\ fl'.jobs = {} /\ fl'.sent = {} /\ fl'.failed = {}
        /\ UNCHANGED <<status, gen, delivered>> /\ ForgetSent
    BY <1>6, FlushEnds DEF FlushMarkFails, table
  <2> QED
    BY <2>1, AccountedForget
<1> QED
  BY <1>1, <1>2, <1>3, <1>4, <1>5, <1>6 DEF Flush

LEMMA AccountedOther ==
  ASSUME TypeOK, Accounted, Requeue \/ Stop \/ Restart \/ Clock \/ Retention
  PROVE  Accounted'
<1>1. CASE Requeue
  BY <1>1, AccountedFrame DEF Requeue, Requeued, Retryable, WriteStatus, hist
<1>2. CASE Stop
  BY <1>2, AccountedFrame DEF Stop, table, hist, TypeOK, FlusherState
<1>3. CASE Restart
  BY <1>3, AccountedForget DEF Restart, table, BootFlusher
<1>4. CASE Clock
  BY <1>4, AccountedFrame
  DEF Clock, GrowStale, RowAges, PreviewIntervalElapses, table, hist
<1>5. ASSUME NEW old, RetainOutbox(old)
      PROVE  Accounted'
  BY <1>5, AccountedFrame DEF RetainOutbox, WriteStatus, hist
<1>6. ASSUME NEW l, DeleteListing(l)
      PROVE  Accounted'
  BY <1>6, AccountedFrame DEF DeleteListing, WriteStatus, hist
<1> QED
  BY <1>1, <1>2, <1>3, <1>4, <1>5, <1>6 DEF Retention

LEMMA AccountedAlways == Spec => []Accounted
<1>1. TypeOK /\ Accounted /\ [Next]_vars => Accounted'
  <2>1. TypeOK /\ Accounted /\ UNCHANGED vars => Accounted'
    BY AccountedFrame DEF vars, table, hist
  <2> QED
    BY <2>1, AccountedScrape, AccountedFlush, AccountedOther DEF Next
<1> QED
  BY AccountedInit, TypeCorrect, <1>1, PTL DEF Spec

(* A pending or failed row outside the flush in progress was delivered only by     *)
(* acceptances the table could not record, and no row once more than that.         *)
THEOREM DeliveriesAccountedAlways == Spec => []DeliveriesAccounted
<1>1. Accounted => DeliveriesAccounted
  BY DEF Accounted
<1> QED
  BY AccountedAlways, <1>1, PTL

----------------------------------------------------------------------------
(* Stale rows *)

(* No step drops a pending row of a fresh listing: the purge and the flush skip    *)
(* only stale rows, the retry touches failed ones, the retention and the cascade  *)
(* of a deleted listing delete stale ones.                                      *)
THEOREM FreshPendingRowsSurviveAlways == Spec => FreshPendingRowsSurvive
<1>1. ASSUME TypeOK, [Next]_vars, NEW r \in Row, status[r] = "pending", status'[r] \in {"none", "skipped"}
      PROVE  ListingOf(r) \in stale
  <2>1. ASSUME NEW w \in Worker, Scrape(w)
        PROVE  ListingOf(r) \in stale
    <3>1. ASSUME NEW K, Insert(K)
          PROVE  FALSE
      BY <1>1, <3>1 DEF Insert, WriteStatus
    <3>2. UNCHANGED status => FALSE
      BY <1>1
    <3>3. UNCHANGED status \/ \E K : Insert(K)
      BY <2>1 DEF Scrape, UpsertPage, BootstrapSilence, BootstrapCheckpoint, Select, EnqueueRead,
                  EnqueueCommit, EnqueueAbort, PreviewCheck, PreviewSkip, PreviewInsert, table
    <3> QED
      BY <3>1, <3>2, <3>3
  <2>2. CASE Flush
    <3>1. CASE Purge
      BY <1>1, <3>1 DEF Purge, SkipStale, WriteStatus, Pending
    <3>2. ASSUME NEW drip, FlushSelect(drip)
          PROVE  ListingOf(r) \in stale
      BY <1>1, <3>2 DEF FlushSelect, SkipStale, WriteStatus, Pending
    <3>3. CASE FlushMark
      BY <1>1, <3>3 DEF FlushMark, WriteStatus, Exists
    <3> QED
      BY <1>1, <2>2, <3>1, <3>2, <3>3 DEF Flush, DrainEmpty, Post, FlushMarkFails, table
  <2>3. CASE Requeue
    BY <1>1, <2>3 DEF Requeue, Requeued, Retryable, WriteStatus
  <2>4. CASE Stop \/ Restart \/ Clock \/ UNCHANGED vars
    BY <1>1, <2>4 DEF Stop, Restart, Clock, GrowStale, RowAges, PreviewIntervalElapses, vars, table
  <2>5. CASE Retention
    <3>1. ASSUME NEW old, RetainOutbox(old)
          PROVE  ListingOf(r) \in stale
      BY <1>1, <3>1 DEF RetainOutbox, WriteStatus
    <3>2. ASSUME NEW l, DeleteListing(l)
          PROVE  ListingOf(r) \in stale
      BY <1>1, <3>2 DEF DeleteListing, WriteStatus
    <3> QED
      BY <2>5, <3>1, <3>2 DEF Retention
  <2> QED
    BY <1>1, <2>1, <2>2, <2>3, <2>4, <2>5 DEF Next
<1>2. TypeOK /\ [Next]_vars => [\A r \in Row : status[r] = "pending" /\ status'[r] \in {"none", "skipped"}
                                  => ListingOf(r) \in stale]_vars
  BY <1>1
<1> QED
  BY TypeCorrect, <1>2, PTL DEF Spec, FreshPendingRowsSurvive

(* A row that is being sent stays pending until its outcome is recorded, unless it *)
(* is deleted.                                                                  *)
Sending == fl.jobs \cup fl.sent \cup fl.failed
SendingOpen == \A r \in Sending : status[r] \in {"none", "pending"}

LEMMA SendingOpenStep ==
  ASSUME TypeOK, Accounted, SendingOpen, [Next]_vars
  PROVE  SendingOpen'
<1>1. ASSUME Sending' \subseteq Sending, \A r \in Row : status'[r] \in {status[r], "none", "pending"}
      PROVE  SendingOpen'
  BY <1>1 DEF SendingOpen, Sending, TypeOK, FlusherState
<1>2. CASE Sending' = {}
  BY <1>2 DEF SendingOpen
<1>3. fl.pc # "sending" => Sending = {}
  BY DEF Sending, Accounted, InFlight
<1>4. ASSUME NEW w \in Worker, Scrape(w)
      PROVE  SendingOpen'
  <2>1. UNCHANGED status \/ \E K : Insert(K)
    BY <1>4 DEF Scrape, UpsertPage, BootstrapSilence, BootstrapCheckpoint, Select, EnqueueRead,
                EnqueueCommit, EnqueueAbort, PreviewCheck, PreviewSkip, PreviewInsert, table
  <2>2. UNCHANGED fl
    BY <1>4 DEF Scrape, UpsertPage, BootstrapSilence, BootstrapCheckpoint, Select, EnqueueRead,
                EnqueueCommit, EnqueueAbort, PreviewCheck, PreviewSkip, PreviewInsert
  <2>3. \A r \in Row : status'[r] \in {status[r], "none", "pending"}
    BY <2>1 DEF Insert, WriteStatus
  <2> QED
    BY <1>1, <2>2, <2>3 DEF Sending
<1>5. CASE Flush
  <2>1. CASE Purge
    BY <1>2, <1>3, <2>1 DEF Purge, Sending, TypeOK, FlusherState
  <2>2. ASSUME NEW drip, FlushSelect(drip)
        PROVE  SendingOpen'
    <3>1. Sending' = drip
      BY <1>3, <2>2, AfterFlushFields DEF FlushSelect, Sending, TypeOK, FlusherState
    <3>2. \A r \in drip : r \in Row /\ status[r] = "pending" /\ ListingOf(r) \notin stale
      BY <2>2 DEF FlushSelect, Pending
    <3>3. \A r \in drip : status'[r] = "pending"
      BY <2>2, <3>2 DEF FlushSelect, SkipStale, WriteStatus, Pending
    <3> QED
      BY <3>1, <3>3 DEF SendingOpen
  <2>3. CASE DrainEmpty \/ FlushMark \/ FlushMarkFails
    BY <1>2, <2>3, FlushEnds DEF Sending
  <2>4. ASSUME NEW r \in fl.jobs, NEW outcome, Post(r, outcome)
        PROVE  SendingOpen'
    <3>1. /\ fl'.jobs \subseteq Sending /\ fl'.sent \subseteq Sending /\ fl'.failed \subseteq Sending
          /\ UNCHANGED status
      BY <2>4 DEF Post, Sending, TypeOK, FlusherState, table
    <3>2. Sending' \subseteq Sending
      BY <3>1 DEF Sending
    <3> QED
      BY <1>1, <3>1, <3>2
  <2> QED
    BY <1>5, <2>1, <2>2, <2>3, <2>4 DEF Flush
<1>6. CASE Requeue
  BY <1>2, <1>3, <1>6 DEF Requeue, Sending
<1>7. CASE Stop \/ Restart \/ Clock \/ UNCHANGED vars
  <2>1. UNCHANGED status
    BY <1>7 DEF Stop, Restart, Clock, GrowStale, RowAges, PreviewIntervalElapses, table, vars
  <2>2. Sending' = Sending \/ Sending' = {}
    BY <1>7 DEF Stop, Restart, Clock, GrowStale, RowAges, PreviewIntervalElapses, vars, Sending,
                BootFlusher, TypeOK, FlusherState
  <2> QED
    BY <1>1, <1>2, <2>1, <2>2
<1>8. CASE Retention
  BY <1>1, <1>8 DEF Retention, RetainOutbox, DeleteListing, WriteStatus, Sending
<1> QED
  BY <1>4, <1>5, <1>6, <1>7, <1>8 DEF Next

(* Rows belong to listings that exist: the foreign key of the outbox.            *)
RowsHaveListings == \A r \in Row : status[r] # "none" => ListingOf(r) \in inDb

SkipInv == TypeOK /\ Accounted /\ SendingOpen /\ RowsHaveListings /\ SkippedBrandSettled

(* A step that closes no sent row and skips only rows it settles.               *)
LEMMA SkipFrame ==
  ASSUME RowsHaveListings, SkippedBrandSettled, posted \subseteq posted', inDb \subseteq inDb',
         \A r \in Row : status'[r] # "none" => status[r] # "none" \/ ListingOf(r) \in inDb',
         \A r \in Row : status[r] = "sent" => status'[r] = "sent",
         \A r \in Row : status'[r] = "skipped" /\ KindOf(r) = "brand" =>
           status[r] = "skipped" \/ ListingOf(r) \in posted' \/ AlreadySent(r)
  PROVE  RowsHaveListings' /\ SkippedBrandSettled'
<1>1. RowsHaveListings'
  BY DEF RowsHaveListings, ListingOf
<1>2. \A r \in Row : AlreadySent(r) => AlreadySent(r)'
  BY DEF AlreadySent, KeyOf
<1>3. SkippedBrandSettled'
  BY <1>2 DEF SkippedBrandSettled, ListingOf, KindOf
<1> QED
  BY <1>1, <1>3

LEMMA SkipInsert ==
  ASSUME SkipInv, NEW K, K \subseteq Key, Insert(K), \A k \in K : k[1] \in inDb,
         posted \subseteq posted', UNCHANGED inDb
  PROVE  RowsHaveListings' /\ SkippedBrandSettled'
<1>1. \A r \in Row : status'[r] = IF KeyOf(r) \in K /\ r = NewRow(KeyOf(r)) THEN "pending" ELSE status[r]
  BY DEF Insert, WriteStatus
<1>2. ASSUME NEW r \in Row, KeyOf(r) \in K, r = NewRow(KeyOf(r))
      PROVE  status[r] = "none"
  <2>1. r[2] = gen[KeyOf(r)] + 1 /\ KeyOf(r) \in Key
    BY <1>2 DEF NewRow
  <2>2. gen[KeyOf(r)] \in Int
    BY <2>1, BoundAssumption DEF SkipInv, TypeOK
  <2>3. r[2] > gen[KeyOf(r)]
    BY <2>1, <2>2
  <2> QED
    BY <2>3 DEF SkipInv, Accounted, UnbornRows
<1>3. \A r \in Row : KeyOf(r) \in K => ListingOf(r) \in inDb
  BY DEF KeyOf, ListingOf
<1> QED
  BY <1>1, <1>2, <1>3, SkipFrame DEF SkipInv

(* Skipping the stale rows of a read settles their brand listings.               *)
LEMMA SkipStaleSettles ==
  ASSUME SkipInv, NEW R, R \subseteq Pending, SkipStale(R), UNCHANGED inDb
  PROVE  RowsHaveListings' /\ SkippedBrandSettled'
<1>1. \A r \in Row : status'[r] = IF r \in R THEN "skipped" ELSE status[r]
  BY DEF SkipStale, WriteStatus
<1>2. \A r \in R : r \in Row /\ status[r] = "pending"
  BY DEF Pending
<1>3. \A r \in R : KindOf(r) = "brand" => ListingOf(r) \in StaleBrand(R) \cap inDb
  BY <1>2 DEF StaleBrand, SkipInv, RowsHaveListings
<1>4. posted' = posted \cup (StaleBrand(R) \cap inDb)
  BY DEF SkipStale
<1> QED
  BY <1>1, <1>2, <1>3, <1>4, SkipFrame DEF SkipInv

LEMMA SkipScrape ==
  ASSUME SkipInv, NEW w \in Worker, Scrape(w)
  PROVE  RowsHaveListings' /\ SkippedBrandSettled'
<1>1. CASE EnqueueCommit(w)
  <2>1. scr[w].insert \subseteq Key
    BY DEF SkipInv, TypeOK, ScraperState
  <2>2. \A k \in scr[w].insert : k[1] \in inDb
    BY <1>1 DEF EnqueueCommit, EnqueueAborts
  <2>3. Insert(scr[w].insert) /\ posted \subseteq posted' /\ UNCHANGED inDb
    BY <1>1 DEF EnqueueCommit
  <2> QED
    BY <2>1, <2>2, <2>3, SkipInsert
<1>2. CASE PreviewInsert(w)
  <2> DEFINE K == {k \in Key : k[1] \in scr[w].announce \cap inDb /\ k[2] = "preview"}
  <2>1. K \subseteq Key /\ \A k \in K : k[1] \in inDb
    OBVIOUS
  <2>2. /\ UNCHANGED status \/ Insert(K)
        /\ UNCHANGED <<inDb, posted>>
    BY <1>2 DEF PreviewInsert, db, table
  <2> HIDE DEF K
  <2>3. CASE UNCHANGED status
    BY <2>2, <2>3, SkipFrame DEF SkipInv
  <2> QED
    BY <2>1, <2>2, <2>3, SkipInsert
<1>3. CASE UNCHANGED status /\ posted \subseteq posted' /\ inDb \subseteq inDb'
  BY <1>3, SkipFrame DEF SkipInv
<1> QED
  BY <1>1, <1>2, <1>3
  DEF Scrape, UpsertPage, BootstrapSilence, BootstrapCheckpoint, Select, EnqueueRead,
      EnqueueAbort, PreviewCheck, PreviewSkip, db, table

LEMMA SkipFlush ==
  ASSUME SkipInv, Flush
  PROVE  RowsHaveListings' /\ SkippedBrandSettled'
<1>1. CASE Purge
  BY <1>1, SkipStaleSettles DEF Purge
<1>2. ASSUME NEW drip, FlushSelect(drip)
      PROVE  RowsHaveListings' /\ SkippedBrandSettled'
  BY <1>2, SkipStaleSettles DEF FlushSelect
<1>3. CASE FlushMark
  <2>1. \A r \in Row : status'[r] = IF ~Exists(r) THEN status[r]
                                    ELSE IF r \in fl.failed THEN "failed"
                                    ELSE IF r \in fl.sent THEN "sent"
                                    ELSE status[r]
    BY <1>3 DEF FlushMark, WriteStatus
  <2>2. \A r \in Row : Exists(r) /\ r \in fl.failed => status[r] # "sent"
    BY DEF SkipInv, SendingOpen, Sending
  <2>3. posted \subseteq posted' /\ UNCHANGED inDb
    BY <1>3 DEF FlushMark
  <2> QED
    BY <2>1, <2>2, <2>3, SkipFrame DEF SkipInv, Exists
<1>4. CASE UNCHANGED status /\ posted \subseteq posted' /\ inDb \subseteq inDb'
  BY <1>4, SkipFrame DEF SkipInv
<1> QED
  BY <1>1, <1>2, <1>3, <1>4 DEF Flush, DrainEmpty, Post, FlushMarkFails, db, table

LEMMA SkipOther ==
  ASSUME SkipInv, Requeue \/ Stop \/ Restart \/ Clock \/ Retention
  PROVE  RowsHaveListings' /\ SkippedBrandSettled'
<1>1. CASE Requeue
  <2>1. \A r \in Row : status'[r] = IF r \in Requeued THEN "pending"
                                    ELSE IF r \in Retryable THEN "skipped" ELSE status[r]
    BY <1>1 DEF Requeue, WriteStatus
  <2>2. \A r \in Row : r \in Requeued \/ r \in Retryable => status[r] = "failed"
    BY DEF Requeued, Retryable
  <2>3. \A r \in Row : r \in Retryable /\ r \notin Requeued => AlreadySent(r)
    BY DEF Requeued
  <2>4. UNCHANGED <<posted, inDb>>
    BY <1>1 DEF Requeue, db
  <2> QED
    BY <2>1, <2>2, <2>3, <2>4, SkipFrame DEF SkipInv
<1>2. CASE Stop \/ Restart \/ Clock
  <2>1. UNCHANGED <<status, posted, inDb>>
    BY <1>2 DEF Stop, Restart, Clock, GrowStale, RowAges, PreviewIntervalElapses, db, table
  <2> QED
    BY <2>1, SkipFrame DEF SkipInv
<1>3. ASSUME NEW old, RetainOutbox(old)
      PROVE  RowsHaveListings' /\ SkippedBrandSettled'
  <2>1. \A r \in Row : status'[r] \in {"pending", "none"} /\ (status'[r] = "pending" => status[r] = "pending")
    BY <1>3 DEF RetainOutbox, WriteStatus
  <2>2. UNCHANGED inDb
    BY <1>3 DEF RetainOutbox, db
  <2> QED
    BY <2>1, <2>2 DEF SkipInv, RowsHaveListings, SkippedBrandSettled, ListingOf
<1>4. ASSUME NEW l, DeleteListing(l)
      PROVE  RowsHaveListings' /\ SkippedBrandSettled'
  <2>1. \A r \in Row : status'[r] = IF ListingOf(r) = l THEN "none" ELSE status[r]
    BY <1>4 DEF DeleteListing, WriteStatus
  <2>2. inDb' = inDb \ {l} /\ posted' = posted \ {l}
    BY <1>4 DEF DeleteListing
  <2>3. RowsHaveListings'
    BY <2>1, <2>2 DEF SkipInv, RowsHaveListings, ListingOf
  <2>4. ASSUME NEW r \in Row, status'[r] = "skipped", KindOf(r) = "brand", ListingOf(r) \notin posted'
        PROVE  AlreadySent(r)'
    <3>1. status[r] = "skipped" /\ ListingOf(r) # l
      BY <2>1, <2>4
    <3>2. AlreadySent(r)
      BY <2>2, <2>4, <3>1 DEF SkipInv, SkippedBrandSettled
    <3>3. PICK x \in Row \ {r} : KeyOf(x) = KeyOf(r) /\ status[x] = "sent"
      BY <3>2 DEF AlreadySent
    <3>4. ListingOf(x) = ListingOf(r)
      BY <3>3 DEF KeyOf, ListingOf
    <3>5. status'[x] = "sent"
      BY <2>1, <3>1, <3>3, <3>4
    <3> QED
      BY <3>3, <3>5 DEF AlreadySent, KeyOf
  <2>5. SkippedBrandSettled'
    BY <2>4 DEF SkippedBrandSettled, ListingOf, KindOf
  <2> QED
    BY <2>3, <2>5
<1> QED
  BY <1>1, <1>2, <1>3, <1>4 DEF Retention

(* A skipped brand row leaves its listing marked posted, or has a sent twin, in     *)
(* every reachable state.                                                       *)
THEOREM SkippedBrandSettledAlways == Spec => []SkippedBrandSettled
<1>1. Init => SendingOpen /\ RowsHaveListings /\ SkippedBrandSettled
  BY DEF Init, SendingOpen, Sending, BootFlusher, RowsHaveListings, SkippedBrandSettled
<1>2. TypeOK /\ Accounted /\ SendingOpen /\ RowsHaveListings /\ SkippedBrandSettled /\ [Next]_vars
        => (SendingOpen /\ RowsHaveListings /\ SkippedBrandSettled)'
  <2>1. SkipInv /\ UNCHANGED vars => (RowsHaveListings /\ SkippedBrandSettled)'
    BY SkipFrame DEF SkipInv, vars, db, table
  <2> QED
    BY <2>1, SendingOpenStep, SkipScrape, SkipFlush, SkipOther DEF Next, SkipInv
<1> QED
  BY <1>1, <1>2, TypeCorrect, AccountedAlways, PTL DEF Spec

----------------------------------------------------------------------------
(* One scrape thread: the enqueue's check holds until its insert *)

OneScraper == \A v, w \in Worker : v = w

(* What a thread decided to announce is neither settled nor queued ...            *)
AnnouncedFree ==
  \A w \in Worker : scr[w].pc = "announce" =>
    \A l \in scr[w].announce : l \notin posted /\ l \notin Busy

(* ... and what it is about to insert has no live row either.                     *)
InsertFree ==
  \A w \in Worker : scr[w].pc = "inserting" =>
    \A k \in scr[w].insert :
      /\ k[1] \notin posted /\ k[1] \notin Busy
      /\ k[2] # "preview" /\ Live(k) = {}

SoloInv == AnnouncedFree /\ InsertFree /\ OneLiveRowPerKey

Base == TypeOK /\ Accounted /\ SendingOpen

LEMMA BaseAlways == Spec => []Base
<1>1. Init => SendingOpen
  BY DEF Init, SendingOpen, Sending, BootFlusher
<1> QED
  BY <1>1, TypeCorrect, AccountedAlways, SendingOpenStep, PTL DEF Spec, Base

(* The steps of the other actors queue no row and settle only what is queued.      *)
Quiet ==
  /\ \A r \in Row : /\ status'[r] \in {"pending", "failed"} => status[r] \in {"pending", "failed"}
                    /\ status'[r] = "sent" => status[r] \in {"pending", "failed", "sent"}
  /\ posted' \subseteq posted \cup Busy

LEMMA QuietShrinks ==
  ASSUME Quiet
  PROVE  Busy' \subseteq Busy /\ \A k \in Key : Live(k)' \subseteq Live(k)
<1>1. Busy' \subseteq Busy
  BY DEF Quiet, Busy, ListingOf, KindOf
<1>2. \A k \in Key : Live(k)' \subseteq Live(k)
  BY DEF Quiet, Live, KeyOf, DedupStatus
<1> QED
  BY <1>1, <1>2

LEMMA StaleBrandBusy ==
  ASSUME NEW R, R \subseteq Pending
  PROVE  StaleBrand(R) \subseteq Busy
BY DEF StaleBrand, Busy, Pending, ListingOf, KindOf

(* autoflush is off, so what a flush has just sent still counts as pending.        *)
LEMMA NothingSettles ==
  ASSUME Base
  PROVE  Settled(fl.sent) = {}
<1>1. \A x \in fl.sent : x \in Row /\ (Exists(x) => status[x] = "pending")
  BY DEF Base, TypeOK, FlusherState, SendingOpen, Sending, Exists
<1> QED
  BY <1>1 DEF Settled, Busy

LEMMA OthersQuiet ==
  ASSUME Base, Flush \/ Requeue \/ Stop \/ Restart \/ Clock \/ Retention \/ UNCHANGED vars
  PROVE  Quiet
<1>1. CASE Purge \/ \E drip : FlushSelect(drip)
  <2>1. PICK R : R \subseteq Pending /\ SkipStale(R)
    BY <1>1 DEF Purge, FlushSelect
  <2>2. posted' \subseteq posted \cup Busy
    BY <2>1, StaleBrandBusy DEF SkipStale
  <2> QED
    BY <2>1, <2>2 DEF SkipStale, WriteStatus, Quiet
<1>2. CASE FlushMark
  <2>1. \A r \in fl.failed \cup fl.sent : r \in Row /\ (Exists(r) => status[r] = "pending")
    BY DEF Base, TypeOK, FlusherState, SendingOpen, Sending, Exists
  <2>2. posted' = posted
    BY <1>2, NothingSettles DEF FlushMark
  <2>3. \A r \in Row : status'[r] = IF ~Exists(r) THEN status[r]
                                    ELSE IF r \in fl.failed THEN "failed"
                                    ELSE IF r \in fl.sent THEN "sent"
                                    ELSE status[r]
    BY <1>2 DEF FlushMark, WriteStatus
  <2> QED
    BY <2>1, <2>2, <2>3 DEF Quiet
<1>3. CASE Requeue
  BY <1>3 DEF Requeue, Requeued, Retryable, WriteStatus, Quiet, db
<1>4. CASE Retention
  BY <1>4 DEF Retention, RetainOutbox, DeleteListing, WriteStatus, Quiet, db
<1>5. CASE UNCHANGED <<status, posted>>
  BY <1>5 DEF Quiet
<1> QED
  BY <1>1, <1>2, <1>3, <1>4, <1>5
  DEF Flush, DrainEmpty, Post, FlushMarkFails, Stop, Restart, Clock, GrowStale, RowAges,
      PreviewIntervalElapses, vars, db, table

LEMMA SoloOthers ==
  ASSUME Base, SoloInv, Quiet, UNCHANGED scr \/ \A w \in Worker : scr'[w].pc = "idle"
  PROVE  SoloInv'
<1>1. OneLiveRowPerKey'
  BY QuietShrinks DEF SoloInv, OneLiveRowPerKey
<1>2. CASE UNCHANGED scr
  <2>1. AnnouncedFree'
    BY <1>2, QuietShrinks DEF SoloInv, AnnouncedFree, Quiet
  <2>2. InsertFree'
    <3>1. \A w \in Worker : scr[w].insert \subseteq Key
      BY DEF Base, TypeOK, ScraperState
    <3> QED
      BY <1>2, <3>1, QuietShrinks DEF SoloInv, InsertFree, Quiet
  <2> QED
    BY <1>1, <2>1, <2>2 DEF SoloInv
<1>3. CASE \A w \in Worker : scr'[w].pc = "idle"
  BY <1>1, <1>3 DEF SoloInv, AnnouncedFree, InsertFree
<1> QED
  BY <1>2, <1>3

LEMMA SoloScrape ==
  ASSUME OneScraper, Base, SoloInv, NEW w \in Worker, Scrape(w)
  PROVE  SoloInv'
<1>0. /\ scr \in [Worker -> ScraperState] /\ Worker = {w}
      /\ scr[w].insert \subseteq Key /\ scr[w].announce \subseteq Listing
  BY DEF OneScraper, Base, TypeOK, ScraperState
<1>1. ASSUME NEW K, Insert(K), scr'[w].pc \notin {"announce", "inserting"},
             \A k \in K : k[2] = "preview" \/ Live(k) = {}
      PROVE  SoloInv'
  <2>1. \A r \in Row : status'[r] = IF KeyOf(r) \in K /\ r = NewRow(KeyOf(r)) THEN "pending" ELSE status[r]
    BY <1>1 DEF Insert, WriteStatus
  <2>2. ASSUME NEW k \in Key, k[2] # "preview", NEW r \in Live(k)', NEW x \in Live(k)'
        PROVE  r = x
    <3>1. r \in Row /\ x \in Row /\ KeyOf(r) = k /\ KeyOf(x) = k
      BY DEF Live, KeyOf
    <3>2. status'[r] \in DedupStatus /\ status'[x] \in DedupStatus
      BY DEF Live
    <3>3. CASE k \in K
      <4>1. Live(k) = {}
        BY <1>1, <2>2, <3>3
      <4>2. status[r] \notin DedupStatus /\ status[x] \notin DedupStatus
        BY <3>1, <4>1 DEF Live
      <4> QED
        BY <2>1, <3>1, <3>2, <4>2
    <3>4. CASE k \notin K
      BY <2>1, <2>2, <3>1, <3>2, <3>4 DEF SoloInv, OneLiveRowPerKey, Live
    <3> QED
      BY <3>3, <3>4
  <2>3. OneLiveRowPerKey'
    BY <2>2 DEF OneLiveRowPerKey
  <2> QED
    BY <1>0, <1>1, <2>3 DEF SoloInv, AnnouncedFree, InsertFree
<1>2. ASSUME UNCHANGED status, scr'[w].pc \notin {"announce", "inserting"}
      PROVE  SoloInv'
  BY <1>0, <1>2 DEF SoloInv, AnnouncedFree, InsertFree, OneLiveRowPerKey, Live, KeyOf
<1>3. ASSUME NEW q, NEW P, UpsertPage(w, q, P)
      PROVE  SoloInv'
  BY <1>0, <1>2, <1>3 DEF UpsertPage, IdleScraper, table
<1>4. CASE BootstrapSilence(w)
  BY <1>0, <1>2, <1>4 DEF BootstrapSilence, table, ScraperState
<1>5. CASE BootstrapCheckpoint(w) \/ EnqueueAbort(w) \/ PreviewSkip(w)
  BY <1>0, <1>2, <1>5 DEF BootstrapCheckpoint, EnqueueAbort, PreviewSkip, IdleScraper, db, table
<1>6. ASSUME NEW l, PreviewCheck(w, l)
      PROVE  SoloInv'
  BY <1>0, <1>2, <1>6 DEF PreviewCheck, db, table, ScraperState
<1>7. ASSUME NEW qualified, NEW hard, NEW top, Select(w, qualified, hard, top)
      PROVE  SoloInv'
  <2>1. UNCHANGED <<status>> /\ posted' = posted \cup hard \cup (qualified \ top)
    BY <1>7 DEF Select, table
  <2>2. \/ scr'[w] = IdleScraper
        \/ scr'[w] = PreviewOrIdle(scr[w])
        \/ /\ scr'[w].pc = "announce" /\ scr'[w].announce = top
           /\ scr[w].query \notin FilterQuery
    BY <1>0, <1>7 DEF Select, ScraperState
  <2>3. CASE scr'[w] = IdleScraper \/ scr'[w] = PreviewOrIdle(scr[w])
    <3>1. IdleScraper.pc = "idle" /\ PreviewOrIdle(scr[w]).pc \in {"idle", "preview"}
      BY PreviewOrIdleFields DEF IdleScraper
    <3>2. scr'[w].pc \notin {"announce", "inserting"}
      BY <2>3, <3>1
    <3> QED
      BY <1>2, <2>1, <3>2
  <2>4. CASE scr'[w].pc = "announce" /\ scr'[w].announce = top /\ scr[w].query \notin FilterQuery
    <3>1. \A l \in top : l \notin posted' /\ l \notin Busy
      BY <1>7, <2>1, <2>4 DEF Select, Judged, Candidates
    <3>2. Busy' = Busy
      BY <2>1 DEF Busy, ListingOf, KindOf
    <3> QED
      BY <1>0, <2>1, <2>4, <3>1, <3>2 DEF SoloInv, AnnouncedFree, InsertFree, OneLiveRowPerKey, Live, KeyOf
  <2> QED
    BY <2>2, <2>3, <2>4
<1>8. CASE EnqueueRead(w)
  <2>1. /\ UNCHANGED <<status, posted>> /\ scr[w].pc = "announce" /\ scr'[w].pc = "inserting"
    BY <1>0, <1>8 DEF EnqueueRead, db, table, ScraperState
  <2>2. \A k \in scr'[w].insert : /\ k \in Key /\ k[1] \in scr[w].announce
                                  /\ k[2] \in KindsOf[k[1]] /\ Live(k) = {}
    BY <1>0, <1>8 DEF EnqueueRead, ScraperState
  <2>3. \A k \in scr'[w].insert : k[2] # "preview"
    BY <2>2, KeyParts, RoutingAssumption
  <2>4. Busy' = Busy /\ \A k \in Key : Live(k)' = Live(k)
    BY <2>1 DEF Busy, Live, ListingOf, KindOf, KeyOf
  <2>5. InsertFree' /\ AnnouncedFree'
    BY <1>0, <2>1, <2>2, <2>3, <2>4 DEF SoloInv, AnnouncedFree, InsertFree
  <2>6. OneLiveRowPerKey'
    BY <2>4 DEF SoloInv, OneLiveRowPerKey
  <2> QED
    BY <2>5, <2>6 DEF SoloInv
<1>9. CASE EnqueueCommit(w)
  <2>1. scr'[w].pc \notin {"announce", "inserting"}
    BY <1>0, <1>9, PreviewOrIdleFields DEF EnqueueCommit
  <2> QED
    BY <1>1, <1>9, <2>1 DEF EnqueueCommit, SoloInv, InsertFree
<1>10. CASE PreviewInsert(w)
  <2>1. scr'[w].pc \notin {"announce", "inserting"}
    BY <1>0, <1>10 DEF PreviewInsert, IdleScraper
  <2>2. CASE UNCHANGED table
    BY <1>2, <2>1, <2>2 DEF table
  <2> QED
    BY <1>1, <1>10, <2>1, <2>2 DEF PreviewInsert, table
<1> QED
  BY <1>3, <1>4, <1>5, <1>6, <1>7, <1>8, <1>9, <1>10 DEF Scrape

LEMMA SoloStep ==
  ASSUME OneScraper, Base, SoloInv, [Next]_vars
  PROVE  SoloInv'
<1>1. CASE \E w \in Worker : Scrape(w)
  BY <1>1, SoloScrape
<1>2. CASE Flush \/ Requeue \/ Stop \/ Restart \/ Clock \/ Retention \/ UNCHANGED vars
  <2>1. UNCHANGED scr \/ \A w \in Worker : scr'[w].pc = "idle"
    <3>1. CASE Restart
      BY <3>1 DEF Restart, IdleScraper
    <3>2. CASE Flush
      BY <3>2 DEF Flush, Purge, FlushSelect, DrainEmpty, Post, FlushMark, FlushMarkFails
    <3>3. CASE Requeue \/ Stop \/ Clock \/ Retention \/ UNCHANGED vars
      BY <3>3 DEF Requeue, Stop, Clock, GrowStale, RowAges, PreviewIntervalElapses, Retention,
                  RetainOutbox, DeleteListing, vars
    <3> QED
      BY <1>2, <3>1, <3>2, <3>3
  <2> QED
    BY <1>2, <2>1, OthersQuiet, SoloOthers
<1> QED
  BY <1>1, <1>2 DEF Next

LEMMA SoloAlways == OneScraper /\ Spec => []SoloInv
<1>1. Init => SoloInv
  BY DEF Init, SoloInv, AnnouncedFree, InsertFree, OneLiveRowPerKey, IdleScraper, Live, DedupStatus
<1>2. OneScraper => OneScraper'
  BY DEF OneScraper
<1>3. OneScraper /\ Base /\ SoloInv /\ [Next]_vars => OneScraper' /\ SoloInv'
  BY <1>2, SoloStep
<1> QED
  BY <1>1, <1>3, BaseAlways, PTL DEF Spec

(* With one scrape thread a listing has at most one pending, failed or sent row per *)
(* channel and kind, whatever the flush thread, the retention and restarts do       *)
(* between the enqueue's check and its insert.                                   *)
THEOREM OneLiveRowPerKeyAlways == OneScraper /\ Spec => []OneLiveRowPerKey
<1>1. SoloInv => OneLiveRowPerKey
  BY DEF SoloInv
<1> QED
  BY SoloAlways, <1>1, PTL

(* With one scrape thread no brand row is created for a listing whose            *)
(* discord_posted_at is set, however late the listing settles.                   *)
THEOREM SettledNeverQueuedAlways == OneScraper /\ Spec => SettledNeverQueued
<1>1. ASSUME Base, SoloInv, [Next]_vars, NEW k \in Key, k[2] = "brand", gen'[k] > gen[k]
      PROVE  k[1] \notin posted
  <2>0. gen[k] \in Int
    BY <1>1, BoundAssumption DEF Base, TypeOK
  <2>1. UNCHANGED gen => FALSE
    BY <1>1, <2>0
  <2>2. ASSUME NEW K, Insert(K)
        PROVE  k \in K
    <3>1. gen'[k] = IF k \in K THEN gen[k] + 1 ELSE gen[k]
      BY <2>2 DEF Insert
    <3> QED
      BY <1>1, <2>0, <3>1
  <2>3. ASSUME NEW w \in Worker, Scrape(w)
        PROVE  k[1] \notin posted
    <3>1. CASE EnqueueCommit(w)
      BY <1>1, <2>2, <3>1 DEF EnqueueCommit, SoloInv, InsertFree
    <3>2. CASE PreviewInsert(w)
      <4> DEFINE K == {x \in Key : x[1] \in scr[w].announce \cap inDb /\ x[2] = "preview"}
      <4>1. k \notin K
        BY <1>1
      <4>2. UNCHANGED table \/ Insert(K)
        BY <3>2 DEF PreviewInsert
      <4> QED
        BY <2>1, <2>2, <4>1, <4>2 DEF table
    <3> QED
      BY <2>1, <2>3, <3>1, <3>2
      DEF Scrape, UpsertPage, BootstrapSilence, BootstrapCheckpoint, Select, EnqueueRead,
          EnqueueAbort, PreviewCheck, PreviewSkip, table
  <2>4. CASE Flush
    BY <2>1, <2>4 DEF Flush, Purge, FlushSelect, DrainEmpty, Post, FlushMark, FlushMarkFails, table
  <2>5. CASE Requeue \/ Stop \/ Restart \/ Clock \/ Retention \/ UNCHANGED vars
    BY <2>1, <2>5 DEF Requeue, Stop, Restart, Clock, GrowStale, RowAges, PreviewIntervalElapses,
                      Retention, RetainOutbox, DeleteListing, vars, table
  <2> QED
    BY <1>1, <2>3, <2>4, <2>5 DEF Next
<1>2. Base /\ SoloInv /\ [Next]_vars
        => [\A k \in Key : k[2] = "brand" /\ gen'[k] > gen[k] => k[1] \notin posted]_vars
  BY <1>1
<1> QED
  BY SoloAlways, BaseAlways, <1>2, PTL DEF Spec, SettledNeverQueued

----------------------------------------------------------------------------
(* One scrape thread: a retry is rejected only after a restart *)

Previews == {r \in Row : KindOf(r) = "preview"}

\* A row that is pending, or that the next retry makes so.
Hot(r) == status[r] = "pending" \/ (status[r] = "failed" /\ r \notin late)

\* In the first life of the process the interval tells the thread all it must know of
\* the previews: once it has elapsed none can be retried, and while a preview is being
\* inserted it is elapsed and none is pending.
PreviewInv ==
  restarts = 0 =>
    /\ \A r, x \in Previews : Hot(r) /\ Hot(x) => r = x
    /\ previewReady = TRUE => \A r \in Previews : status[r] \in {"pending", "failed"} => r \in late
    /\ \A w \in Worker : scr[w].pc = "previewing" =>
         /\ previewReady = TRUE /\ \A r \in Previews : status[r] # "pending"
         /\ \E l \in Listing : scr[w].announce = {l}

\* What the steps other than the preview's own do to the previews: none is created, only
\* a recent failure is retried, and what is late remains so while it is open.
Cools ==
  \A r \in Previews :
    /\ status'[r] = "pending" => Hot(r)
    /\ status'[r] = "failed" => status[r] \in {"pending", "failed"}
    /\ status'[r] \in {"pending", "failed"} /\ r \in late => r \in late'

LEMMA PreviewFrame ==
  ASSUME PreviewInv, Cools, restarts' = restarts,
         previewReady' = TRUE => previewReady = TRUE /\ UNCHANGED previewReady,
         previewReady = TRUE => previewReady' = TRUE,
         \A w \in Worker : scr'[w].pc = "previewing" =>
           scr[w].pc = "previewing" /\ scr'[w].announce = scr[w].announce
  PROVE  PreviewInv'
<1> SUFFICES ASSUME restarts = 0 PROVE PreviewInv'
  BY DEF PreviewInv
<1>1. /\ \A r, x \in Previews : Hot(r) /\ Hot(x) => r = x
      /\ previewReady = TRUE => \A r \in Previews : status[r] \in {"pending", "failed"} => r \in late
      /\ \A w \in Worker : scr[w].pc = "previewing" =>
           /\ previewReady = TRUE /\ \A r \in Previews : status[r] # "pending"
           /\ \E l \in Listing : scr[w].announce = {l}
  BY DEF PreviewInv
<1>2. Previews' = Previews
  BY DEF Previews, KindOf
<1>3. \A r \in Previews : Hot(r)' => Hot(r)
  BY DEF Cools, Hot
<1>4. \A r, x \in Previews : Hot(r)' /\ Hot(x)' => r = x
  BY <1>1, <1>3
<1>5. previewReady' = TRUE =>
        \A r \in Previews : status'[r] \in {"pending", "failed"} => r \in late'
  BY <1>1 DEF Cools, Hot
<1>6. ASSUME NEW w \in Worker, scr'[w].pc = "previewing"
      PROVE  /\ previewReady' = TRUE /\ \A r \in Previews : status'[r] # "pending"
             /\ \E l \in Listing : scr'[w].announce = {l}
  <2>1. /\ previewReady = TRUE /\ \A r \in Previews : status[r] # "pending"
        /\ \E l \in Listing : scr[w].announce = {l}
    BY <1>1, <1>6
  <2>2. \A r \in Previews : status'[r] # "pending"
    BY <1>1, <2>1 DEF Cools, Hot
  <2> QED
    BY <1>6, <2>1, <2>2
<1> QED
  BY <1>2, <1>4, <1>5, <1>6 DEF PreviewInv

\* The rows of a table whose status column is written anew.
LEMMA CoolsByWriting ==
  ASSUME NEW f, WriteStatus(f),
         \A r \in Previews : /\ f[r] = "pending" => Hot(r)
                             /\ f[r] = "failed" => status[r] \in {"pending", "failed"}
  PROVE  Cools
BY DEF WriteStatus, Cools

LEMMA CoolsUnchanged == UNCHANGED table => Cools
BY DEF table, Cools, Hot

LEMMA CoolsBySkipping ==
  ASSUME NEW R, SkipStale(R)
  PROVE  Cools
<1> DEFINE f == [r \in Row |-> IF r \in R THEN "skipped" ELSE status[r]]
<1>1. WriteStatus(f)
  BY DEF SkipStale
<1>2. \A r \in Previews : f[r] \in {"skipped", status[r]}
  BY DEF Previews
<1> HIDE DEF f
<1>3. \A r \in Previews : /\ f[r] = "pending" => status[r] = "pending"
                          /\ f[r] = "failed" => status[r] = "failed"
  BY <1>2
<1> QED
  BY <1>1, <1>3, CoolsByWriting DEF Hot

LEMMA PreviewOthers ==
  ASSUME Base, PreviewInv, Flush \/ Requeue \/ Stop \/ Restart \/ Clock \/ Retention \/ UNCHANGED vars
  PROVE  PreviewInv'
<1>0. restarts \in Nat
  BY BoundAssumption DEF Base, TypeOK
<1>1. ASSUME Cools, UNCHANGED <<scr, previewReady, restarts>> PROVE PreviewInv'
  BY <1>1, PreviewFrame
<1>2. ASSUME UNCHANGED <<table, scr, previewReady, restarts>> PROVE PreviewInv'
  BY <1>1, <1>2, CoolsUnchanged
<1>3. CASE Flush
  <2>1. CASE Purge
    BY <1>1, <2>1, CoolsBySkipping DEF Purge
  <2>2. ASSUME NEW drip, FlushSelect(drip) PROVE PreviewInv'
    BY <1>1, <2>2, CoolsBySkipping DEF FlushSelect
  <2>3. CASE DrainEmpty \/ FlushMarkFails
    BY <1>2, <2>3 DEF DrainEmpty, FlushMarkFails
  <2>4. ASSUME NEW r, NEW outcome, Post(r, outcome) PROVE PreviewInv'
    BY <1>2, <2>4 DEF Post
  <2>5. CASE FlushMark
    <3> DEFINE f == [r \in Row |-> IF ~Exists(r) THEN status[r]
                                   ELSE IF r \in fl.failed THEN "failed"
                                   ELSE IF r \in fl.sent THEN "sent"
                                   ELSE status[r]]
    <3>1. WriteStatus(f) /\ UNCHANGED <<scr, previewReady, restarts>>
      BY <2>5 DEF FlushMark
    <3>2. ASSUME NEW r \in Previews
          PROVE  /\ f[r] = "pending" => status[r] = "pending"
                 /\ f[r] = "failed" => status[r] \in {"pending", "failed"}
      <4>1. r \in Row
        BY DEF Previews
      <4>2. r \in fl.failed /\ Exists(r) => status[r] = "pending"
        BY DEF Base, SendingOpen, Sending, Exists
      <4> QED
        BY <4>1, <4>2
    <3> HIDE DEF f
    <3>3. Cools
      BY <3>1, <3>2, CoolsByWriting DEF Hot
    <3> QED
      BY <1>1, <3>1, <3>3
  <2> QED
    BY <1>3, <2>1, <2>2, <2>3, <2>4, <2>5 DEF Flush
<1>4. CASE Requeue
  <2> DEFINE f == [r \in Row |-> IF r \in Requeued THEN "pending"
                                 ELSE IF r \in Retryable THEN "skipped" ELSE status[r]]
  <2>1. WriteStatus(f) /\ UNCHANGED <<scr, previewReady, restarts>>
    BY <1>4 DEF Requeue
  <2>2. \A r \in Requeued : status[r] = "failed" /\ r \notin late
    BY DEF Requeued, Retryable
  <2>3. \A r \in Previews : /\ f[r] = "pending" => r \in Requeued \/ status[r] = "pending"
                            /\ f[r] = "failed" => status[r] = "failed"
    BY DEF Previews
  <2> HIDE DEF f
  <2>4. Cools
    BY <2>1, <2>2, <2>3, CoolsByWriting DEF Hot
  <2> QED
    BY <1>1, <2>1, <2>4
<1>5. CASE Stop \/ UNCHANGED vars
  BY <1>2, <1>5 DEF Stop, vars
<1>6. CASE Restart
  <2>1. restarts' # 0
    BY <1>0, <1>6 DEF Restart
  <2> QED
    BY <2>1 DEF PreviewInv
<1>7. CASE Clock
  <2>1. ASSUME NEW l, GrowStale(l) PROVE PreviewInv'
    BY <1>2, <2>1 DEF GrowStale
  <2>2. ASSUME NEW r, RowAges(r) PROVE PreviewInv'
    <3>1. Cools
      BY <2>2 DEF RowAges, Cools, Hot
    <3> QED
      BY <1>1, <2>2, <3>1 DEF RowAges
  <2>3. CASE PreviewIntervalElapses
    <3>1. /\ previewReady # TRUE /\ UNCHANGED <<table, scr, restarts>>
          /\ \A r \in Previews : status[r] \in {"pending", "failed"} => r \in late
      BY <2>3 DEF PreviewIntervalElapses, Previews
    <3>2. Previews' = Previews /\ \A r \in Previews : Hot(r)' <=> Hot(r)
      BY <3>1 DEF Previews, KindOf, Hot, table
    <3> QED
      BY <3>1, <3>2 DEF PreviewInv, table
  <2> QED
    BY <1>7, <2>1, <2>2, <2>3 DEF Clock
<1>8. CASE Retention
  <2>1. ASSUME NEW old, RetainOutbox(old) PROVE PreviewInv'
    <3> DEFINE f == [r \in Row |-> IF status[r] = "pending" /\ r \notin old THEN "pending" ELSE "none"]
    <3>1. WriteStatus(f) /\ UNCHANGED <<scr, previewReady, restarts>>
      BY <2>1 DEF RetainOutbox
    <3>2. \A r \in Previews : /\ f[r] = "pending" => status[r] = "pending"
                              /\ f[r] # "failed"
      BY DEF Previews
    <3> HIDE DEF f
    <3>3. Cools
      BY <3>1, <3>2, CoolsByWriting DEF Hot
    <3> QED
      BY <1>1, <3>1, <3>3
  <2>2. ASSUME NEW l, DeleteListing(l) PROVE PreviewInv'
    <3> DEFINE f == [r \in Row |-> IF ListingOf(r) = l THEN "none" ELSE status[r]]
    <3>1. WriteStatus(f) /\ UNCHANGED <<scr, previewReady, restarts>>
      BY <2>2 DEF DeleteListing
    <3>2. \A r \in Previews : /\ f[r] = "pending" => status[r] = "pending"
                              /\ f[r] = "failed" => status[r] = "failed"
      BY DEF Previews
    <3> HIDE DEF f
    <3>3. Cools
      BY <3>1, <3>2, CoolsByWriting DEF Hot
    <3> QED
      BY <1>1, <3>1, <3>3
  <2> QED
    BY <1>8, <2>1, <2>2 DEF Retention
<1> QED
  BY <1>3, <1>4, <1>5, <1>6, <1>7, <1>8

LEMMA PreviewScrape ==
  ASSUME OneScraper, Base, SoloInv, PreviewInv, NEW w \in Worker, Scrape(w)
  PROVE  PreviewInv'
<1>0. /\ scr \in [Worker -> ScraperState] /\ Worker = {w} /\ previewReady \in BOOLEAN
      /\ scr[w].insert \subseteq Key
  BY DEF OneScraper, Base, TypeOK, ScraperState
<1>1. ASSUME Cools, UNCHANGED <<previewReady, restarts>>, scr'[w].pc # "previewing"
      PROVE  PreviewInv'
  BY <1>0, <1>1, PreviewFrame
<1>2. ASSUME UNCHANGED <<table, previewReady, restarts>>, scr'[w].pc # "previewing"
      PROVE  PreviewInv'
  BY <1>1, <1>2, CoolsUnchanged
<1>3. CASE \/ \E q \in Query \cup FilterQuery, P \in SUBSET Listing : UpsertPage(w, q, P)
           \/ BootstrapSilence(w) \/ BootstrapCheckpoint(w) \/ EnqueueRead(w)
           \/ EnqueueAbort(w) \/ PreviewSkip(w)
  <2>1. ASSUME NEW q, NEW P, UpsertPage(w, q, P) PROVE PreviewInv'
    BY <1>0, <1>2, <2>1 DEF UpsertPage, IdleScraper
  <2>2. CASE BootstrapSilence(w)
    BY <1>0, <1>2, <2>2 DEF BootstrapSilence, ScraperState
  <2>3. CASE BootstrapCheckpoint(w) \/ EnqueueAbort(w) \/ PreviewSkip(w)
    BY <1>0, <1>2, <2>3 DEF BootstrapCheckpoint, EnqueueAbort, PreviewSkip, IdleScraper
  <2>4. CASE EnqueueRead(w)
    <3>1. scr'[w].pc = "inserting"
      BY <1>0, <2>4 DEF EnqueueRead, ScraperState
    <3> QED
      BY <1>2, <2>4, <3>1 DEF EnqueueRead
  <2> QED
    BY <1>3, <2>1, <2>2, <2>3, <2>4
<1>4. ASSUME NEW qualified, NEW hard, NEW top, Select(w, qualified, hard, top) PROVE PreviewInv'
  <2>1. scr'[w].pc # "previewing"
    BY <1>0, <1>4, PreviewOrIdleFields DEF Select, IdleScraper, ScraperState
  <2> QED
    BY <1>2, <1>4, <2>1 DEF Select
<1>5. CASE EnqueueCommit(w)
  <2>1. /\ scr[w].pc = "inserting" /\ Insert(scr[w].insert) /\ UNCHANGED <<previewReady, restarts>>
        /\ scr'[w].pc # "previewing"
    BY <1>0, <1>5, PreviewOrIdleFields DEF EnqueueCommit
  <2>2. \A k \in scr[w].insert : k[2] # "preview"
    BY <2>1 DEF SoloInv, InsertFree
  <2> DEFINE f == [r \in Row |-> IF KeyOf(r) \in scr[w].insert /\ r = NewRow(KeyOf(r)) THEN "pending"
                                 ELSE status[r]]
  <2>3. WriteStatus(f)
    BY <2>1 DEF Insert
  <2>4. \A r \in Previews : f[r] = status[r]
    BY <2>2 DEF Previews, KindOf, KeyOf
  <2> HIDE DEF f
  <2>5. Cools
    BY <2>3, <2>4, CoolsByWriting DEF Hot
  <2> QED
    BY <1>1, <2>1, <2>5
<1>6. ASSUME NEW l \in Listing, PreviewCheck(w, l) PROVE PreviewInv'
  <2>1. /\ previewReady = TRUE /\ (\A r \in Previews : status[r] # "pending")
        /\ UNCHANGED <<table, previewReady, restarts>>
    BY <1>0, <1>6 DEF PreviewCheck, Previews, Pending
  <2>2. scr'[w].announce = {l}
    BY <1>0, <1>6 DEF PreviewCheck, ScraperState
  <2>3. Previews' = Previews /\ \A r \in Previews : Hot(r)' <=> Hot(r)
    BY <2>1 DEF Previews, KindOf, Hot, table
  <2> QED
    BY <1>0, <2>1, <2>2, <2>3 DEF PreviewInv, table
<1>7. CASE PreviewInsert(w)
  <2> DEFINE K == {k \in Key : k[1] \in scr[w].announce \cap inDb /\ k[2] = "preview"}
  <2>1. scr[w].pc = "previewing" /\ scr'[w].pc # "previewing" /\ UNCHANGED restarts
    BY <1>0, <1>7 DEF PreviewInsert, IdleScraper
  <2>2. \/ UNCHANGED <<table, previewReady>>
        \/ Insert(K) /\ previewReady' = FALSE
    BY <1>7 DEF PreviewInsert
  <2>3. CASE UNCHANGED <<table, previewReady>>
    BY <1>2, <2>1, <2>3
  <2>4. CASE Insert(K) /\ previewReady' = FALSE
    <3> SUFFICES ASSUME restarts = 0 PROVE PreviewInv'
      BY <2>1 DEF PreviewInv
    <3>1. PICK l \in Listing : scr[w].announce = {l}
      BY <2>1 DEF PreviewInv
    <3>2. \A r \in Previews : status[r] # "pending" /\ (status[r] = "failed" => r \in late)
      BY <2>1 DEF PreviewInv
    <3>3. \A k \in K : k = <<l, "preview">>
      BY <3>1 DEF Key
    <3>4. \A r \in Row : status'[r] = IF KeyOf(r) \in K /\ r = NewRow(KeyOf(r)) THEN "pending"
                                      ELSE status[r]
      BY <2>4 DEF Insert, WriteStatus
    <3>5. \A r \in late : status'[r] \in {"pending", "failed"} /\ r \in Row => r \in late'
      BY <2>4 DEF Insert, WriteStatus
    <3>6. ASSUME NEW r \in Previews, Hot(r)'
          PROVE  r = NewRow(<<l, "preview">>)
      <4>1. r \in Row
        BY DEF Previews
      <4>2. ASSUME ~(KeyOf(r) \in K /\ r = NewRow(KeyOf(r))) PROVE FALSE
        BY <3>2, <3>4, <3>5, <3>6, <4>1, <4>2 DEF Hot
      <4> QED
        BY <3>3, <4>2
    <3>7. Previews' = Previews
      BY DEF Previews, KindOf
    <3> QED
      BY <1>0, <2>1, <2>4, <3>6, <3>7 DEF PreviewInv
  <2> QED
    BY <2>2, <2>3, <2>4
<1> QED
  BY <1>3, <1>4, <1>5, <1>6, <1>7 DEF Scrape

LEMMA PreviewAlways == OneScraper /\ Spec => [](PreviewInv /\ SoloInv /\ Base)
<1>1. Init => PreviewInv
  BY DEF Init, PreviewInv, IdleScraper, Hot, Previews
<1>2. OneScraper => OneScraper'
  BY DEF OneScraper
<1>3. OneScraper /\ Base /\ SoloInv /\ PreviewInv /\ [Next]_vars => OneScraper' /\ PreviewInv'
  BY <1>2, PreviewScrape, PreviewOthers DEF Next
<1> QED
  BY <1>1, <1>3, BaseAlways, SoloAlways, PTL DEF Spec

(* With one scrape thread the retry of recent failures is never rejected by the      *)
(* unique index on pending rows before the first restart, whatever fails, ages or is *)
(* deleted: of a preview at most one row is pending or may be retried, because the   *)
(* interval outlasts the retry window, and of the other rows one only is live        *)
(* (requeue_retryable_failed_outbox, enqueue_bot_preview_from_candidates).           *)
THEOREM RequeueNotBlockedAlways == OneScraper /\ Spec => []RequeueNotBlocked
<1>1. ASSUME PreviewInv, SoloInv, Base PROVE RequeueNotBlocked
  <2> SUFFICES ASSUME restarts = 0,
                      NEW r \in Requeued, NEW x \in (Pending \cup Requeued) \ {r}, KeyOf(x) = KeyOf(r)
               PROVE  FALSE
    <3>1. restarts = 0 \/ restarts > 0
      BY <1>1, BoundAssumption DEF Base, TypeOK
    <3> QED
      BY <3>1 DEF RequeueNotBlocked, RequeueAborts
  <2>1. r \in Row /\ x \in Row /\ r # x /\ Hot(r) /\ Hot(x)
    BY DEF Requeued, Retryable, Pending, Hot
  <2>2. CASE KindOf(r) = "preview"
    <3>1. r \in Previews /\ x \in Previews
      BY <2>1, <2>2 DEF Previews, KindOf, KeyOf
    <3> QED
      BY <1>1, <2>1, <3>1 DEF PreviewInv
  <2>3. CASE KindOf(r) # "preview"
    <3>1. KeyOf(r) \in Key /\ KeyOf(r)[2] # "preview"
      BY <2>1, <2>3, RowParts DEF KindOf, KeyOf
    <3>2. r \in Live(KeyOf(r)) /\ x \in Live(KeyOf(r))
      BY <2>1 DEF Live, Hot, DedupStatus
    <3> QED
      BY <1>1, <2>1, <3>1, <3>2 DEF SoloInv, OneLiveRowPerKey
  <2> QED
    BY <2>2, <2>3
<1> QED
  BY <1>1, PreviewAlways, PTL

=============================================================================
