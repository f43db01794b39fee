------------------------- MODULE PrivateAlertQueue -------------------------
(***************************************************************************)
(* The direct messages of the members' private filters: scrape threads     *)
(* match fresh listings against the filters and enqueue alerts in a memory *)
(* queue that spills to the table private_alert_outbox when it is nearly   *)
(* full; one daemon thread sends them.  An alert is a (filter, listing)    *)
(* pair.  One action is one database transaction, one Discord request or   *)
(* one critical section of the in-flight set.                              *)
(***************************************************************************)
EXTENDS Integers, Sequences, FiniteSets

CONSTANTS
  Alert,           \* (filter_id, vinted_id) pairs whose listing matches the filter
  Filter,          \* private filters
  FilterOf,        \* [Alert -> Filter]
  NoAlert,         \* the alert of an idle thread
  Scraper,         \* scrape threads
  SpillThreshold,  \* queue size from which alerts are spilled (4000 in the code)
  QueueMax,        \* capacity of the memory queue (5000 in the code)
  MaxFaults,       \* bound: failed requests and transactions
  MaxRestarts,     \* bound: process restarts
  MaxDms           \* bound: where the count of messages per alert saturates

ASSUME AlertAssumption == IsFiniteSet(Alert) /\ NoAlert \notin Alert /\ FilterOf \in [Alert -> Filter]
ASSUME ScraperAssumption == IsFiniteSet(Scraper)
ASSUME QueueAssumption == SpillThreshold \in Nat /\ QueueMax \in Nat /\ SpillThreshold <= QueueMax
ASSUME BoundAssumption == MaxFaults \in Nat /\ MaxRestarts \in Nat /\ MaxDms \in Nat \ {0}

SpillStatus == {"none", "pending", "sending", "sent", "failed"}
ScraperPc == {"idle", "found", "put", "spill", "full"}
SenderPc == {"off", "boot", "idle", "poll", "dm", "record", "mark", "retry", "refused", "release"}
Source == {"memory", "spill", "deleted"}  \* "deleted": the row taken is deleted

VARIABLES
  fresh,     \* alerts whose listing is younger than private_filter_max_age_seconds
  filters,   \* filters that exist
  alerted,   \* rows of user_filter_alerts
  inflight,  \* _inflight: alerts claimed by the process
  queue,     \* _queue: the memory queue
  spill,     \* private_alert_outbox.status; "none": no such row
  before,    \* <<a, b>>: the row of a has a smaller id than the row of b
  scr,       \* local state of each scrape thread
  snd,       \* local state of the sender thread
  faults,    \* failed requests and transactions so far
  restarts,  \* process restarts so far
  dms,       \* history: direct messages Discord accepted for each alert
  refused    \* history: alerts Discord refused for good

tables == <<alerted, spill, before>>
memory == <<inflight, queue, scr, snd>>
hist == <<dms, refused>>
vars == <<fresh, filters, tables, memory, faults, restarts, hist>>

IdleScraper == [pc |-> "idle", found |-> {}, cur |-> NoAlert]
IdleSender == [pc |-> "idle", alert |-> NoAlert, from |-> "memory"]
OffSender == [IdleSender EXCEPT !.pc = "off"]

Rows(S) == {a \in Alert : spill[a] \in S}

\* The next alert of a thread that is done with the current one.
NextFound(s) ==
  [s EXCEPT !.pc = IF s.found \ {s.cur} = {} THEN "idle" ELSE "found",
            !.found = @ \ {s.cur}, !.cur = NoAlert]

\* The row of a, unless the table has one already (ON CONFLICT DO NOTHING).
InsertRow(a) ==
  IF spill[a] = "none"
  THEN /\ spill' = [spill EXCEPT ![a] = "pending"]
       /\ before' = before \cup {<<x, a>> : x \in Rows(SpillStatus \ {"none"})}
  ELSE UNCHANGED <<spill, before>>

\* Deleting rows deletes them from the id order.
DeleteRows(D) ==
  /\ spill' = [a \in Alert |-> IF a \in D THEN "none" ELSE spill[a]]
  /\ before' = {p \in before : p[1] \notin D /\ p[2] \notin D}

\* An update by id does nothing once the row is deleted: the alert may have a new row.
SetRow(a, st) == spill' = [spill EXCEPT ![a] = IF snd.from = "deleted" THEN @ ELSE st]

\* Something fails (nothing is written, or the answer is lost).
Fault == faults < MaxFaults /\ faults' = faults + 1

Init ==
  /\ fresh = Alert /\ filters = Filter
  /\ alerted = {} /\ inflight = {} /\ queue = <<>>
  /\ spill = [a \in Alert |-> "none"] /\ before = {}
  /\ scr = [w \in Scraper |-> IdleScraper]
  /\ snd = OffSender
  /\ faults = 0 /\ restarts = 0
  /\ dms = [a \in Alert |-> 0] /\ refused = {}

----------------------------------------------------------------------------
(* Scrape threads: find_private_matches, send_private_filter_alerts, enqueue *)

\* Mutation: the alerts already sent are not looked at.
MatchingAll == {a \in fresh : FilterOf[a] \in filters}

Matching == {a \in fresh \ alerted : FilterOf[a] \in filters}

\* A page is matched against the active filters; the alerts already sent are read
\* in the same transaction.  The page, the paused filters and the cap per scrape may
\* leave out any match.  The first match starts the sender if the pool did not.
Match(w, M) ==
  /\ scr[w].pc = "idle"
  /\ M # {} /\ M \subseteq Matching
  /\ scr' = [scr EXCEPT ![w] = [pc |-> "found", found |-> M, cur |-> NoAlert]]
  /\ snd' = IF snd.pc = "off" THEN [snd EXCEPT !.pc = "boot"] ELSE snd
  /\ UNCHANGED <<fresh, filters, tables, inflight, queue, faults, restarts, hist>>

\* Alerts are spilled once the queue is nearly full.
FirstChoice == IF Len(queue) >= SpillThreshold THEN "spill" ELSE "put"

\* Mutation: the claim does not look whether the alert is already claimed.
ClaimAnyway(w, a) ==
  /\ scr[w].pc = "found" /\ a \in scr[w].found
  /\ inflight' = inflight \cup {a}
  /\ scr' = [scr EXCEPT ![w] = [@ EXCEPT !.cur = a, !.pc = FirstChoice]]
  /\ UNCHANGED <<fresh, filters, tables, queue, snd, faults, restarts, hist>>

\* The claim, under the lock; then the size of the queue decides where the alert goes.
Claim(w, a) ==
  /\ scr[w].pc = "found" /\ a \in scr[w].found
  /\ IF a \in inflight
     THEN /\ scr' = [scr EXCEPT ![w] = NextFound([@ EXCEPT !.cur = a])]
          /\ UNCHANGED inflight
     ELSE /\ inflight' = inflight \cup {a}
          /\ scr' = [scr EXCEPT ![w] = [@ EXCEPT !.cur = a, !.pc = FirstChoice]]
  /\ UNCHANGED <<fresh, filters, tables, queue, snd, faults, restarts, hist>>

\* put_nowait; other threads may have filled the queue meanwhile.
Put(w) ==
  /\ scr[w].pc = "put"
  /\ IF Len(queue) < QueueMax
     THEN /\ queue' = Append(queue, scr[w].cur)
          /\ scr' = [scr EXCEPT ![w] = NextFound(@)]
     ELSE /\ scr' = [scr EXCEPT ![w].pc = "full"]
          /\ UNCHANGED queue
  /\ UNCHANGED <<fresh, filters, tables, inflight, snd, faults, restarts, hist>>

\* _spill_to_db: the claim is kept until the row is sent.
Spill(w) ==
  /\ scr[w].pc \in {"spill", "full"}
  /\ InsertRow(scr[w].cur)
  /\ scr' = [scr EXCEPT ![w] = NextFound(@)]
  /\ UNCHANGED <<fresh, filters, alerted, inflight, queue, snd, faults, restarts, hist>>

\* The spill fails: the memory queue is the second choice; when it was the first one
\* and is full, the claim is released and the alert dropped.
SpillFails(w) ==
  /\ scr[w].pc \in {"spill", "full"} /\ Fault
  /\ IF scr[w].pc = "spill"
     THEN /\ scr' = [scr EXCEPT ![w].pc = "put"]
          /\ UNCHANGED inflight
     ELSE /\ scr' = [scr EXCEPT ![w] = NextFound(@)]
          /\ inflight' = inflight \ {scr[w].cur}
  /\ UNCHANGED <<fresh, filters, tables, queue, snd, restarts, hist>>

----------------------------------------------------------------------------
(* Sender thread: _worker_loop *)

\* _recover_stale_sending_rows, once: of the rows left sending by a dead process, those
\* spilled more than 300 s ago become pending again; the younger ones stay sending.
Recover(R) ==
  /\ snd.pc = "boot" /\ R \subseteq Rows({"sending"})
  /\ spill' = [a \in Alert |-> IF a \in R THEN "pending" ELSE spill[a]]
  /\ snd' = IdleSender
  /\ UNCHANGED <<fresh, filters, alerted, before, inflight, queue, scr, faults, restarts, hist>>

TakeMemory ==
  /\ snd.pc = "idle" /\ queue # <<>>
  /\ snd' = [pc |-> "dm", alert |-> Head(queue), from |-> "memory"]
  /\ queue' = Tail(queue)
  /\ UNCHANGED <<fresh, filters, tables, inflight, scr, faults, restarts, hist>>

\* The queue stayed empty for a second.
QueueEmpty ==
  /\ snd.pc = "idle" /\ queue = <<>>
  /\ snd' = [snd EXCEPT !.pc = "poll"]
  /\ UNCHANGED <<fresh, filters, tables, inflight, queue, scr, faults, restarts, hist>>

\* Mutation: rows whose alert is claimed are passed over.
OldestUnclaimed(a) ==
  LET free == Rows({"pending"}) \ inflight
  IN  a \in free /\ \A x \in free : <<x, a>> \notin before

Oldest(a) == spill[a] = "pending" /\ \A x \in Rows({"pending"}) : <<x, a>> \notin before

\* _claim_next_spill: the oldest pending row, or nothing.
TakeSpill(a) ==
  /\ snd.pc = "poll" /\ Oldest(a)
  /\ spill' = [spill EXCEPT ![a] = "sending"]
  /\ inflight' = inflight \cup {a}
  /\ snd' = [pc |-> "dm", alert |-> a, from |-> "spill"]
  /\ UNCHANGED <<fresh, filters, alerted, before, queue, scr, faults, restarts, hist>>

\* The transaction fails at its commit: the row stays pending, the claim stays made.
TakeSpillFails(a) ==
  /\ snd.pc = "poll" /\ Oldest(a) /\ Fault
  /\ inflight' = inflight \cup {a}
  /\ snd' = IdleSender
  /\ UNCHANGED <<fresh, filters, tables, queue, scr, restarts, hist>>

NoSpill ==
  /\ snd.pc = "poll" /\ Rows({"pending"}) = {}
  /\ snd' = IdleSender
  /\ UNCHANGED <<fresh, filters, tables, inflight, queue, scr, faults, restarts, hist>>

\* send_dm_payload: accepted; refused for good (is_permanent_dm_error); or failed,
\* maybe after Discord accepted the message.
SendDm(outcome) ==
  /\ snd.pc = "dm"
  /\ IF outcome \in {"ok", "refused"} THEN UNCHANGED faults ELSE Fault
  /\ dms' = [dms EXCEPT ![snd.alert] = IF outcome \in {"ok", "lost"} /\ @ < MaxDms THEN @ + 1 ELSE @]
  /\ refused' = IF outcome = "refused" THEN refused \cup {snd.alert} ELSE refused
  /\ snd' = [snd EXCEPT !.pc = CASE outcome = "ok" -> "record"
                                 [] outcome = "refused" -> "refused"
                                 [] OTHER -> "retry"]
  /\ UNCHANGED <<fresh, filters, tables, inflight, queue, scr, restarts>>

\* record_filter_alert: a second row for the pair is swallowed, but the foreign key of
\* a deleted filter is an error like any other, and the alert is retried.
RecordRejected == FilterOf[snd.alert] \notin filters

\* Mutation: the session is closed without a commit.
RecordNothing ==
  /\ snd.pc = "record" /\ ~RecordRejected
  /\ snd' = [snd EXCEPT !.pc = IF snd.from = "memory" THEN "release" ELSE "mark"]
  /\ UNCHANGED <<fresh, filters, tables, inflight, queue, scr, faults, restarts, hist>>

Record ==
  /\ snd.pc = "record" /\ ~RecordRejected
  /\ alerted' = alerted \cup {snd.alert}
  /\ snd' = [snd EXCEPT !.pc = IF snd.from = "memory" THEN "release" ELSE "mark"]
  /\ UNCHANGED <<fresh, filters, spill, before, inflight, queue, scr, faults, restarts, hist>>

RecordFails ==
  /\ snd.pc = "record"
  /\ IF RecordRejected THEN UNCHANGED faults ELSE Fault
  /\ snd' = [snd EXCEPT !.pc = "retry"]
  /\ UNCHANGED <<fresh, filters, tables, inflight, queue, scr, restarts, hist>>

MarkSent ==
  /\ snd.pc = "mark"
  /\ SetRow(snd.alert, "sent")
  /\ snd' = [snd EXCEPT !.pc = "release"]
  /\ UNCHANGED <<fresh, filters, alerted, before, inflight, queue, scr, faults, restarts, hist>>

MarkSentFails ==
  /\ snd.pc = "mark" /\ Fault
  /\ snd' = [snd EXCEPT !.pc = "retry"]
  /\ UNCHANGED <<fresh, filters, tables, inflight, queue, scr, restarts, hist>>

\* Mutation: an alert of the memory queue is not put back.
RetryRowsOnly ==
  /\ snd.pc = "retry"
  /\ SetRow(snd.alert, IF snd.from = "memory" THEN spill[snd.alert] ELSE "pending")
  /\ snd' = [snd EXCEPT !.pc = "release"]
  /\ UNCHANGED <<fresh, filters, alerted, before, inflight, queue, scr, faults, restarts, hist>>

\* A failed alert goes (back) to the table.
Retry ==
  /\ snd.pc = "retry"
  /\ IF snd.from = "memory"
     THEN InsertRow(snd.alert)
     ELSE SetRow(snd.alert, "pending") /\ UNCHANGED before
  /\ snd' = [snd EXCEPT !.pc = "release"]
  /\ UNCHANGED <<fresh, filters, alerted, inflight, queue, scr, faults, restarts, hist>>

\* The writing of a retry or of a refusal fails: a row stays sending, an alert of the
\* memory queue is lost.
WriteFails ==
  /\ snd.pc \in {"retry", "refused"} /\ Fault
  /\ snd.pc = "refused" => snd.from # "memory"
  /\ snd' = [snd EXCEPT !.pc = "release"]
  /\ UNCHANGED <<fresh, filters, tables, inflight, queue, scr, restarts, hist>>

\* A refused alert is given up.
GiveUp ==
  /\ snd.pc = "refused"
  /\ IF snd.from = "memory" THEN UNCHANGED spill ELSE SetRow(snd.alert, "failed")
  /\ snd' = [snd EXCEPT !.pc = "release"]
  /\ UNCHANGED <<fresh, filters, alerted, before, inflight, queue, scr, faults, restarts, hist>>

\* Whatever happened, the claim ends with the attempt (the finally clause).
Release ==
  /\ snd.pc = "release"
  /\ inflight' = inflight \ {snd.alert}
  /\ snd' = IdleSender
  /\ UNCHANGED <<fresh, filters, tables, queue, scr, faults, restarts, hist>>

----------------------------------------------------------------------------
(* Members, clock, retention, process *)

GrowOld(a) ==
  /\ a \in fresh
  /\ fresh' = fresh \ {a}
  /\ UNCHANGED <<filters, tables, memory, faults, restarts, hist>>

\* Nothing remembers the listing of a: the alert stands for the one of a new listing.
Forgotten(a) ==
  /\ a \notin fresh \cup alerted \cup inflight /\ spill[a] = "none"
  /\ snd.alert # a /\ \A i \in 1..Len(queue) : queue[i] # a
  /\ \A w \in Scraper : scr[w].cur # a /\ a \notin scr[w].found

\* A new listing matches a filter: the stream of alerts has no end.
NewListing(a) ==
  /\ Forgotten(a)
  /\ fresh' = fresh \cup {a}
  /\ dms' = [dms EXCEPT ![a] = 0] /\ refused' = refused \ {a}
  /\ UNCHANGED <<filters, tables, memory, faults, restarts>>

\* delete_user_filter: the sent alerts of the filter go with it, its spill rows stay.
DeleteFilter(f) ==
  /\ f \in filters
  /\ filters' = filters \ {f}
  /\ alerted' = {a \in alerted : FilterOf[a] # f}
  /\ UNCHANGED <<fresh, spill, before, memory, faults, restarts, hist>>

\* The sender may be at work on a row that is deleted.
Overtaken == snd' = IF snd.from = "spill" THEN [snd EXCEPT !.from = "deleted"] ELSE snd

\* run_db_retention_once: rows that are not pending, pending rows of at least 6 hours
\* and sent alerts of at least a day are deleted.
Retain(D, F) ==
  /\ D \subseteq Rows({"pending"}) \ fresh /\ F \subseteq alerted \ fresh
  /\ DeleteRows(D \cup Rows({"sending", "sent", "failed"}))
  /\ alerted' = alerted \ F
  /\ Overtaken
  /\ UNCHANGED <<fresh, filters, inflight, queue, scr, faults, restarts, hist>>

\* Redeploy or crash: the queue, the claims and the threads are lost.
Restart ==
  /\ restarts < MaxRestarts
  /\ restarts' = restarts + 1
  /\ inflight' = {} /\ queue' = <<>>
  /\ scr' = [w \in Scraper |-> IdleScraper]
  /\ snd' = OffSender
  /\ UNCHANGED <<fresh, filters, tables, faults, hist>>

\* run_permanent_scrape_pool starts the sender before the scrape threads; one-shot
\* commands leave that to the first match.
StartPool ==
  /\ snd.pc = "off"
  /\ snd' = [snd EXCEPT !.pc = "boot"]
  /\ UNCHANGED <<fresh, filters, tables, inflight, queue, scr, faults, restarts, hist>>

----------------------------------------------------------------------------
Scrape(w) ==
  \/ \E M \in SUBSET Matching : Match(w, M)
  \/ \E a \in scr[w].found : Claim(w, a)
  \/ Put(w)
  \/ Spill(w)
  \/ SpillFails(w)

Send ==
  \/ \E R \in SUBSET Rows({"sending"}) : Recover(R)
  \/ TakeMemory
  \/ QueueEmpty
  \/ \E a \in Alert : TakeSpill(a) \/ TakeSpillFails(a)
  \/ NoSpill
  \/ \E outcome \in {"ok", "refused", "failed", "lost"} : SendDm(outcome)
  \/ Record
  \/ RecordFails
  \/ MarkSent
  \/ MarkSentFails
  \/ Retry
  \/ WriteFails
  \/ GiveUp
  \/ Release

Environment ==
  \/ \E a \in Alert : GrowOld(a) \/ NewListing(a)
  \/ \E f \in Filter : DeleteFilter(f)
  \/ \E D \in SUBSET Rows({"pending"}), F \in SUBSET alerted : Retain(D, F)
  \/ Restart
  \/ StartPool

Next == (\E w \in Scraper : Scrape(w)) \/ Send \/ Environment

Spec == Init /\ [][Next]_vars

\* The sender loops for as long as the process lives.
Fairness == WF_vars(Send)

FairSpec == Spec /\ Fairness

----------------------------------------------------------------------------
(* Properties *)

(* The types of the tables, of the queue and of the threads' local variables.       *)
TypeOK ==
  /\ fresh \subseteq Alert /\ filters \subseteq Filter
  /\ alerted \subseteq Alert /\ inflight \subseteq Alert
  /\ queue \in Seq(Alert) /\ Len(queue) <= QueueMax
  /\ spill \in [Alert -> SpillStatus]
  /\ before \subseteq Alert \X Alert
  /\ scr \in [Scraper -> [pc : ScraperPc, found : SUBSET Alert, cur : Alert \cup {NoAlert}]]
  /\ snd \in [pc : SenderPc, alert : Alert \cup {NoAlert}, from : Source]
  /\ faults \in 0..MaxFaults /\ restarts \in 0..MaxRestarts
  /\ dms \in [Alert -> 0..MaxDms]
  /\ refused \subseteq Alert

\* The copies of an alert that may still be sent: in the hands of a scrape thread, in
\* the queue, pending in the table, in the hands of the sender.
Holders(a) == {w \in Scraper : scr[w].cur = a}
Queued(a) == {i \in 1..Len(queue) : queue[i] = a}
Held(a) == snd.alert = a /\ snd.pc # "release"
Waiting(a) == spill[a] = "pending"

Copies(a) ==
  Cardinality(Holders(a)) + Cardinality(Queued(a))
    + (IF Held(a) THEN 1 ELSE 0) + (IF Waiting(a) THEN 1 ELSE 0)

(* Without failures and restarts the claim makes the scrape threads, the queue, the *)
(* table and the sender mutually exclusive: there is at most one copy of an alert,   *)
(* and its claim is held.                                                            *)
OneCopy ==
  faults = 0 /\ restarts = 0 =>
    \A a \in Alert : FilterOf[a] \in filters =>
      Copies(a) <= 1 /\ (Copies(a) = 1 => a \in inflight)

(* Without failures and restarts a member is told of a listing once, plus at most    *)
(* once per scrape thread that matched it before the first message was recorded.     *)
DmsBounded ==
  faults = 0 /\ restarts = 0 =>
    \A a \in Alert : FilterOf[a] \in filters => dms[a] <= 1 + Cardinality(Scraper)

(* A spill row is sent only once the alert is recorded: whatever happens next, the   *)
(* listing is not matched again while it is fresh.                                   *)
SentRowRecorded ==
  \A a \in fresh : spill[a] = "sent" /\ FilterOf[a] \in filters => a \in alerted

(* Failures and restarts cost at most two messages each: the one whose answer or   *)
(* record is lost, and the one of the listing matched again beside the copy that is  *)
(* put back, once the failed attempt has given up the claim.                         *)
DmsPerFailure ==
  \A a \in Alert : FilterOf[a] \in filters =>
    dms[a] <= 1 + Cardinality(Scraper) + 2 * (faults + restarts)

Kept(a) == Holders(a) # {} \/ Queued(a) # {} \/ Held(a) \/ Waiting(a)

\* A row that is left sending: no sender is at work on it.
Orphan(a) == spill[a] = "sending" /\ ~(Held(a) /\ snd.from = "spill")

\* The failures so far, a queue found full, and a row deleted while it was being sent.
Mishaps(a) ==
  faults' + (IF \E w \in Holders(a) : scr[w].pc = "full" THEN 1 ELSE 0)
    + (IF snd.from = "deleted" /\ snd.alert = a THEN 1 ELSE 0)

(* A single failure loses no alert: the last copy of an alert is given up only once *)
(* it was sent or refused or is too old, by a restart, after two mishaps (failed      *)
(* calls, a queue found full, a row deleted by the retention while it is being sent), *)
(* or because an orphan row of an earlier restart swallows the alert put back.        *)
LastCopyKept ==
  [][\A a \in Alert : Kept(a) /\ ~Kept(a)' =>
       dms[a] > 0 \/ a \in refused \/ a \notin fresh \/ restarts' # restarts
         \/ Mishaps(a) >= 2 \/ Orphan(a)]_vars

(* The sender reads the table when the queue was empty for a second.  As long as it  *)
(* does so again and again, which a queue that never empties prevents for ever, a     *)
(* spilled alert is sent, refused or deleted by the retention, or is left sending by  *)
(* a restart or by two failures.  Failures are finitely many and no filter is         *)
(* deleted: the row of a deleted filter fails for ever before the others.             *)
SpilledSettles ==
  []<>(snd.pc = "poll") =>
    \A a \in Alert : spill[a] = "pending" ~>
      \/ dms[a] > 0 \/ a \in refused \/ spill[a] = "none" \/ Orphan(a)
      \/ filters # Filter

(* One message per filter and listing (models.py:420).                               *)
OneDmPerAlert == \A a \in Alert : dms[a] <= 1

=============================================================================
