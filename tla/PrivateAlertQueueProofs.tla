---------------------- MODULE PrivateAlertQueueProofs ----------------------
(***************************************************************************)
(* Theorems about PrivateAlertQueue for every set of alerts, filters and   *)
(* scrape threads, every capacity of the queue and every bound.            *)
(***************************************************************************)
EXTENDS PrivateAlertQueue, FiniteSetTheorems, TLAPS

ScraperState == [pc : ScraperPc, found : SUBSET Alert, cur : Alert \cup {NoAlert}]
SenderState == [pc : SenderPc, alert : Alert \cup {NoAlert}, from : Source]

(* A thread that works on an alert has one.                                         *)
Busy == {"put", "spill", "full"}
AtRest == {"off", "boot", "idle", "poll"}

TypeInv ==
  /\ TypeOK
  /\ \A w \in Scraper : scr[w].pc \in Busy => scr[w].cur \in Alert
  /\ snd.pc \notin AtRest => snd.alert \in Alert

----------------------------------------------------------------------------
(* Type correctness *)

LEMMA NextFoundFields ==
  ASSUME NEW s \in ScraperState
  PROVE  /\ NextFound(s) \in ScraperState
         /\ NextFound(s).pc \in {"idle", "found"} /\ NextFound(s).cur = NoAlert
         /\ NextFound(s).found = s.found \ {s.cur}
<1> DEFINE pc == IF s.found \ {s.cur} = {} THEN "idle" ELSE "found"
<1>1. NextFound(s) = [f \in {"pc", "found", "cur"} |->
        CASE f = "pc" -> pc [] f = "found" -> s.found \ {s.cur} [] OTHER -> NoAlert]
  <2> HIDE DEF pc
  <2>1. NextFound(s) = [s EXCEPT !.pc = pc, !.found = s.found \ {s.cur}, !.cur = NoAlert]
    BY DEF NextFound, pc
  <2>2. DOMAIN s = {"pc", "found", "cur"}
    BY DEF ScraperState
  <2> QED
    BY <2>1, <2>2
<1>2. NextFound(s) = [pc |-> pc, found |-> s.found \ {s.cur}, cur |-> NoAlert]
  BY <1>1
<1>3. pc \in {"idle", "found"}
  OBVIOUS
<1> HIDE DEF pc
<1> QED
  BY <1>2, <1>3 DEF ScraperState, ScraperPc

(* Inserting a row keeps the types of the table.                                    *)
LEMMA InsertRowType ==
  ASSUME TypeInv, NEW a \in Alert, InsertRow(a)
  PROVE  spill' \in [Alert -> SpillStatus] /\ before' \subseteq Alert \X Alert
BY DEF InsertRow, Rows, TypeInv, TypeOK, SpillStatus

LEMMA DeleteRowsType ==
  ASSUME TypeInv, NEW D, DeleteRows(D)
  PROVE  spill' \in [Alert -> SpillStatus] /\ before' \subseteq Alert \X Alert
BY DEF DeleteRows, TypeInv, TypeOK, SpillStatus

LEMMA SetRowType ==
  ASSUME TypeInv, NEW a, NEW st \in SpillStatus, SetRow(a, st)
  PROVE  spill' \in [Alert -> SpillStatus]
BY DEF SetRow, TypeInv, TypeOK, SpillStatus

LEMMA FaultType ==
  ASSUME TypeInv, Fault \/ UNCHANGED faults
  PROVE  faults' \in 0..MaxFaults
BY BoundAssumption DEF Fault, TypeInv, TypeOK

(* What the deletion of its row tells the sender.                                   *)
LEMMA OvertakenEffect ==
  ASSUME TypeInv, Overtaken
  PROVE  /\ snd' \in SenderState /\ snd'.pc = snd.pc /\ snd'.alert = snd.alert
         /\ snd'.from \in {snd.from, "deleted"}
BY DEF Overtaken, TypeInv, TypeOK, SenderState, Source

(* The types of what a scrape thread writes.                                        *)
LEMMA ScraperMoves ==
  ASSUME TypeInv, NEW w \in Scraper, NEW s \in ScraperState, s.pc \in Busy => s.cur \in Alert,
         scr' = [scr EXCEPT ![w] = s],
         inflight' \subseteq Alert, queue' \in Seq(Alert), Len(queue') <= QueueMax,
         spill' \in [Alert -> SpillStatus], before' \subseteq Alert \X Alert,
         snd' \in SenderState, snd'.pc \notin AtRest => snd'.alert \in Alert,
         Fault \/ UNCHANGED faults,
         UNCHANGED <<fresh, filters, alerted, restarts, hist>>
  PROVE  TypeInv'
<1>1. scr' \in [Scraper -> ScraperState]
  BY DEF TypeInv, TypeOK, ScraperState
<1>2. \A v \in Scraper : scr'[v].pc \in Busy => scr'[v].cur \in Alert
  BY DEF TypeInv, TypeOK
<1>3. faults' \in 0..MaxFaults
  BY FaultType
<1> QED
  BY <1>1, <1>2, <1>3 DEF TypeInv, TypeOK, ScraperState, SenderState, hist

LEMMA MatchType ==
  ASSUME TypeInv, NEW w \in Scraper, NEW M \in SUBSET Matching, Match(w, M)
  PROVE  TypeInv'
<1> DEFINE s == [pc |-> "found", found |-> M, cur |-> NoAlert]
           b == [pc |-> "boot", alert |-> snd.alert, from |-> snd.from]
<1>1. s \in ScraperState /\ s.pc \notin Busy
  BY DEF ScraperState, ScraperPc, Busy, Matching, TypeInv, TypeOK
<1>2. b \in SenderState /\ b.pc \in AtRest
  BY DEF SenderState, SenderPc, AtRest, TypeInv, TypeOK
<1>3. [snd EXCEPT !.pc = "boot"] = b
  BY DEF TypeInv, TypeOK
<1> HIDE DEF b
<1>4. snd' = b \/ UNCHANGED snd
  BY <1>3 DEF Match
<1>5. snd' \in SenderState /\ (snd'.pc \notin AtRest => snd'.alert \in Alert)
  BY <1>2, <1>4 DEF TypeInv, TypeOK, SenderState
<1>6. scr' = [scr EXCEPT ![w] = s] /\ UNCHANGED <<fresh, filters, tables, inflight, queue, faults, restarts, hist>>
  BY DEF Match
<1> HIDE DEF s
<1> QED
  BY <1>1, <1>5, <1>6, ScraperMoves DEF tables, TypeInv, TypeOK

LEMMA ClaimType ==
  ASSUME TypeInv, NEW w \in Scraper, NEW a \in scr[w].found, Claim(w, a)
  PROVE  TypeInv'
<1> DEFINE c == [pc |-> scr[w].pc, found |-> scr[w].found, cur |-> a]
           s == [pc |-> FirstChoice, found |-> scr[w].found, cur |-> a]
<1>1. scr[w] \in ScraperState /\ a \in Alert
  BY DEF TypeInv, TypeOK, ScraperState
<1>2. FirstChoice \in Busy /\ FirstChoice \in ScraperPc
  BY DEF FirstChoice, Busy, ScraperPc
<1>3. c \in ScraperState /\ s \in ScraperState
  BY <1>1, <1>2 DEF ScraperState
<1>4. [scr[w] EXCEPT !.cur = a] = c
  BY <1>1 DEF ScraperState
<1>5. [scr[w] EXCEPT !.cur = a, !.pc = FirstChoice] = s
  <2>1. [scr[w] EXCEPT !.cur = a, !.pc = FirstChoice] = [f \in {"pc", "found", "cur"} |->
          CASE f = "pc" -> FirstChoice [] f = "cur" -> a [] OTHER -> scr[w][f]]
    BY <1>1 DEF ScraperState
  <2> QED
    BY <2>1
<1>6. s.cur = a
  OBVIOUS
<1>7. NextFound(c) \in ScraperState /\ NextFound(c).pc \notin Busy
  BY <1>3, NextFoundFields DEF Busy
<1> HIDE DEF c, s
<1>8. scr' = [scr EXCEPT ![w] = NextFound(c)] \/ scr' = [scr EXCEPT ![w] = s]
  BY <1>4, <1>5 DEF Claim
<1>9. inflight' \subseteq Alert
  BY <1>1 DEF Claim, TypeInv, TypeOK
<1>10. UNCHANGED <<fresh, filters, tables, queue, snd, faults, restarts, hist>>
  BY DEF Claim
<1>11. PICK v \in ScraperState : (v.pc \in Busy => v.cur \in Alert) /\ scr' = [scr EXCEPT ![w] = v]
  BY <1>1, <1>3, <1>6, <1>7, <1>8
<1> QED
  BY <1>9, <1>10, <1>11, ScraperMoves DEF tables, TypeInv, TypeOK, SenderState

LEMMA PutType ==
  ASSUME TypeInv, NEW w \in Scraper, Put(w)
  PROVE  TypeInv'
<1> DEFINE s == [pc |-> "full", found |-> scr[w].found, cur |-> scr[w].cur]
<1>1. scr[w] \in ScraperState /\ scr[w].pc = "put" /\ scr[w].cur \in Alert
  BY DEF Put, Busy, TypeInv, TypeOK, ScraperState
<1>2. s \in ScraperState /\ s.cur \in Alert
  BY <1>1 DEF ScraperState, ScraperPc
<1>3. [scr[w] EXCEPT !.pc = "full"] = s
  BY <1>1 DEF ScraperState
<1>4. NextFound(scr[w]) \in ScraperState /\ NextFound(scr[w]).pc \notin Busy
  BY <1>1, NextFoundFields DEF Busy
<1> HIDE DEF s
<1>5. scr' = [scr EXCEPT ![w] = NextFound(scr[w])] \/ scr' = [scr EXCEPT ![w] = s]
  BY <1>3 DEF Put
<1>6. queue' \in Seq(Alert) /\ Len(queue') <= QueueMax
  <2>1. Len(queue) \in Nat /\ queue \in Seq(Alert) /\ QueueMax \in Nat /\ Len(queue) <= QueueMax
    BY QueueAssumption DEF TypeInv, TypeOK
  <2>2. queue' = queue \/ (Len(queue) < QueueMax /\ queue' = Append(queue, scr[w].cur))
    BY DEF Put
  <2>3. Append(queue, scr[w].cur) \in Seq(Alert) /\ Len(Append(queue, scr[w].cur)) = Len(queue) + 1
    BY <1>1, <2>1
  <2>4. CASE queue' = queue
    BY <2>1, <2>4
  <2>5. CASE Len(queue) < QueueMax /\ queue' = Append(queue, scr[w].cur)
    <3>1. Len(queue') = Len(queue) + 1 /\ queue' \in Seq(Alert)
      BY <2>3, <2>5
    <3> QED
      BY <2>1, <2>5, <3>1
  <2> QED
    BY <2>2, <2>4, <2>5
<1>7. UNCHANGED <<fresh, filters, tables, inflight, snd, faults, restarts, hist>>
  BY DEF Put
<1>8. PICK v \in ScraperState : (v.pc \in Busy => v.cur \in Alert) /\ scr' = [scr EXCEPT ![w] = v]
  BY <1>2, <1>4, <1>5
<1> QED
  BY <1>6, <1>7, <1>8, ScraperMoves DEF tables, TypeInv, TypeOK, SenderState

LEMMA SpillType ==
  ASSUME TypeInv, NEW w \in Scraper, Spill(w)
  PROVE  TypeInv'
<1>1. scr[w] \in ScraperState /\ scr[w].cur \in Alert
  BY DEF Spill, Busy, TypeInv, TypeOK, ScraperState
<1>2. NextFound(scr[w]) \in ScraperState /\ NextFound(scr[w]).pc \notin Busy
  BY <1>1, NextFoundFields DEF Busy
<1>3. scr' = [scr EXCEPT ![w] = NextFound(scr[w])]
  BY DEF Spill
<1>4. spill' \in [Alert -> SpillStatus] /\ before' \subseteq Alert \X Alert
  BY <1>1, InsertRowType DEF Spill
<1>5. UNCHANGED <<fresh, filters, alerted, inflight, queue, snd, faults, restarts, hist>>
  BY DEF Spill
<1> QED
  BY <1>2, <1>3, <1>4, <1>5, ScraperMoves DEF TypeInv, TypeOK, SenderState

LEMMA SpillFailsType ==
  ASSUME TypeInv, NEW w \in Scraper, SpillFails(w)
  PROVE  TypeInv'
<1> DEFINE s == [pc |-> "put", found |-> scr[w].found, cur |-> scr[w].cur]
<1>1. scr[w] \in ScraperState /\ scr[w].cur \in Alert
  BY DEF SpillFails, Busy, TypeInv, TypeOK, ScraperState
<1>2. s \in ScraperState /\ s.cur \in Alert
  BY <1>1 DEF ScraperState, ScraperPc
<1>3. [scr[w] EXCEPT !.pc = "put"] = s
  BY <1>1 DEF ScraperState
<1>4. NextFound(scr[w]) \in ScraperState /\ NextFound(scr[w]).pc \notin Busy
  BY <1>1, NextFoundFields DEF Busy
<1> HIDE DEF s
<1>5. scr' = [scr EXCEPT ![w] = NextFound(scr[w])] \/ scr' = [scr EXCEPT ![w] = s]
  BY <1>3 DEF SpillFails
<1>6. inflight' \subseteq Alert /\ Fault
  BY DEF SpillFails, TypeInv, TypeOK
<1>7. UNCHANGED <<fresh, filters, tables, queue, snd, restarts, hist>>
  BY DEF SpillFails
<1>8. PICK v \in ScraperState : (v.pc \in Busy => v.cur \in Alert) /\ scr' = [scr EXCEPT ![w] = v]
  BY <1>2, <1>4, <1>5
<1> QED
  BY <1>6, <1>7, <1>8, ScraperMoves DEF tables, TypeInv, TypeOK, SenderState

(* The types of what the sender writes.                                             *)
LEMMA SenderMoves ==
  ASSUME TypeInv, snd' \in SenderState, snd'.pc \notin AtRest => snd'.alert \in Alert,
         alerted' \subseteq Alert, inflight' \subseteq Alert, queue' \in Seq(Alert), Len(queue') <= QueueMax,
         spill' \in [Alert -> SpillStatus], before' \subseteq Alert \X Alert,
         dms' \in [Alert -> 0..MaxDms], refused' \subseteq Alert,
         Fault \/ UNCHANGED faults,
         UNCHANGED <<fresh, filters, scr, restarts>>
  PROVE  TypeInv'
<1>1. faults' \in 0..MaxFaults
  BY FaultType
<1> QED
  BY <1>1 DEF TypeInv, TypeOK, SenderState

LEMMA RestType ==
  /\ IdleSender \in SenderState /\ IdleSender.pc \in AtRest
  /\ OffSender \in SenderState /\ OffSender.pc \in AtRest
BY DEF IdleSender, OffSender, SenderState, SenderPc, Source, AtRest

(* A step of the sender to the step pc, with the alert it has.                      *)
LEMMA SenderPcType ==
  ASSUME TypeInv, NEW pc \in SenderPc, snd' = [snd EXCEPT !.pc = pc], snd.pc \notin AtRest \/ pc \in AtRest
  PROVE  snd' \in SenderState /\ (snd'.pc \notin AtRest => snd'.alert \in Alert)
<1>1. snd \in SenderState /\ (snd.pc \notin AtRest => snd.alert \in Alert)
  BY DEF TypeInv, TypeOK, SenderState
<1> QED
  BY <1>1 DEF SenderState

LEMMA RecoverType ==
  ASSUME TypeInv, NEW R \in SUBSET Rows({"sending"}), Recover(R)
  PROVE  TypeInv'
<1>1. spill' \in [Alert -> SpillStatus] /\ snd' = IdleSender
  BY DEF Recover, TypeInv, TypeOK, SpillStatus
<1>2. UNCHANGED <<fresh, filters, alerted, before, inflight, queue, scr, faults, restarts, hist>>
  BY DEF Recover
<1> QED
  BY <1>1, <1>2, RestType, SenderMoves DEF TypeInv, TypeOK, hist

LEMMA TakeMemoryType ==
  ASSUME TypeInv, TakeMemory
  PROVE  TypeInv'
<1>1. Head(queue) \in Alert /\ queue' \in Seq(Alert) /\ Len(queue') <= QueueMax
  BY QueueAssumption DEF TakeMemory, TypeInv, TypeOK
<1>2. snd' = [pc |-> "dm", alert |-> Head(queue), from |-> "memory"]
  BY DEF TakeMemory
<1>3. snd' \in SenderState /\ snd'.alert \in Alert
  BY <1>1, <1>2 DEF SenderState, SenderPc, Source
<1>4. UNCHANGED <<fresh, filters, tables, inflight, scr, faults, restarts, hist>>
  BY DEF TakeMemory
<1> QED
  BY <1>1, <1>3, <1>4, SenderMoves DEF TypeInv, TypeOK, tables, hist

LEMMA TakeSpillType ==
  ASSUME TypeInv, NEW a \in Alert, TakeSpill(a)
  PROVE  TypeInv'
<1>1. snd' = [pc |-> "dm", alert |-> a, from |-> "spill"]
  BY DEF TakeSpill
<1>2. snd' \in SenderState /\ snd'.alert \in Alert
  BY <1>1 DEF SenderState, SenderPc, Source
<1>3. spill' \in [Alert -> SpillStatus] /\ inflight' \subseteq Alert
  BY DEF TakeSpill, TypeInv, TypeOK, SpillStatus
<1>4. UNCHANGED <<fresh, filters, alerted, before, queue, scr, faults, restarts, hist>>
  BY DEF TakeSpill
<1> QED
  BY <1>2, <1>3, <1>4, SenderMoves DEF TypeInv, TypeOK, hist

LEMMA TakeSpillFailsType ==
  ASSUME TypeInv, NEW a \in Alert, TakeSpillFails(a)
  PROVE  TypeInv'
<1>1. snd' = IdleSender /\ inflight' \subseteq Alert /\ Fault
  BY DEF TakeSpillFails, TypeInv, TypeOK
<1>2. UNCHANGED <<fresh, filters, tables, queue, scr, restarts, hist>>
  BY DEF TakeSpillFails
<1> QED
  BY <1>1, <1>2, RestType, SenderMoves DEF TypeInv, TypeOK, tables, hist

LEMMA PollType ==
  ASSUME TypeInv, QueueEmpty \/ NoSpill
  PROVE  TypeInv'
<1>1. UNCHANGED <<fresh, filters, tables, inflight, queue, scr, faults, restarts, hist>>
  BY DEF QueueEmpty, NoSpill
<1>2. CASE QueueEmpty
  <2>1. snd' \in SenderState /\ (snd'.pc \notin AtRest => snd'.alert \in Alert)
    BY <1>2, SenderPcType DEF QueueEmpty, SenderPc, AtRest
  <2> QED
    BY <1>1, <2>1, SenderMoves DEF TypeInv, TypeOK, tables, hist
<1>3. CASE NoSpill
  BY <1>1, <1>3, RestType, SenderMoves DEF NoSpill, TypeInv, TypeOK, tables, hist
<1> QED
  BY <1>2, <1>3

LEMMA SendDmType ==
  ASSUME TypeInv, NEW outcome \in {"ok", "refused", "failed", "lost"}, SendDm(outcome)
  PROVE  TypeInv'
<1> DEFINE pc == CASE outcome = "ok" -> "record" [] outcome = "refused" -> "refused" [] OTHER -> "retry"
<1>1. pc \in SenderPc /\ snd' = [snd EXCEPT !.pc = pc] /\ snd.pc \notin AtRest
  BY DEF SendDm, SenderPc, AtRest
<1> HIDE DEF pc
<1>2. snd' \in SenderState /\ (snd'.pc \notin AtRest => snd'.alert \in Alert)
  BY <1>1, SenderPcType
<1>3. snd.alert \in Alert
  BY <1>1 DEF TypeInv
<1>4. dms' \in [Alert -> 0..MaxDms]
  BY <1>3, BoundAssumption DEF SendDm, TypeInv, TypeOK
<1>5. refused' \subseteq Alert
  BY <1>3 DEF SendDm, TypeInv, TypeOK
<1>6. Fault \/ UNCHANGED faults
  BY DEF SendDm
<1>7. UNCHANGED <<fresh, filters, tables, inflight, queue, scr, restarts>>
  BY DEF SendDm
<1> QED
  BY <1>2, <1>4, <1>5, <1>6, <1>7, SenderMoves DEF TypeInv, TypeOK, tables

(* The steps that record the outcome.                                               *)
LEMMA OutcomeType ==
  ASSUME TypeInv,
         Record \/ RecordFails \/ MarkSent \/ MarkSentFails \/ Retry \/ WriteFails \/ GiveUp \/ Release
  PROVE  TypeInv'
<1>1. UNCHANGED <<fresh, filters, queue, scr, restarts, hist>> /\ (Fault \/ UNCHANGED faults)
  BY DEF Record, RecordFails, MarkSent, MarkSentFails, Retry, WriteFails, GiveUp, Release
<1>2. snd.pc \notin AtRest /\ snd.alert \in Alert
  BY DEF Record, RecordFails, MarkSent, MarkSentFails, Retry, WriteFails, GiveUp, Release, AtRest, TypeInv
<1>3. (\E pc \in SenderPc : snd' = [snd EXCEPT !.pc = pc]) \/ snd' = IdleSender
  BY DEF Record, RecordFails, MarkSent, MarkSentFails, Retry, WriteFails, GiveUp, Release, SenderPc
<1>4. snd' \in SenderState /\ (snd'.pc \notin AtRest => snd'.alert \in Alert)
  BY <1>2, <1>3, SenderPcType, RestType
<1>5. alerted' \subseteq Alert /\ inflight' \subseteq Alert
  BY <1>2 DEF Record, RecordFails, MarkSent, MarkSentFails, Retry, WriteFails, GiveUp, Release,
              TypeInv, TypeOK, tables
<1>6. spill' \in [Alert -> SpillStatus] /\ before' \subseteq Alert \X Alert
  <2>1. CASE UNCHANGED <<spill, before>>
    BY <2>1 DEF TypeInv, TypeOK
  <2>2. CASE MarkSent \/ GiveUp
    BY <2>2, SetRowType DEF MarkSent, GiveUp, SpillStatus, TypeInv, TypeOK
  <2>3. CASE Retry
    BY <1>2, <2>3, SetRowType, InsertRowType DEF Retry, SpillStatus, TypeInv, TypeOK
  <2>4. UNCHANGED <<spill, before>> \/ MarkSent \/ GiveUp \/ Retry
    BY DEF Record, RecordFails, MarkSentFails, WriteFails, Release, tables
  <2> QED
    BY <2>1, <2>2, <2>3, <2>4
<1> QED
  BY <1>1, <1>4, <1>5, <1>6, SenderMoves DEF TypeInv, TypeOK, hist

LEMMA EnvironmentType ==
  ASSUME TypeInv, Environment
  PROVE  TypeInv'
<1>1. ASSUME NEW a \in Alert, GrowOld(a) PROVE TypeInv'
  BY <1>1 DEF GrowOld, TypeInv, TypeOK, tables, memory, hist
<1>2. ASSUME NEW f \in Filter, DeleteFilter(f) PROVE TypeInv'
  BY <1>2 DEF DeleteFilter, TypeInv, TypeOK, memory, hist
<1>3. ASSUME NEW D \in SUBSET Rows({"pending"}), NEW F \in SUBSET alerted, Retain(D, F) PROVE TypeInv'
  <2>1. spill' \in [Alert -> SpillStatus] /\ before' \subseteq Alert \X Alert
    BY <1>3, DeleteRowsType DEF Retain
  <2>2. UNCHANGED <<fresh, filters, inflight, queue, scr, faults, restarts, hist>> /\ alerted' \subseteq Alert
    BY <1>3 DEF Retain, TypeInv, TypeOK
  <2>3. snd' \in SenderState /\ snd'.pc = snd.pc /\ snd'.alert = snd.alert
    BY <1>3, OvertakenEffect DEF Retain
  <2> QED
    BY <2>1, <2>2, <2>3 DEF TypeInv, TypeOK, hist, SenderState
<1>4. CASE Restart
  <2>1. IdleScraper \in ScraperState /\ IdleScraper.pc \notin Busy
    BY DEF IdleScraper, ScraperState, ScraperPc, Busy
  <2>2. scr' = [w \in Scraper |-> IdleScraper] /\ snd' = OffSender
    BY <1>4 DEF Restart
  <2>3. scr' \in [Scraper -> ScraperState] /\ \A w \in Scraper : scr'[w].pc \notin Busy
    BY <2>1, <2>2
  <2>4. restarts' \in 0..MaxRestarts /\ inflight' = {} /\ queue' = <<>>
    BY <1>4, BoundAssumption DEF Restart, TypeInv, TypeOK
  <2>5. UNCHANGED <<fresh, filters, tables, faults, hist>>
    BY <1>4 DEF Restart
  <2>6. queue' \in Seq(Alert) /\ Len(queue') <= QueueMax
    BY <2>4, QueueAssumption
  <2> QED
    BY <2>2, <2>3, <2>4, <2>5, <2>6, RestType DEF TypeInv, TypeOK, tables, hist, ScraperState, SenderState
<1>5. CASE StartPool
  <2>1. snd' \in SenderState /\ (snd'.pc \notin AtRest => snd'.alert \in Alert)
    BY <1>5, SenderPcType DEF StartPool, SenderPc, AtRest
  <2> QED
    BY <1>5, <2>1, SenderMoves DEF StartPool, TypeInv, TypeOK, tables, hist
<1>6. ASSUME NEW a \in Alert, NewListing(a) PROVE TypeInv'
  BY <1>6, BoundAssumption DEF NewListing, TypeInv, TypeOK, tables, memory
<1> QED
  BY <1>1, <1>2, <1>3, <1>4, <1>5, <1>6 DEF Environment

LEMMA InitType == Init => TypeInv
<1>1. IdleScraper \in ScraperState /\ IdleScraper.pc \notin Busy
  BY DEF IdleScraper, ScraperState, ScraperPc, Busy
<1>2. Init => scr \in [Scraper -> ScraperState] /\ \A w \in Scraper : scr[w].pc \notin Busy
  BY <1>1 DEF Init
<1>3. Init => queue \in Seq(Alert) /\ Len(queue) <= QueueMax
  BY QueueAssumption DEF Init
<1>4. Init => snd \in SenderState /\ snd.pc \in AtRest
  BY RestType DEF Init
<1> QED
  BY <1>2, <1>3, <1>4, BoundAssumption DEF Init, TypeInv, TypeOK, ScraperState, SenderState, SpillStatus

LEMMA TypeStep ==
  ASSUME TypeInv, [Next]_vars
  PROVE  TypeInv'
<1>1. ASSUME NEW w \in Scraper, Scrape(w) PROVE TypeInv'
  BY <1>1, MatchType, ClaimType, PutType, SpillType, SpillFailsType DEF Scrape
<1>2. CASE Send
  BY <1>2, RecoverType, TakeMemoryType, TakeSpillType, TakeSpillFailsType, PollType, SendDmType, OutcomeType DEF Send
<1>3. CASE UNCHANGED vars
  BY <1>3 DEF TypeInv, TypeOK, vars, tables, memory, hist
<1> QED
  BY <1>1, <1>2, <1>3, EnvironmentType DEF Next

LEMMA TypeAlways == Spec => []TypeInv
<1>1. TypeInv /\ [Next]_vars => TypeInv'
  BY TypeStep
<1> QED
  BY <1>1, InitType, PTL DEF Spec

(* The tables, the queue and the threads' local variables keep their types, and the *)
(* queue its capacity.                                                              *)
THEOREM TypeCorrect == Spec => []TypeOK
<1>1. TypeInv => TypeOK
  BY DEF TypeInv
<1> QED
  BY <1>1, TypeAlways, PTL

----------------------------------------------------------------------------
(* Spilled rows *)

(* What a row, and the step of the sender, tell of the alert: a sent row was        *)
(* accepted by Discord and recorded, a failed one was refused.                      *)
RowInv ==
  /\ SentRowRecorded
  /\ snd.pc = "mark" /\ snd.alert \in fresh /\ FilterOf[snd.alert] \in filters => snd.alert \in alerted
  /\ \A a \in Alert : spill[a] = "sent" => dms[a] > 0
  /\ \A a \in Alert : spill[a] = "failed" => a \in refused
  /\ snd.pc \in {"record", "mark"} => dms[snd.alert] > 0
  /\ snd.pc = "refused" => snd.alert \in refused

LEMMA InsertRowEffect ==
  ASSUME TypeInv, NEW a \in Alert, InsertRow(a)
  PROVE  \A x \in Alert : spill'[x] = spill[x] \/ (x = a /\ spill[x] = "none" /\ spill'[x] = "pending")
BY DEF InsertRow, TypeInv, TypeOK

LEMMA SetRowEffect ==
  ASSUME TypeInv, NEW a, NEW st, SetRow(a, st)
  PROVE  \A x \in Alert : spill'[x] = spill[x] \/ (x = a /\ spill'[x] = st)
BY DEF SetRow, TypeInv, TypeOK

(* The scrape threads insert pending rows and may start the sender.                 *)
LEMMA ScrapeEffect ==
  ASSUME TypeInv, NEW w \in Scraper, Scrape(w)
  PROVE  /\ UNCHANGED <<fresh, filters, alerted, restarts, hist>>
         /\ \A x \in Alert : spill'[x] = spill[x] \/ (spill[x] = "none" /\ spill'[x] = "pending")
         /\ snd' = snd \/ (snd.pc = "off" /\ snd'.pc = "boot" /\ snd'.alert = snd.alert)
<1>1. UNCHANGED <<fresh, filters, alerted, restarts, hist>>
  BY DEF Scrape, Match, Claim, Put, Spill, SpillFails, tables
<1>2. CASE Spill(w)
  <2>1. scr[w].cur \in Alert /\ InsertRow(scr[w].cur) /\ UNCHANGED snd
    BY <1>2 DEF Spill, Busy, TypeInv
  <2> QED
    BY <1>1, <2>1, InsertRowEffect
<1>3. ASSUME NEW M \in SUBSET Matching, Match(w, M)
      PROVE  UNCHANGED spill /\ (snd' = snd \/ (snd.pc = "off" /\ snd'.pc = "boot" /\ snd'.alert = snd.alert))
  BY <1>3 DEF Match, tables, TypeInv, TypeOK
<1>4. CASE (\E a \in scr[w].found : Claim(w, a)) \/ Put(w) \/ SpillFails(w)
  BY <1>1, <1>4 DEF Claim, Put, SpillFails, tables
<1> QED
  BY <1>1, <1>2, <1>3, <1>4 DEF Scrape

LEMMA ScrapeRows ==
  ASSUME TypeInv, RowInv, NEW w \in Scraper, Scrape(w)
  PROVE  RowInv'
<1>1. UNCHANGED <<fresh, filters, alerted, hist>>
  BY ScrapeEffect
<1>2. \A x \in Alert : spill'[x] \in {"sent", "failed"} => spill'[x] = spill[x]
  BY ScrapeEffect
<1>3. snd' = snd \/ snd'.pc = "boot"
  BY ScrapeEffect
<1> QED
  BY <1>1, <1>2, <1>3 DEF RowInv, SentRowRecorded, hist, TypeInv, TypeOK

(* Fields of the sender after a step that only changes pc.                          *)
LEMMA SenderPcFields ==
  ASSUME TypeInv, NEW pc, snd' = [snd EXCEPT !.pc = pc]
  PROVE  snd'.pc = pc /\ snd'.alert = snd.alert /\ snd'.from = snd.from
BY DEF TypeInv, TypeOK

LEMMA RestFields ==
  /\ IdleSender.pc = "idle" /\ IdleSender.alert = NoAlert
  /\ OffSender.pc = "off" /\ OffSender.alert = NoAlert
BY DEF IdleSender, OffSender

(* Steps of the sender that write no history and no sent or failed row, and do not  *)
(* lead to the steps the invariant is about.                                        *)
LEMMA PlainRows ==
  ASSUME TypeInv, RowInv, UNCHANGED <<fresh, filters, alerted, dms, refused>>,
         \A x \in Alert : spill'[x] \in {"sent", "failed"} => spill'[x] = spill[x],
         snd'.pc \notin {"record", "mark", "refused"}
  PROVE  RowInv'
BY DEF RowInv, SentRowRecorded, TypeInv, TypeOK

LEMMA SendRows ==
  ASSUME TypeInv, RowInv, Send
  PROVE  RowInv'
<1>1. ASSUME NEW R \in SUBSET Rows({"sending"}), Recover(R) PROVE RowInv'
  BY <1>1, RestFields, PlainRows DEF Recover, TypeInv, TypeOK, hist
<1>2. CASE TakeMemory
  BY <1>2, PlainRows DEF TakeMemory, tables, hist
<1>3. CASE QueueEmpty
  <2>1. snd'.pc = "poll"
    BY <1>3, SenderPcFields DEF QueueEmpty
  <2> QED
    BY <1>3, <2>1, PlainRows DEF QueueEmpty, tables, hist
<1>4. ASSUME NEW a \in Alert, TakeSpill(a) PROVE RowInv'
  BY <1>4, PlainRows DEF TakeSpill, TypeInv, TypeOK, hist
<1>5. CASE NoSpill
  BY <1>5, RestFields, PlainRows DEF NoSpill, tables, hist
<1>6. ASSUME NEW outcome \in {"ok", "refused", "failed", "lost"}, SendDm(outcome) PROVE RowInv'
  <2>1. snd.alert \in Alert /\ UNCHANGED <<fresh, filters, alerted, spill>>
    BY <1>6 DEF SendDm, TypeInv, AtRest, tables
  <2>2. /\ \A x \in Alert : dms[x] > 0 => dms'[x] > 0
        /\ outcome = "ok" => dms'[snd.alert] > 0
    BY <1>6, <2>1, BoundAssumption DEF SendDm, TypeInv, TypeOK
  <2>3. /\ refused \subseteq refused'
        /\ outcome = "refused" => snd.alert \in refused'
    BY <1>6 DEF SendDm
  <2>4. snd' = [snd EXCEPT !.pc = CASE outcome = "ok" -> "record"
                                    [] outcome = "refused" -> "refused"
                                    [] OTHER -> "retry"]
    BY <1>6 DEF SendDm
  <2>5. /\ snd'.alert = snd.alert
        /\ snd'.pc = "record" => outcome = "ok"
        /\ snd'.pc = "refused" => outcome = "refused"
        /\ snd'.pc # "mark"
    BY <2>4, SenderPcFields
  <2> QED
    BY <2>1, <2>2, <2>3, <2>5 DEF RowInv, SentRowRecorded
<1>7. CASE Record
  <2>1. /\ snd.alert \in Alert /\ alerted' = alerted \cup {snd.alert} /\ snd.pc = "record"
        /\ UNCHANGED <<fresh, filters, spill, dms, refused>>
    BY <1>7 DEF Record, TypeInv, AtRest, hist
  <2>2. snd'.alert = snd.alert /\ snd'.pc \in {"mark", "release"}
    BY <1>7, SenderPcFields DEF Record
  <2> QED
    BY <2>1, <2>2 DEF RowInv, SentRowRecorded
<1>8. CASE RecordFails \/ MarkSentFails
  <2>1. snd'.pc = "retry" /\ UNCHANGED <<fresh, filters, alerted, spill, dms, refused>>
    BY <1>8, SenderPcFields DEF RecordFails, MarkSentFails, tables, hist
  <2> QED
    BY <2>1, PlainRows
<1>9. CASE MarkSent
  <2>1. /\ snd.alert \in Alert /\ snd.pc = "mark" /\ SetRow(snd.alert, "sent")
        /\ UNCHANGED <<fresh, filters, alerted, dms, refused>>
    BY <1>9 DEF MarkSent, TypeInv, AtRest, hist
  <2>2. \A x \in Alert : spill'[x] \in {"sent", "failed"} => spill'[x] = spill[x] \/ (x = snd.alert /\ spill'[x] = "sent")
    BY <2>1, SetRowEffect
  <2>3. snd'.pc = "release"
    BY <1>9, SenderPcFields DEF MarkSent
  <2> QED
    BY <2>1, <2>2, <2>3 DEF RowInv, SentRowRecorded, TypeInv, TypeOK
<1>10. CASE Retry
  <2>1. /\ snd.alert \in Alert /\ UNCHANGED <<fresh, filters, alerted, dms, refused>>
        /\ SetRow(snd.alert, "pending") \/ InsertRow(snd.alert)
    BY <1>10 DEF Retry, TypeInv, AtRest, hist
  <2>2. \A x \in Alert : spill'[x] \in {"sent", "failed"} => spill'[x] = spill[x]
    BY <2>1, SetRowEffect, InsertRowEffect
  <2>3. snd'.pc = "release"
    BY <1>10, SenderPcFields DEF Retry
  <2> QED
    BY <2>1, <2>2, <2>3, PlainRows
<1>11. CASE WriteFails
  <2>1. snd'.pc = "release" /\ UNCHANGED <<fresh, filters, alerted, spill, dms, refused>>
    BY <1>11, SenderPcFields DEF WriteFails, tables, hist
  <2> QED
    BY <2>1, PlainRows
<1>12. CASE GiveUp
  <2>1. /\ snd.alert \in Alert /\ snd.pc = "refused" /\ UNCHANGED <<fresh, filters, alerted, dms, refused>>
        /\ SetRow(snd.alert, "failed") \/ UNCHANGED spill
    BY <1>12 DEF GiveUp, TypeInv, AtRest, hist
  <2>2. \A x \in Alert : spill'[x] \in {"sent", "failed"} => spill'[x] = spill[x] \/ (x = snd.alert /\ spill'[x] = "failed")
    BY <2>1, SetRowEffect
  <2>3. snd'.pc = "release"
    BY <1>12, SenderPcFields DEF GiveUp
  <2> QED
    BY <2>1, <2>2, <2>3 DEF RowInv, SentRowRecorded, TypeInv, TypeOK
<1>13. CASE Release
  BY <1>13, RestFields, PlainRows DEF Release, tables, hist
<1>14. ASSUME NEW a \in Alert, TakeSpillFails(a) PROVE RowInv'
  BY <1>14, RestFields, PlainRows DEF TakeSpillFails, tables, hist
<1> QED
  BY <1>1, <1>2, <1>3, <1>4, <1>5, <1>6, <1>7, <1>8, <1>9, <1>10, <1>11, <1>12, <1>13, <1>14 DEF Send

LEMMA EnvironmentRows ==
  ASSUME TypeInv, RowInv, Environment
  PROVE  RowInv'
<1>1. ASSUME NEW a \in Alert, GrowOld(a) PROVE RowInv'
  BY <1>1 DEF GrowOld, RowInv, SentRowRecorded, tables, memory, hist
<1>2. ASSUME NEW f \in Filter, DeleteFilter(f) PROVE RowInv'
  BY <1>2 DEF DeleteFilter, RowInv, SentRowRecorded, TypeInv, TypeOK, memory, hist
<1>3. ASSUME NEW D \in SUBSET Rows({"pending"}), NEW F \in SUBSET alerted, Retain(D, F) PROVE RowInv'
  <2>1. UNCHANGED <<fresh, filters, hist>> /\ alerted' = alerted \ F /\ F \cap fresh = {}
    BY <1>3 DEF Retain
  <2>2. \A x \in Alert : spill'[x] # "none" => spill'[x] = spill[x]
    BY <1>3 DEF Retain, DeleteRows
  <2>3. snd'.pc = snd.pc /\ snd'.alert = snd.alert
    BY <1>3, OvertakenEffect DEF Retain
  <2> QED
    BY <2>1, <2>2, <2>3 DEF RowInv, SentRowRecorded, TypeInv, TypeOK, hist
<1>4. CASE Restart
  BY <1>4, RestFields DEF Restart, RowInv, SentRowRecorded, tables, hist
<1>5. CASE StartPool
  <2>1. snd'.pc = "boot"
    BY <1>5, SenderPcFields DEF StartPool
  <2> QED
    BY <1>5, <2>1, PlainRows DEF StartPool, tables, hist
<1>6. ASSUME NEW a \in Alert, NewListing(a) PROVE RowInv'
  <2>1. /\ spill[a] = "none" /\ snd.alert # a
        /\ UNCHANGED <<filters, alerted, spill, snd>>
        /\ fresh' = fresh \cup {a} /\ dms' = [dms EXCEPT ![a] = 0] /\ refused' = refused \ {a}
    BY <1>6 DEF NewListing, Forgotten, tables, memory
  <2>2. \A x \in Alert \ {a} : dms'[x] = dms[x] /\ (x \in refused' <=> x \in refused)
    BY <2>1 DEF TypeInv, TypeOK
  <2>3. snd.pc \in {"record", "mark", "refused"} => snd.alert \in Alert \ {a}
    BY <2>1 DEF TypeInv, AtRest
  <2> QED
    BY <2>1, <2>2, <2>3 DEF RowInv, SentRowRecorded
<1> QED
  BY <1>1, <1>2, <1>3, <1>4, <1>5, <1>6 DEF Environment

LEMMA RowAlways == Spec => []RowInv
<1>1. Init => RowInv
  BY RestFields DEF Init, RowInv, SentRowRecorded
<1>2. ASSUME TypeInv, RowInv, [Next]_vars PROVE RowInv'
  <2>1. CASE UNCHANGED vars
    <3>1. UNCHANGED <<fresh, filters, alerted, spill, snd, dms, refused>>
      BY <2>1 DEF vars, tables, memory, hist
    <3> QED
      BY <1>2, <3>1 DEF RowInv, SentRowRecorded
  <2> QED
    BY <1>2, <2>1, ScrapeRows, SendRows, EnvironmentRows DEF Next
<1>3. TypeInv /\ RowInv /\ [Next]_vars => RowInv'
  BY <1>2
<1> QED
  BY <1>1, <1>3, TypeAlways, PTL DEF Spec

(* A spill row is sent only once the alert is recorded: whatever happens next, the  *)
(* listing is not matched again while it is fresh.                                  *)
THEOREM SentRowRecordedAlways == Spec => []SentRowRecorded
<1>1. RowInv => SentRowRecorded
  BY DEF RowInv
<1> QED
  BY <1>1, RowAlways, PTL

----------------------------------------------------------------------------
(* One copy of an alert *)

In(a, s) == \E i \in 1..Len(s) : s[i] = a
Once(a, s) == \A i, j \in 1..Len(s) : s[i] = a /\ s[j] = a => i = j

(* The scrape threads, the queue, the table and the sender never hold the alert a   *)
(* together, and who holds it holds the claim; the sender does not retry it.        *)
Apart(a) ==
  /\ \A w, v \in Scraper : scr[w].cur = a /\ scr[v].cur = a => w = v
  /\ Once(a, queue)
  /\ \A w \in Scraper : scr[w].cur = a => ~In(a, queue) /\ snd.alert # a /\ ~Waiting(a)
  /\ In(a, queue) => snd.alert # a /\ ~Waiting(a)
  /\ snd.alert = a => ~Waiting(a) /\ snd.pc # "retry"
  /\ (\E w \in Scraper : scr[w].cur = a) \/ In(a, queue) \/ snd.alert = a \/ Waiting(a) => a \in inflight

LEMMA AppendIn ==
  ASSUME NEW a, NEW e \in Alert, NEW s \in Seq(Alert)
  PROVE  /\ In(a, Append(s, e)) <=> In(a, s) \/ a = e
         /\ Once(a, s) /\ (a = e => ~In(a, s)) => Once(a, Append(s, e))
<1>1. /\ Len(Append(s, e)) = Len(s) + 1 /\ Len(s) \in Nat
      /\ \A i \in 1..Len(s) : Append(s, e)[i] = s[i]
      /\ Append(s, e)[Len(s) + 1] = e
  OBVIOUS
<1> QED
  BY <1>1 DEF In, Once

LEMMA TailIn ==
  ASSUME NEW a, NEW s \in Seq(Alert), s # <<>>
  PROVE  /\ In(a, s) <=> In(a, Tail(s)) \/ a = Head(s)
         /\ Once(a, s) => Once(a, Tail(s)) /\ (a = Head(s) => ~In(a, Tail(s)))
<1>1. /\ Len(s) \in Nat \ {0} /\ Len(Tail(s)) = Len(s) - 1 /\ Head(s) = s[1]
      /\ \A i \in 1..(Len(s) - 1) : Tail(s)[i] = s[i + 1]
  OBVIOUS
<1>2. In(a, Tail(s)) => In(a, s)
  BY <1>1 DEF In
<1>3. a = Head(s) => In(a, s)
  BY <1>1 DEF In
<1>4. In(a, s) /\ a # Head(s) => In(a, Tail(s))
  <2>1. ASSUME NEW i \in 1..Len(s), s[i] = a, a # Head(s) PROVE In(a, Tail(s))
    <3>1. i - 1 \in 1..(Len(s) - 1) /\ (i - 1) + 1 = i
      BY <1>1, <2>1
    <3>2. Tail(s)[i - 1] = a
      BY <1>1, <2>1, <3>1
    <3> QED
      BY <1>1, <3>1, <3>2 DEF In
  <2> QED
    BY <2>1 DEF In
<1>5. Once(a, s) => Once(a, Tail(s))
  <2>1. ASSUME Once(a, s), NEW i \in 1..Len(Tail(s)), NEW j \in 1..Len(Tail(s)), Tail(s)[i] = a, Tail(s)[j] = a
        PROVE  i = j
    <3>1. i + 1 \in 1..Len(s) /\ j + 1 \in 1..Len(s) /\ s[i + 1] = a /\ s[j + 1] = a
      BY <1>1, <2>1
    <3> QED
      BY <1>1, <2>1, <3>1 DEF Once
  <2> QED
    BY <2>1 DEF Once
<1>6. Once(a, s) /\ a = Head(s) => ~In(a, Tail(s))
  <2>1. ASSUME Once(a, s), a = Head(s), NEW i \in 1..Len(Tail(s)), Tail(s)[i] = a
        PROVE  FALSE
    <3>1. 1 \in 1..Len(s) /\ i + 1 \in 1..Len(s) /\ s[i + 1] = a /\ s[1] = a /\ i + 1 # 1
      BY <1>1, <2>1
    <3> QED
      BY <2>1, <3>1 DEF Once
  <2> QED
    BY <2>1 DEF In
<1> QED
  BY <1>2, <1>3, <1>4, <1>5, <1>6

(* Steps that only give copies up.                                                  *)
LEMMA ApartKept ==
  ASSUME NEW a \in Alert, Apart(a), UNCHANGED queue, inflight \subseteq inflight',
         \A w \in Scraper : scr'[w].cur = scr[w].cur \/ scr'[w].cur = NoAlert,
         snd'.alert = snd.alert \/ snd'.alert = NoAlert,
         snd'.alert = a => snd'.pc # "retry",
         spill'[a] = "pending" => spill[a] = "pending"
  PROVE  Apart(a)'
<1>1. a # NoAlert
  BY AlertAssumption
<1>2. Waiting(a)' => Waiting(a)
  BY DEF Waiting
<1>3. (In(a, queue))' <=> In(a, queue)
  BY DEF In
<1>4. Once(a, queue) => (Once(a, queue))'
  BY DEF Once
<1>5. \A w \in Scraper : scr'[w].cur = a => scr[w].cur = a
  BY <1>1
<1>6. snd'.alert = a => snd.alert = a
  BY <1>1
<1> QED
  BY <1>2, <1>3, <1>4, <1>5, <1>6 DEF Apart

LEMMA ScrapeApart ==
  ASSUME TypeInv, NEW w \in Scraper, Scrape(w), ~Fault, NEW a \in Alert, Apart(a)
  PROVE  Apart(a)'
<1>1. scr[w] \in ScraperState /\ a # NoAlert
  BY AlertAssumption DEF TypeInv, TypeOK, ScraperState
<1>2. snd'.alert = snd.alert /\ (snd.alert = a => snd'.pc # "retry")
  BY ScrapeEffect DEF Apart
<1>3. ASSUME NEW M \in SUBSET Matching, Match(w, M) PROVE Apart(a)'
  <2>1. \A v \in Scraper : scr'[v].cur = scr[v].cur \/ scr'[v].cur = NoAlert
    BY <1>3 DEF Match, TypeInv, TypeOK
  <2> QED
    BY <1>2, <1>3, <2>1, ApartKept DEF Match, tables
<1>4. ASSUME NEW b \in scr[w].found, Claim(w, b) PROVE Apart(a)'
  <2>1. b \in Alert /\ UNCHANGED <<queue, spill, snd>>
    BY <1>1, <1>4 DEF ScraperState, Claim, tables
  <2>2. CASE b \in inflight
    <3>1. UNCHANGED inflight
      BY <1>4, <2>2 DEF Claim
    <3>2. scr' = [scr EXCEPT ![w] = NextFound([scr[w] EXCEPT !.cur = b])]
      BY <1>4, <2>2 DEF Claim
    <3>3. [scr[w] EXCEPT !.cur = b] \in ScraperState
      BY <1>1, <2>1 DEF ScraperState
    <3>4. scr'[w].cur = NoAlert
      BY <3>2, <3>3, NextFoundFields DEF TypeInv, TypeOK
    <3>5. \A v \in Scraper : scr'[v].cur = scr[v].cur \/ scr'[v].cur = NoAlert
      BY <3>2, <3>4 DEF TypeInv, TypeOK
    <3> QED
      BY <1>2, <2>1, <3>1, <3>5, ApartKept
  <2>3. CASE b \notin inflight
    <3>1. inflight' = inflight \cup {b}
      BY <1>4, <2>3 DEF Claim
    <3>2. scr' = [scr EXCEPT ![w] = [scr[w] EXCEPT !.cur = b, !.pc = FirstChoice]]
      BY <1>4, <2>3 DEF Claim
    <3>3. scr'[w].cur = b /\ \A v \in Scraper \ {w} : scr'[v] = scr[v]
      BY <1>1, <3>2 DEF TypeInv, TypeOK, ScraperState
    <3>4. Waiting(a)' <=> Waiting(a)
      BY <2>1 DEF Waiting
    <3>5. CASE a = b
      <4>1. ~Waiting(a) /\ ~In(a, queue) /\ snd.alert # a /\ \A v \in Scraper : scr[v].cur # a
        BY <2>3, <3>5 DEF Apart
      <4>2. Once(a, queue)
        BY DEF Apart
      <4>3. \A v \in Scraper : scr'[v].cur = a => v = w
        BY <3>3, <4>1
      <4> QED
        BY <2>1, <3>1, <3>3, <3>4, <3>5, <4>1, <4>2, <4>3 DEF Apart
    <3>6. CASE a # b
      <4>1. \A v \in Scraper : scr'[v].cur = a => scr[v].cur = a
        BY <3>3, <3>6
      <4> QED
        BY <2>1, <3>1, <3>4, <4>1 DEF Apart
    <3> QED
      BY <3>5, <3>6
  <2> QED
    BY <2>2, <2>3
<1>5. CASE Put(w)
  <2>1. UNCHANGED <<inflight, spill, snd>> /\ scr[w].cur \in Alert
    BY <1>5 DEF Put, Busy, TypeInv, tables
  <2>2. CASE ~(Len(queue) < QueueMax)
    <3>1. UNCHANGED queue /\ scr' = [scr EXCEPT ![w].pc = "full"]
      BY <1>5, <2>2 DEF Put
    <3>2. \A v \in Scraper : scr'[v].cur = scr[v].cur
      BY <3>1 DEF TypeInv, TypeOK
    <3> QED
      BY <1>2, <2>1, <3>1, <3>2, ApartKept
  <2>3. CASE Len(queue) < QueueMax
    <3>1. queue' = Append(queue, scr[w].cur) /\ scr' = [scr EXCEPT ![w] = NextFound(scr[w])]
      BY <1>5, <2>3 DEF Put
    <3>2. scr'[w].cur = NoAlert /\ \A v \in Scraper \ {w} : scr'[v] = scr[v]
      BY <1>1, <3>1, NextFoundFields DEF TypeInv, TypeOK
    <3>3. queue \in Seq(Alert)
      BY DEF TypeInv, TypeOK
    <3>4. In(a, queue)' <=> In(a, queue) \/ a = scr[w].cur
      BY <2>1, <3>1, <3>3, AppendIn
    <3>5. Once(a, queue)'
      BY <2>1, <3>1, <3>3, AppendIn DEF Apart
    <3>6. Waiting(a)' <=> Waiting(a)
      BY <2>1 DEF Waiting
    <3>7. \A v \in Scraper : scr'[v].cur = a => scr[v].cur = a /\ v # w
      BY <1>1, <3>2
    <3> QED
      BY <2>1, <3>4, <3>5, <3>6, <3>7 DEF Apart
  <2> QED
    BY <2>2, <2>3
<1>6. CASE Spill(w)
  <2>1. UNCHANGED <<inflight, queue, snd>> /\ scr[w].cur \in Alert
    BY <1>6 DEF Spill, Busy, TypeInv
  <2>2. scr' = [scr EXCEPT ![w] = NextFound(scr[w])] /\ InsertRow(scr[w].cur)
    BY <1>6 DEF Spill
  <2>3. scr'[w].cur = NoAlert /\ \A v \in Scraper \ {w} : scr'[v] = scr[v]
    BY <1>1, <2>2, NextFoundFields DEF TypeInv, TypeOK
  <2>4. Waiting(a)' => Waiting(a) \/ a = scr[w].cur
    BY <2>1, <2>2, InsertRowEffect DEF Waiting
  <2>5. \A v \in Scraper : scr'[v].cur = a => scr[v].cur = a /\ v # w
    BY <1>1, <2>3
  <2> QED
    BY <2>1, <2>4, <2>5 DEF Apart
<1>7. ~SpillFails(w)
  BY DEF SpillFails
<1> QED
  BY <1>3, <1>4, <1>5, <1>6, <1>7 DEF Scrape

LEMMA SendApart ==
  ASSUME TypeInv, Send, ~Fault, NEW a \in Alert, Apart(a), FilterOf[a] \in filters,
         snd.pc \in {"off", "boot"} => \A x \in Alert : spill[x] # "sending"
  PROVE  Apart(a)'
<1>1. a # NoAlert /\ UNCHANGED scr
  BY AlertAssumption DEF Send, Recover, TakeMemory, QueueEmpty, TakeSpill, NoSpill, SendDm, Record, RecordFails,
                         MarkSent, MarkSentFails, Retry, WriteFails, GiveUp, Release, TakeSpillFails
<1>2. ASSUME NEW R \in SUBSET Rows({"sending"}), Recover(R) PROVE Apart(a)'
  <2>1. R = {} /\ UNCHANGED <<inflight, queue>> /\ snd' = IdleSender
    BY <1>2 DEF Recover, Rows
  <2>2. spill'[a] = spill[a]
    BY <1>2, <2>1 DEF Recover
  <2> QED
    BY <1>1, <2>1, <2>2, RestFields, ApartKept
<1>3. CASE TakeMemory
  <2>1. /\ queue # <<>> /\ queue' = Tail(queue) /\ UNCHANGED <<inflight, spill>>
        /\ snd'.alert = Head(queue) /\ snd'.pc = "dm" /\ queue \in Seq(Alert)
    BY <1>3 DEF TakeMemory, TypeInv, TypeOK, tables
  <2>2. /\ In(a, queue) <=> In(a, queue)' \/ a = Head(queue)
        /\ Once(a, queue)' /\ (a = Head(queue) => ~In(a, queue)')
    BY <2>1, TailIn DEF Apart
  <2>3. Waiting(a)' <=> Waiting(a)
    BY <2>1 DEF Waiting
  <2> QED
    BY <1>1, <2>1, <2>2, <2>3 DEF Apart
<1>4. ASSUME NEW b \in Alert, TakeSpill(b) PROVE Apart(a)'
  <2>1. /\ UNCHANGED queue /\ inflight' = inflight \cup {b} /\ snd'.alert = b /\ snd'.pc = "dm"
        /\ spill' = [spill EXCEPT ![b] = "sending"] /\ spill[b] = "pending"
    BY <1>4 DEF TakeSpill, Oldest
  <2>2. CASE a = b
    <3>1. Waiting(a) /\ ~Waiting(a)'
      BY <2>1, <2>2 DEF Waiting, TypeInv, TypeOK
    <3> QED
      BY <1>1, <2>1, <2>2, <3>1 DEF Apart
  <2>3. CASE a # b
    <3>1. Waiting(a)' <=> Waiting(a)
      BY <2>1, <2>3 DEF Waiting, TypeInv, TypeOK
    <3> QED
      BY <1>1, <2>1, <2>3, <3>1 DEF Apart
  <2> QED
    BY <2>2, <2>3
<1>5. CASE QueueEmpty \/ NoSpill
  <2>1. UNCHANGED <<inflight, queue, spill>>
    BY <1>5 DEF QueueEmpty, NoSpill, tables
  <2>2. snd'.alert \in {snd.alert, NoAlert} /\ snd'.pc # "retry"
    BY <1>5, SenderPcFields, RestFields DEF QueueEmpty, NoSpill
  <2> QED
    BY <1>1, <2>1, <2>2, ApartKept
<1>6. ASSUME NEW outcome \in {"ok", "refused", "failed", "lost"}, SendDm(outcome) PROVE Apart(a)'
  <2>1. outcome \in {"ok", "refused"} /\ UNCHANGED <<inflight, queue, spill>>
    BY <1>6 DEF SendDm, tables
  <2>2. snd' = [snd EXCEPT !.pc = CASE outcome = "ok" -> "record"
                                    [] outcome = "refused" -> "refused"
                                    [] OTHER -> "retry"]
    BY <1>6 DEF SendDm
  <2>3. snd'.alert = snd.alert /\ snd'.pc # "retry"
    BY <2>1, <2>2, SenderPcFields
  <2> QED
    BY <1>1, <2>1, <2>3, ApartKept
<1>7. CASE Record \/ MarkSent \/ GiveUp
  <2>1. UNCHANGED <<inflight, queue>>
    BY <1>7 DEF Record, MarkSent, GiveUp
  <2>2. snd'.alert = snd.alert /\ snd'.pc # "retry"
    BY <1>7, SenderPcFields DEF Record, MarkSent, GiveUp
  <2>3. spill'[a] = "pending" => spill[a] = "pending"
    <3>1. UNCHANGED spill \/ SetRow(snd.alert, "sent") \/ SetRow(snd.alert, "failed")
      BY <1>7 DEF Record, MarkSent, GiveUp
    <3> QED
      BY <3>1, SetRowEffect
  <2> QED
    BY <1>1, <2>1, <2>2, <2>3, ApartKept
<1>8. CASE RecordFails
  <2>1. snd.alert # a /\ UNCHANGED <<inflight, queue, spill>>
    BY <1>8 DEF RecordFails, RecordRejected, tables
  <2>2. snd'.alert = snd.alert
    BY <1>8, SenderPcFields DEF RecordFails
  <2> QED
    BY <1>1, <2>1, <2>2, ApartKept
<1>9. CASE Retry
  <2>1. snd.alert # a /\ UNCHANGED <<inflight, queue>> /\ snd.alert \in Alert
    BY <1>9 DEF Retry, Apart, TypeInv, AtRest
  <2>2. snd'.alert = snd.alert
    BY <1>9, SenderPcFields DEF Retry
  <2>3. spill'[a] = spill[a]
    <3>1. SetRow(snd.alert, "pending") \/ InsertRow(snd.alert)
      BY <1>9 DEF Retry
    <3> QED
      BY <2>1, <3>1, SetRowEffect, InsertRowEffect
  <2> QED
    BY <1>1, <2>1, <2>2, <2>3, ApartKept
<1>10. CASE Release
  <2>1. /\ inflight' = inflight \ {snd.alert} /\ snd'.alert = NoAlert /\ snd'.pc = "idle"
        /\ UNCHANGED <<queue, spill>>
    BY <1>10, RestFields DEF Release, tables
  <2>2. Waiting(a)' <=> Waiting(a)
    BY <2>1 DEF Waiting
  <2>3. CASE snd.alert = a
    BY <1>1, <2>1, <2>2, <2>3 DEF Apart
  <2>4. CASE snd.alert # a
    BY <1>1, <2>1, <2>2, <2>4 DEF Apart
  <2> QED
    BY <2>3, <2>4
<1>11. ~MarkSentFails /\ ~WriteFails /\ \A b \in Alert : ~TakeSpillFails(b)
  BY DEF MarkSentFails, WriteFails, TakeSpillFails
<1> QED
  BY <1>2, <1>3, <1>4, <1>5, <1>6, <1>7, <1>8, <1>9, <1>10, <1>11 DEF Send

(* Members, the clock, the retention and the start of the pool take no copy away,   *)
(* and of the rows they only delete some.                                           *)
LEMMA EnvironmentEffect ==
  ASSUME TypeInv, Environment, ~Restart
  PROVE  /\ UNCHANGED <<inflight, queue, scr>> /\ snd'.alert = snd.alert
         /\ snd'.pc = snd.pc \/ (snd.pc = "off" /\ snd'.pc = "boot")
         /\ \A x \in Alert : spill'[x] \in {spill[x], "none"}
<1>1. CASE \E a \in Alert : GrowOld(a) \/ NewListing(a)
  BY <1>1 DEF GrowOld, NewListing, tables, memory
<1>2. CASE \E f \in Filter : DeleteFilter(f)
  BY <1>2 DEF DeleteFilter, memory
<1>3. ASSUME NEW D \in SUBSET Rows({"pending"}), NEW F \in SUBSET alerted, Retain(D, F)
      PROVE  /\ UNCHANGED <<inflight, queue, scr>> /\ snd'.alert = snd.alert /\ snd'.pc = snd.pc
             /\ \A x \in Alert : spill'[x] \in {spill[x], "none"}
  BY <1>3, OvertakenEffect DEF Retain, DeleteRows
<1>4. CASE StartPool
  BY <1>4, SenderPcFields DEF StartPool, tables
<1> QED
  BY <1>1, <1>2, <1>3, <1>4 DEF Environment

LEMMA EnvironmentApart ==
  ASSUME TypeInv, Environment, ~Restart, NEW a \in Alert, Apart(a)
  PROVE  Apart(a)'
<1>1. UNCHANGED <<inflight, queue, scr>> /\ snd'.alert = snd.alert /\ snd'.pc \in {snd.pc, "boot"}
  BY EnvironmentEffect
<1>2. spill'[a] = "pending" => spill[a] = "pending"
  BY EnvironmentEffect
<1> QED
  BY <1>1, <1>2, ApartKept DEF Apart

(* No row is being sent until the sender runs.                                      *)
NoneSending == snd.pc \in {"off", "boot"} => \A a \in Alert : spill[a] # "sending"

LEMMA SendingStep ==
  ASSUME TypeInv, NoneSending, Next, ~Restart
  PROVE  NoneSending'
<1>1. ASSUME NEW w \in Scraper, Scrape(w) PROVE NoneSending'
  <2>1. \A x \in Alert : spill'[x] = "sending" => spill[x] = "sending"
    BY <1>1, ScrapeEffect
  <2>2. snd'.pc \in {"off", "boot"} => snd.pc \in {"off", "boot"}
    BY <1>1, ScrapeEffect
  <2> QED
    BY <2>1, <2>2 DEF NoneSending
<1>2. CASE Send
  <2>1. snd'.pc \notin {"off", "boot"}
    <3>1. CASE \E outcome \in {"ok", "refused", "failed", "lost"} : SendDm(outcome)
      <4>1. PICK pc \in {"record", "refused", "retry"} : snd' = [snd EXCEPT !.pc = pc]
        BY <3>1 DEF SendDm
      <4> QED
        BY <4>1, SenderPcFields
    <3>2. CASE QueueEmpty \/ Record \/ RecordFails \/ MarkSent \/ MarkSentFails \/ Retry \/ WriteFails \/ GiveUp
      <4>1. \E pc \in {"poll", "mark", "release", "retry"} : snd' = [snd EXCEPT !.pc = pc]
        BY <3>2 DEF QueueEmpty, Record, RecordFails, MarkSent, MarkSentFails, Retry, WriteFails, GiveUp
      <4> QED
        BY <4>1, SenderPcFields
    <3>3. CASE TakeMemory \/ \E b \in Alert : TakeSpill(b)
      BY <3>3 DEF TakeMemory, TakeSpill
    <3>4. CASE snd' = IdleSender
      BY <3>4, RestFields
    <3> QED
      BY <1>2, <3>1, <3>2, <3>3, <3>4 DEF Send, Recover, NoSpill, Release, TakeSpillFails
  <2> QED
    BY <2>1 DEF NoneSending
<1>3. CASE Environment
  <2>1. snd'.pc \in {"off", "boot"} => snd.pc \in {"off", "boot"}
    BY <1>3, EnvironmentEffect
  <2>2. \A x \in Alert : spill'[x] = "sending" => spill[x] = "sending"
    BY <1>3, EnvironmentEffect
  <2> QED
    BY <2>1, <2>2 DEF NoneSending
<1> QED
  BY <1>1, <1>2, <1>3 DEF Next

CopyInv ==
  faults = 0 /\ restarts = 0 =>
    NoneSending /\ \A a \in Alert : FilterOf[a] \in filters => Apart(a)

(* Before a state without failures and restarts there were none either.             *)
LEMMA Quiet ==
  ASSUME TypeInv, [Next]_vars, faults' = 0, restarts' = 0
  PROVE  faults = 0 /\ restarts = 0 /\ ~Fault /\ ~Restart /\ filters' \subseteq filters
<1>1. faults \in Nat /\ restarts \in Nat
  BY BoundAssumption DEF TypeInv, TypeOK
<1>2. ~Fault /\ ~Restart
  BY <1>1 DEF Fault, Restart
<1>3. CASE UNCHANGED vars
  BY <1>2, <1>3 DEF vars
<1>4. CASE Next
  <2>1. UNCHANGED <<faults, restarts>>
    BY <1>2, <1>4 DEF Next, Scrape, Match, Claim, Put, Spill, SpillFails, Send, Recover, TakeMemory, QueueEmpty,
                      TakeSpill, NoSpill, SendDm, Record, RecordFails, MarkSent, MarkSentFails, Retry, WriteFails,
                      GiveUp, Release, TakeSpillFails, Environment, GrowOld, NewListing, DeleteFilter, Retain,
                      StartPool
  <2>2. filters' \subseteq filters
    BY <1>4 DEF Next, Scrape, Match, Claim, Put, Spill, SpillFails, Send, Recover, TakeMemory, QueueEmpty,
                TakeSpill, NoSpill, SendDm, Record, RecordFails, MarkSent, MarkSentFails, Retry, WriteFails,
                GiveUp, Release, TakeSpillFails, Environment, GrowOld, NewListing, DeleteFilter, Retain,
                Restart, StartPool
  <2> QED
    BY <1>2, <2>1, <2>2
<1> QED
  BY <1>3, <1>4

LEMMA CopyStep ==
  ASSUME TypeInv, CopyInv, [Next]_vars
  PROVE  CopyInv'
<1>1. SUFFICES ASSUME faults' = 0, restarts' = 0
               PROVE  NoneSending' /\ \A a \in Alert : (FilterOf[a] \in filters)' => Apart(a)'
  BY DEF CopyInv
<1>2. faults = 0 /\ restarts = 0 /\ ~Fault /\ ~Restart /\ filters' \subseteq filters
  BY <1>1, Quiet
<1>3. ~Fault /\ ~Restart
  BY <1>2
<1>4. NoneSending /\ \A a \in Alert : FilterOf[a] \in filters => Apart(a)
  BY <1>2 DEF CopyInv
<1>5. CASE UNCHANGED vars
  <2>1. UNCHANGED <<snd, spill, filters, scr, queue, inflight>>
    BY <1>5 DEF vars, tables, memory
  <2> QED
    BY <1>4, <2>1 DEF NoneSending, Apart, In, Once, Waiting
<1>6. CASE Next
  <2>1. NoneSending'
    BY <1>3, <1>4, <1>6, SendingStep
  <2>2. ASSUME NEW a \in Alert, FilterOf[a] \in filters' PROVE Apart(a)'
    <3>1. FilterOf[a] \in filters /\ Apart(a)
      BY <1>2, <1>4, <2>2
    <3>2. ASSUME NEW w \in Scraper, Scrape(w) PROVE Apart(a)'
      BY <1>3, <3>1, <3>2, ScrapeApart
    <3>3. CASE Send
      BY <1>3, <1>4, <3>1, <3>3, SendApart DEF NoneSending
    <3>4. CASE Environment
      BY <1>3, <3>1, <3>4, EnvironmentApart
    <3> QED
      BY <1>6, <3>2, <3>3, <3>4 DEF Next
  <2> QED
    BY <2>1, <2>2
<1> QED
  BY <1>5, <1>6

LEMMA CopyAlways == Spec => []CopyInv
<1>1. Init => CopyInv
  <2>1. SUFFICES ASSUME Init PROVE NoneSending /\ \A a \in Alert : Apart(a)
    BY DEF CopyInv
  <2>2. NoneSending
    BY <2>1 DEF Init, NoneSending
  <2>3. /\ queue = <<>> /\ Len(queue) = 0 /\ snd.alert = NoAlert /\ \A w \in Scraper : scr[w].cur = NoAlert
        /\ \A a \in Alert : spill[a] = "none" /\ a # NoAlert
    BY <2>1, RestFields, AlertAssumption DEF Init, IdleScraper
  <2> QED
    BY <2>2, <2>3 DEF Apart, In, Once, Waiting
<1>2. TypeInv /\ CopyInv /\ [Next]_vars => CopyInv'
  BY CopyStep
<1> QED
  BY <1>1, <1>2, TypeAlways, PTL DEF Spec

LEMMA AtMostOne ==
  ASSUME NEW S, \A x, y \in S : x = y
  PROVE  Cardinality(S) = IF S = {} THEN 0 ELSE 1
<1>1. CASE S = {}
  BY <1>1, FS_EmptySet
<1>2. CASE S # {}
  <2>1. PICK x : S = {x}
    BY <1>2
  <2> QED
    BY <1>2, <2>1, FS_Singleton
<1> QED
  BY <1>1, <1>2

(* Without failures and restarts the claim makes the scrape threads, the queue, the *)
(* table and the sender mutually exclusive: there is at most one copy of an alert,  *)
(* and its claim is held.                                                           *)
THEOREM OneCopyAlways == Spec => []OneCopy
<1>1. ASSUME NEW a \in Alert, Apart(a)
      PROVE  Copies(a) <= 1 /\ (Copies(a) = 1 => a \in inflight)
  <2>1. Cardinality(Holders(a)) = IF Holders(a) = {} THEN 0 ELSE 1
    <3>1. \A w, v \in Holders(a) : w = v
      BY <1>1 DEF Apart, Holders
    <3> QED
      BY <3>1, AtMostOne
  <2>2. Cardinality(Queued(a)) = IF Queued(a) = {} THEN 0 ELSE 1
    <3>1. \A i, j \in Queued(a) : i = j
      BY <1>1 DEF Apart, Once, Queued
    <3> QED
      BY <3>1, AtMostOne
  <2>3. /\ Holders(a) # {} <=> \E w \in Scraper : scr[w].cur = a
        /\ Queued(a) # {} <=> In(a, queue)
        /\ Held(a) => snd.alert = a
    BY DEF Holders, Queued, In, Held
  <2>4. /\ Holders(a) # {} => Queued(a) = {} /\ ~Held(a) /\ ~Waiting(a)
        /\ Queued(a) # {} => ~Held(a) /\ ~Waiting(a)
        /\ Held(a) => ~Waiting(a)
        /\ Holders(a) # {} \/ Queued(a) # {} \/ Held(a) \/ Waiting(a) => a \in inflight
    BY <1>1, <2>3 DEF Apart
  <2> QED
    BY <2>1, <2>2, <2>4 DEF Copies
<1>2. CopyInv => OneCopy
  BY <1>1 DEF CopyInv, OneCopy
<1> QED
  BY <1>2, CopyAlways, PTL

----------------------------------------------------------------------------
(* Messages per alert *)

(* Scrape threads that matched the alert and have not handed it on.                 *)
Stale(a) == {w \in Scraper : a \in scr[w].found \/ scr[w].cur = a}

(* A copy of the alert has left the scrape threads and is still to be sent.         *)
Due(a) == In(a, queue) \/ Waiting(a) \/ (snd.alert = a /\ snd.pc = "dm")

(* Every message still possible is counted.                                         *)
Told(a) == dms[a] + Cardinality(Stale(a)) + (IF Due(a) THEN 1 ELSE 0) <= 1 + Cardinality(Scraper)

(* An alert that can be matched was not sent, or is being recorded.                 *)
First(a) == a \in fresh \ alerted => dms[a] = 0 \/ (dms[a] = 1 /\ snd.alert = a /\ snd.pc = "record")

DmInv ==
  faults = 0 /\ restarts = 0 =>
    \A a \in Alert : FilterOf[a] \in filters => First(a) /\ Told(a)

LEMMA StaleSize ==
  ASSUME NEW a
  PROVE  /\ IsFiniteSet(Stale(a)) /\ Cardinality(Stale(a)) \in Nat
         /\ Cardinality(Scraper) \in Nat /\ Cardinality(Stale(a)) <= Cardinality(Scraper)
<1>1. Stale(a) \subseteq Scraper
  BY DEF Stale
<1> QED
  BY <1>1, ScraperAssumption, FS_Subset, FS_CardinalityType

(* While the alert can be matched the count is not exhausted.                       *)
LEMMA FirstTold ==
  ASSUME NEW a \in Alert, Apart(a)', First(a)', a \in fresh' \ alerted'
  PROVE  Told(a)'
<1>1. dms'[a] = 0 \/ (dms'[a] = 1 /\ ~Due(a)')
  BY DEF First, Apart, Due
<1>2. PICK n \in Nat, m \in Nat : n = Cardinality(Stale(a)') /\ m = Cardinality(Scraper) /\ n <= m
  <2>1. Stale(a)' \subseteq Scraper
    BY DEF Stale
  <2> QED
    BY <2>1, ScraperAssumption, FS_Subset, FS_CardinalityType
<1>3. dms'[a] + n + (IF Due(a)' THEN 1 ELSE 0) <= 1 + m
  BY <1>1, <1>2
<1> QED
  BY <1>2, <1>3 DEF Told

LEMMA FirstKept ==
  ASSUME NEW a \in Alert, First(a), dms'[a] = dms[a],
         a \in fresh' \ alerted' => a \in fresh \ alerted,
         snd.alert = a /\ snd.pc = "record" => snd'.alert = a /\ snd'.pc = "record"
  PROVE  First(a)'
BY DEF First

(* A message, and a thread that hands the alert on, use up what they add.           *)
LEMMA ToldKept ==
  ASSUME TypeInv, TypeInv', NEW a \in Alert, Told(a), Stale(a)' \subseteq Stale(a),
         \/ dms'[a] = dms[a] /\ (Due(a)' => Due(a))
         \/ dms'[a] <= dms[a] + 1 /\ Due(a) /\ ~Due(a)'
         \/ dms'[a] = dms[a] /\ \E w \in Stale(a) : w \notin Stale(a)'
  PROVE  Told(a)'
<1> DEFINE n == Cardinality(Stale(a))
           k == Cardinality(Stale(a)')
           m == Cardinality(Scraper)
<1>1. n \in Nat /\ m \in Nat /\ IsFiniteSet(Stale(a))
  BY StaleSize
<1>2. k \in Nat /\ k <= n
  BY <1>1, FS_Subset, FS_CardinalityType
<1>3. (\E w \in Stale(a) : w \notin Stale(a)') => k + 1 <= n
  <2>1. ASSUME NEW w \in Stale(a), w \notin Stale(a)' PROVE k + 1 <= n
    <3>1. Stale(a)' \subseteq Stale(a) \ {w}
      BY <2>1
    <3>2. IsFiniteSet(Stale(a) \ {w}) /\ Cardinality(Stale(a) \ {w}) = n - 1
      BY <1>1, <2>1, FS_RemoveElement
    <3>3. k <= Cardinality(Stale(a) \ {w})
      BY <3>1, <3>2, FS_Subset
    <3> QED
      BY <1>1, <1>2, <3>2, <3>3
  <2> QED
    BY <2>1
<1>4. dms[a] \in Nat /\ dms'[a] \in Nat
  BY BoundAssumption DEF TypeInv, TypeOK
<1>5. dms[a] + n + (IF Due(a) THEN 1 ELSE 0) <= 1 + m
  BY DEF Told
<1> HIDE DEF n, k, m
<1>6. dms'[a] + k + (IF Due(a)' THEN 1 ELSE 0) <= 1 + m
  <2>1. CASE dms'[a] = dms[a] /\ (Due(a)' => Due(a))
    BY <1>1, <1>2, <1>4, <1>5, <2>1
  <2>2. CASE dms'[a] <= dms[a] + 1 /\ Due(a) /\ ~Due(a)'
    BY <1>1, <1>2, <1>4, <1>5, <2>2
  <2>3. CASE dms'[a] = dms[a] /\ \E w \in Stale(a) : w \notin Stale(a)'
    BY <1>1, <1>2, <1>3, <1>4, <1>5, <2>3
  <2> QED
    BY <2>1, <2>2, <2>3
<1> QED
  BY <1>6 DEF Told, k, m

LEMMA HandOn ==
  ASSUME TypeInv, NEW a \in Alert, NEW w \in Scraper, scr' = [scr EXCEPT ![w] = NextFound(scr[w])]
  PROVE  /\ Stale(a)' \subseteq Stale(a)
         /\ scr[w].cur = a => \E v \in Stale(a) : v \notin Stale(a)'
<1>1. a # NoAlert /\ scr[w] \in ScraperState
  BY AlertAssumption DEF TypeInv, TypeOK, ScraperState
<1>2. scr'[w].cur = NoAlert /\ scr'[w].found = scr[w].found \ {scr[w].cur}
  BY <1>1, NextFoundFields DEF TypeInv, TypeOK
<1>3. \A v \in Scraper \ {w} : scr'[v] = scr[v]
  BY DEF TypeInv, TypeOK
<1>4. Stale(a)' \subseteq Stale(a)
  BY <1>1, <1>2, <1>3 DEF Stale
<1>5. scr[w].cur = a => w \in Stale(a) /\ w \notin Stale(a)'
  BY <1>1, <1>2 DEF Stale
<1> QED
  BY <1>4, <1>5

LEMMA ScrapeDms ==
  ASSUME TypeInv, TypeInv', NEW w \in Scraper, Scrape(w), ~Fault,
         NEW a \in Alert, Apart(a)', First(a), Told(a)
  PROVE  First(a)' /\ Told(a)'
<1>1. scr[w] \in ScraperState /\ a # NoAlert
  BY AlertAssumption DEF TypeInv, TypeOK, ScraperState
<1>2. /\ UNCHANGED <<fresh, alerted, dms>>
      /\ snd' = snd \/ (snd.pc = "off" /\ snd'.pc = "boot" /\ snd'.alert = snd.alert)
  BY ScrapeEffect DEF hist
<1>3. First(a)'
  BY <1>2, FirstKept
<1>4. snd'.alert = a /\ snd'.pc = "dm" => snd.alert = a /\ snd.pc = "dm"
  BY <1>2
<1>5. dms'[a] = dms[a]
  BY <1>2
<1>6. ASSUME Stale(a)' \subseteq Stale(a), Due(a)' => Due(a) PROVE Told(a)'
  BY <1>5, <1>6, ToldKept
<1>7. ASSUME scr' = [scr EXCEPT ![w] = NextFound(scr[w])], Due(a)' => Due(a) \/ scr[w].cur = a PROVE Told(a)'
  <2>1. /\ Stale(a)' \subseteq Stale(a)
        /\ scr[w].cur = a => \E v \in Stale(a) : v \notin Stale(a)'
    BY <1>7, HandOn
  <2>2. CASE scr[w].cur = a
    <3>1. \E v \in Stale(a) : v \notin Stale(a)'
      BY <2>1, <2>2
    <3> QED
      BY <1>5, <2>1, <3>1, ToldKept
  <2>3. CASE scr[w].cur # a
    BY <1>6, <1>7, <2>1, <2>3
  <2> QED
    BY <2>2, <2>3
<1>8. ASSUME NEW M \in SUBSET Matching, Match(w, M) PROVE Told(a)'
  <2>1. CASE a \in M
    <3>1. a \in fresh' \ alerted'
      BY <1>2, <2>1 DEF Matching
    <3> QED
      BY <1>3, <3>1, FirstTold
  <2>2. CASE a \notin M
    <3>1. scr'[w].found = M /\ scr'[w].cur = NoAlert /\ \A v \in Scraper \ {w} : scr'[v] = scr[v]
      BY <1>8 DEF Match, TypeInv, TypeOK
    <3>2. Stale(a)' \subseteq Stale(a)
      BY <1>1, <2>2, <3>1 DEF Stale
    <3>3. UNCHANGED <<queue, spill>>
      BY <1>8 DEF Match, tables
    <3>4. Due(a)' => Due(a)
      BY <1>4, <3>3 DEF Due, In, Waiting
    <3> QED
      BY <1>6, <3>2, <3>4
  <2> QED
    BY <2>1, <2>2
<1>9. ASSUME NEW b \in scr[w].found, Claim(w, b) PROVE Told(a)'
  <2>1. b \in Alert /\ UNCHANGED <<queue, spill, snd>>
    BY <1>1, <1>9 DEF ScraperState, Claim, tables
  <2>2. Due(a)' => Due(a)
    BY <2>1 DEF Due, In, Waiting
  <2>3. Stale(a)' \subseteq Stale(a)
    <3>1. CASE scr' = [scr EXCEPT ![w] = NextFound([scr[w] EXCEPT !.cur = b])]
      <4>1. [scr[w] EXCEPT !.cur = b] \in ScraperState /\ [scr[w] EXCEPT !.cur = b].found = scr[w].found
        BY <1>1, <2>1 DEF ScraperState
      <4>2. scr'[w].cur = NoAlert /\ scr'[w].found \subseteq scr[w].found
        BY <3>1, <4>1, NextFoundFields DEF TypeInv, TypeOK
      <4>3. \A v \in Scraper \ {w} : scr'[v] = scr[v]
        BY <3>1 DEF TypeInv, TypeOK
      <4> QED
        BY <1>1, <4>2, <4>3 DEF Stale
    <3>2. CASE scr' = [scr EXCEPT ![w] = [scr[w] EXCEPT !.cur = b, !.pc = FirstChoice]]
      <4>1. scr'[w].cur = b /\ scr'[w].found = scr[w].found /\ \A v \in Scraper \ {w} : scr'[v] = scr[v]
        BY <1>1, <3>2 DEF TypeInv, TypeOK, ScraperState
      <4> QED
        BY <1>9, <4>1 DEF Stale
    <3> QED
      BY <1>9, <3>1, <3>2 DEF Claim
  <2> QED
    BY <1>6, <2>2, <2>3
<1>10. CASE Put(w)
  <2>1. UNCHANGED <<spill, snd>> /\ scr[w].cur \in Alert
    BY <1>10 DEF Put, Busy, TypeInv, tables
  <2>2. CASE ~(Len(queue) < QueueMax)
    <3>1. UNCHANGED queue /\ scr' = [scr EXCEPT ![w].pc = "full"]
      BY <1>10, <2>2 DEF Put
    <3>2. \A v \in Scraper : scr'[v].cur = scr[v].cur /\ scr'[v].found = scr[v].found
      BY <3>1 DEF TypeInv, TypeOK
    <3>3. Stale(a)' \subseteq Stale(a)
      BY <3>2 DEF Stale
    <3>4. Due(a)' => Due(a)
      BY <2>1, <3>1 DEF Due, In, Waiting
    <3> QED
      BY <1>3, <1>6, <3>3, <3>4
  <2>3. CASE Len(queue) < QueueMax
    <3>1. queue' = Append(queue, scr[w].cur) /\ scr' = [scr EXCEPT ![w] = NextFound(scr[w])]
      BY <1>10, <2>3 DEF Put
    <3>2. queue \in Seq(Alert)
      BY DEF TypeInv, TypeOK
    <3>3. In(a, queue)' => In(a, queue) \/ a = scr[w].cur
      BY <2>1, <3>1, <3>2, AppendIn
    <3>4. Due(a)' => Due(a) \/ scr[w].cur = a
      BY <2>1, <3>3 DEF Due, Waiting
    <3> QED
      BY <1>3, <1>7, <3>1, <3>4
  <2> QED
    BY <2>2, <2>3
<1>11. CASE Spill(w)
  <2>1. UNCHANGED <<queue, snd>> /\ scr[w].cur \in Alert
    BY <1>11 DEF Spill, Busy, TypeInv
  <2>2. scr' = [scr EXCEPT ![w] = NextFound(scr[w])] /\ InsertRow(scr[w].cur)
    BY <1>11 DEF Spill
  <2>3. Waiting(a)' => Waiting(a) \/ a = scr[w].cur
    BY <2>1, <2>2, InsertRowEffect DEF Waiting
  <2>4. Due(a)' => Due(a) \/ scr[w].cur = a
    BY <2>1, <2>3 DEF Due, In
  <2> QED
    BY <1>3, <1>7, <2>2, <2>4
<1>12. ~SpillFails(w)
  BY DEF SpillFails
<1> QED
  BY <1>3, <1>8, <1>9, <1>10, <1>11, <1>12 DEF Scrape

LEMMA SendDms ==
  ASSUME TypeInv, TypeInv', Send, ~Fault, NEW a \in Alert, FilterOf[a] \in filters,
         Apart(a), First(a), Told(a),
         snd.pc \in {"off", "boot"} => \A x \in Alert : spill[x] # "sending"
  PROVE  First(a)' /\ Told(a)'
<1>1. /\ a # NoAlert /\ UNCHANGED <<scr, fresh>>
      /\ Stale(a)' \subseteq Stale(a)
  <2>1. UNCHANGED <<scr, fresh>>
    BY DEF Send, Recover, TakeMemory, QueueEmpty, TakeSpill, NoSpill, SendDm, Record, RecordFails,
           MarkSent, MarkSentFails, Retry, WriteFails, GiveUp, Release, TakeSpillFails
  <2> QED
    BY <2>1, AlertAssumption DEF Stale
<1>2. ASSUME NEW outcome \in {"ok", "refused", "failed", "lost"}, SendDm(outcome) PROVE First(a)' /\ Told(a)'
  <2>1. /\ outcome \in {"ok", "refused"} /\ UNCHANGED <<alerted, inflight, queue, spill>>
        /\ snd.pc = "dm" /\ snd.alert \in Alert
    BY <1>2 DEF SendDm, tables, TypeInv, AtRest
  <2>2. snd' = [snd EXCEPT !.pc = CASE outcome = "ok" -> "record"
                                    [] outcome = "refused" -> "refused"
                                    [] OTHER -> "retry"]
    BY <1>2 DEF SendDm
  <2>3. snd'.alert = snd.alert /\ snd'.pc = IF outcome = "ok" THEN "record" ELSE "refused"
    BY <2>1, <2>2, SenderPcFields
  <2>4. CASE snd.alert = a
    <3>1. dms[a] \in 0..MaxDms /\ dms'[a] = (IF outcome = "ok" /\ dms[a] < MaxDms THEN dms[a] + 1 ELSE dms[a])
      BY <1>2, <2>1, <2>4 DEF SendDm, TypeInv, TypeOK
    <3>2. First(a)'
      BY <1>1, <2>1, <2>3, <2>4, <3>1, BoundAssumption DEF First
    <3>3. dms'[a] <= dms[a] + 1
      BY <3>1, BoundAssumption
    <3>4. Due(a) /\ ~Due(a)'
      BY <2>1, <2>3, <2>4 DEF Apart, Due, In, Waiting
    <3> QED
      BY <1>1, <3>2, <3>3, <3>4, ToldKept
  <2>5. CASE snd.alert # a
    <3>1. dms'[a] = dms[a]
      BY <1>2, <2>1, <2>5 DEF SendDm, TypeInv, TypeOK
    <3>2. Due(a)' => Due(a)
      BY <2>1, <2>3 DEF Due, In, Waiting
    <3> QED
      BY <1>1, <2>1, <2>5, <3>1, <3>2, FirstKept, ToldKept
  <2> QED
    BY <2>4, <2>5
<1>3. CASE Record
  <2>1. /\ snd.pc = "record" /\ alerted' = alerted \cup {snd.alert} /\ UNCHANGED <<queue, spill, dms>>
    BY <1>3 DEF Record, hist
  <2>2. snd'.alert = snd.alert /\ snd'.pc # "dm"
    BY <1>3, SenderPcFields DEF Record
  <2>3. First(a)'
    BY <1>1, <2>1, FirstKept DEF First
  <2>4. Due(a)' => Due(a)
    BY <2>1, <2>2 DEF Due, In, Waiting
  <2> QED
    BY <1>1, <2>1, <2>3, <2>4, ToldKept
<1>4. ASSUME UNCHANGED <<alerted, dms>>, snd.alert # a \/ snd.pc # "record", Due(a)' => Due(a)
      PROVE  First(a)' /\ Told(a)'
  BY <1>1, <1>4, FirstKept, ToldKept
<1>5. CASE RecordFails
  <2>1. snd.alert # a /\ UNCHANGED <<alerted, dms, queue, spill>>
    BY <1>5 DEF RecordFails, RecordRejected, tables, hist
  <2>2. snd'.alert = snd.alert
    BY <1>5, SenderPcFields DEF RecordFails
  <2>3. Due(a)' => Due(a)
    BY <2>1, <2>2 DEF Due, In, Waiting
  <2> QED
    BY <1>4, <2>1, <2>3
<1>6. ASSUME NEW R \in SUBSET Rows({"sending"}), Recover(R) PROVE First(a)' /\ Told(a)'
  <2>1. R = {} /\ UNCHANGED <<alerted, dms, queue>> /\ snd' = IdleSender /\ snd.pc = "boot"
    BY <1>6 DEF Recover, Rows, hist
  <2>2. spill'[a] = spill[a]
    BY <1>6, <2>1 DEF Recover
  <2>3. Due(a)' => Due(a)
    BY <2>1, <2>2, RestFields DEF Due, In, Waiting
  <2> QED
    BY <1>4, <2>1, <2>3
<1>7. CASE TakeMemory
  <2>1. /\ queue # <<>> /\ queue' = Tail(queue) /\ UNCHANGED <<alerted, dms, spill>>
        /\ snd'.alert = Head(queue) /\ snd.pc = "idle" /\ queue \in Seq(Alert)
    BY <1>7 DEF TakeMemory, TypeInv, TypeOK, tables, hist
  <2>2. In(a, queue) <=> In(a, queue)' \/ a = Head(queue)
    BY <2>1, TailIn
  <2>3. Due(a)' => Due(a)
    BY <2>1, <2>2 DEF Due, Waiting
  <2> QED
    BY <1>4, <2>1, <2>3
<1>8. ASSUME NEW b \in Alert, TakeSpill(b) PROVE First(a)' /\ Told(a)'
  <2>1. /\ UNCHANGED <<alerted, dms, queue>> /\ snd'.alert = b /\ snd.pc = "poll"
        /\ spill' = [spill EXCEPT ![b] = "sending"] /\ spill[b] = "pending"
    BY <1>8 DEF TakeSpill, Oldest, hist
  <2>2. Due(a)' => Due(a)
    BY <2>1 DEF Due, In, Waiting, TypeInv, TypeOK
  <2> QED
    BY <1>4, <2>1, <2>2
<1>9. CASE QueueEmpty \/ NoSpill \/ Release
  <2>1. UNCHANGED <<alerted, dms, queue, spill>> /\ snd.pc # "record"
    BY <1>9 DEF QueueEmpty, NoSpill, Release, tables, hist
  <2>2. snd'.pc # "dm"
    BY <1>9, SenderPcFields, RestFields DEF QueueEmpty, NoSpill, Release
  <2>3. Due(a)' => Due(a)
    BY <2>1, <2>2 DEF Due, In, Waiting
  <2> QED
    BY <1>4, <2>1, <2>3
<1>10. CASE MarkSent \/ GiveUp \/ Retry
  <2>1. UNCHANGED <<alerted, dms, queue>> /\ snd.pc # "record"
    BY <1>10 DEF MarkSent, GiveUp, Retry, hist
  <2>2. snd'.pc # "dm"
    BY <1>10, SenderPcFields DEF MarkSent, GiveUp, Retry
  <2>3. spill'[a] = "pending" => spill[a] = "pending"
    <3>1. CASE Retry
      <4>1. snd.alert # a /\ snd.alert \in Alert /\ (SetRow(snd.alert, "pending") \/ InsertRow(snd.alert))
        BY <3>1 DEF Retry, Apart, TypeInv, AtRest
      <4> QED
        BY <4>1, SetRowEffect, InsertRowEffect
    <3>2. CASE MarkSent \/ GiveUp
      <4>1. UNCHANGED spill \/ SetRow(snd.alert, "sent") \/ SetRow(snd.alert, "failed")
        BY <3>2 DEF MarkSent, GiveUp
      <4> QED
        BY <4>1, SetRowEffect
    <3> QED
      BY <1>10, <3>1, <3>2
  <2>4. Due(a)' => Due(a)
    BY <2>1, <2>2, <2>3 DEF Due, In, Waiting
  <2> QED
    BY <1>4, <2>1, <2>4
<1>11. ~MarkSentFails /\ ~WriteFails /\ \A b \in Alert : ~TakeSpillFails(b)
  BY DEF MarkSentFails, WriteFails, TakeSpillFails
<1> QED
  BY <1>2, <1>3, <1>5, <1>6, <1>7, <1>8, <1>9, <1>10, <1>11 DEF Send

LEMMA EnvironmentDms ==
  ASSUME TypeInv, TypeInv', Environment, ~Restart, NEW a \in Alert, FilterOf[a] \in filters',
         First(a), Told(a)
  PROVE  First(a)' /\ Told(a)'
<1>1. /\ UNCHANGED <<queue, scr>> /\ snd'.alert = snd.alert
      /\ snd'.pc = snd.pc \/ (snd.pc = "off" /\ snd'.pc = "boot")
      /\ \A x \in Alert : spill'[x] \in {spill[x], "none"}
  BY EnvironmentEffect
<1>2. Due(a)' => Due(a)
  BY <1>1 DEF Due, In, Waiting
<1>3. Stale(a)' \subseteq Stale(a)
  BY <1>1 DEF Stale
<1>4. CASE NewListing(a)
  <2>1. dms'[a] = 0
    BY <1>4 DEF NewListing, TypeInv, TypeOK
  <2>2. First(a)'
    BY <2>1 DEF First
  <2>3. dms[a] \in Nat /\ 0 <= dms[a]
    BY BoundAssumption DEF TypeInv, TypeOK
  <2>4. PICK n \in Nat, k \in Nat, m \in Nat :
          n = Cardinality(Stale(a)) /\ k = Cardinality(Stale(a)') /\ m = Cardinality(Scraper) /\ k <= n
    BY <1>3, StaleSize, FS_Subset, FS_CardinalityType
  <2>5. k <= n
    BY <2>4
  <2>6. dms[a] + n + (IF Due(a) THEN 1 ELSE 0) <= 1 + m
    BY <2>4 DEF Told
  <2>7. dms'[a] + k + (IF Due(a)' THEN 1 ELSE 0) <= 1 + m
    BY <1>2, <2>1, <2>3, <2>5, <2>6
  <2> QED
    BY <2>2, <2>4, <2>7 DEF Told
<1>5. CASE ~NewListing(a)
  <2>1. dms'[a] = dms[a] /\ (a \in fresh' \ alerted' => a \in fresh \ alerted)
    BY <1>5 DEF Environment, GrowOld, NewListing, DeleteFilter, Retain, StartPool, tables, hist, TypeInv, TypeOK
  <2> QED
    BY <1>1, <1>2, <1>3, <2>1, FirstKept, ToldKept
<1> QED
  BY <1>4, <1>5

LEMMA DmStep ==
  ASSUME TypeInv, TypeInv', CopyInv, CopyInv', DmInv, [Next]_vars
  PROVE  DmInv'
<1>1. SUFFICES ASSUME faults' = 0, restarts' = 0, NEW a \in Alert, FilterOf[a] \in filters'
               PROVE  First(a)' /\ Told(a)'
  BY DEF DmInv
<1>2. faults = 0 /\ restarts = 0 /\ ~Fault /\ ~Restart /\ filters' \subseteq filters
  BY <1>1, Quiet
<1>3. FilterOf[a] \in filters /\ NoneSending /\ Apart(a) /\ First(a) /\ Told(a)
  BY <1>1, <1>2 DEF CopyInv, DmInv
<1>4. Apart(a)'
  BY <1>1 DEF CopyInv
<1>5. CASE UNCHANGED vars
  <2>1. UNCHANGED <<fresh, alerted, spill, queue, scr, snd, dms>>
    BY <1>5 DEF vars, tables, memory, hist
  <2> QED
    BY <1>3, <2>1 DEF First, Told, Stale, Due, In, Waiting
<1>6. ASSUME NEW w \in Scraper, Scrape(w) PROVE First(a)' /\ Told(a)'
  BY <1>2, <1>3, <1>4, <1>6, ScrapeDms
<1>7. CASE Send
  BY <1>2, <1>3, <1>7, SendDms DEF NoneSending
<1>8. CASE Environment
  BY <1>1, <1>2, <1>3, <1>8, EnvironmentDms
<1> QED
  BY <1>5, <1>6, <1>7, <1>8 DEF Next

LEMMA DmAlways == Spec => []DmInv
<1>1. Init => DmInv
  <2>1. ASSUME Init, NEW a \in Alert PROVE First(a) /\ Told(a)
    <3>1. /\ queue = <<>> /\ Len(queue) = 0 /\ snd.alert = NoAlert /\ spill[a] = "none" /\ a # NoAlert
          /\ dms[a] = 0 /\ \A w \in Scraper : scr[w].cur = NoAlert /\ scr[w].found = {}
      BY <2>1, RestFields, AlertAssumption DEF Init, IdleScraper
    <3>2. ~Due(a) /\ Stale(a) = {}
      BY <3>1 DEF Due, In, Waiting, Stale
    <3>3. Cardinality(Stale(a)) = 0 /\ Cardinality(Scraper) \in Nat
      BY <3>2, FS_EmptySet, ScraperAssumption, FS_CardinalityType
    <3> QED
      BY <3>1, <3>2, <3>3 DEF First, Told
  <2> QED
    BY <2>1 DEF DmInv
<1>2. TypeInv /\ TypeInv' /\ CopyInv /\ CopyInv' /\ DmInv /\ [Next]_vars => DmInv'
  BY DmStep
<1> QED
  BY <1>1, <1>2, TypeAlways, CopyAlways, PTL DEF Spec

(* Without failures and restarts a member is told of a listing once, plus at most   *)
(* once per scrape thread that matched it before the first message was recorded.    *)
THEOREM DmsBoundedAlways == Spec => []DmsBounded
<1>1. TypeInv /\ DmInv => DmsBounded
  <2>1. ASSUME TypeInv, NEW a \in Alert, Told(a) PROVE dms[a] <= 1 + Cardinality(Scraper)
    <3>1. PICK n \in Nat, m \in Nat : n = Cardinality(Stale(a)) /\ m = Cardinality(Scraper)
      BY StaleSize
    <3>2. dms[a] \in Nat
      BY <2>1, BoundAssumption DEF TypeInv, TypeOK
    <3>3. dms[a] + n + (IF Due(a) THEN 1 ELSE 0) <= 1 + m
      BY <2>1, <3>1 DEF Told
    <3>4. dms[a] <= 1 + m
      BY <3>1, <3>2, <3>3
    <3> QED
      BY <3>1, <3>4
  <2> QED
    BY <2>1 DEF DmInv, DmsBounded
<1> QED
  BY <1>1, TypeAlways, DmAlways, PTL

----------------------------------------------------------------------------
(* The last copy of an alert *)

(* Who is at rest has no alert, and what is retried failed, or had been sent.       *)
LossInv ==
  /\ \A w \in Scraper : scr[w].pc \notin Busy => scr[w].cur = NoAlert
  /\ snd.pc \in AtRest => snd.alert = NoAlert
  /\ snd.pc = "retry" => faults >= 1 \/ dms[snd.alert] > 0

LEMMA ScrapeLoss ==
  ASSUME TypeInv, LossInv, NEW w \in Scraper, Scrape(w)
  PROVE  LossInv'
<1>1. scr[w] \in ScraperState
  BY DEF TypeInv, TypeOK, ScraperState
<1>2. /\ snd' = snd \/ (snd.pc = "off" /\ snd'.pc = "boot" /\ snd'.alert = snd.alert)
      /\ UNCHANGED dms
  BY ScrapeEffect DEF hist
<1>3. faults' = faults \/ faults' = faults + 1
  BY DEF Scrape, Match, Claim, Put, Spill, SpillFails, Fault
<1>4. faults \in Nat /\ faults' >= faults
  BY <1>3, BoundAssumption DEF TypeInv, TypeOK
<1> DEFINE Moved == \E s \in ScraperState : scr' = [scr EXCEPT ![w] = s] /\ (s.pc \notin Busy => s.cur = NoAlert)
<1>5. Moved
  <2>1. ASSUME NEW M \in SUBSET Matching, Match(w, M) PROVE Moved
    <3> DEFINE s == [pc |-> "found", found |-> M, cur |-> NoAlert]
    <3>1. s \in ScraperState /\ s.cur = NoAlert
      BY DEF ScraperState, ScraperPc, Matching, TypeInv, TypeOK
    <3>2. scr' = [scr EXCEPT ![w] = s]
      BY <2>1 DEF Match
    <3> HIDE DEF s
    <3> QED
      BY <3>1, <3>2
  <2>2. ASSUME NEW b \in scr[w].found, Claim(w, b) PROVE Moved
    <3>1. b \in Alert /\ [scr[w] EXCEPT !.cur = b] \in ScraperState
      BY <1>1 DEF ScraperState
    <3>2. FirstChoice \in Busy /\ FirstChoice \in ScraperPc
      BY DEF FirstChoice, Busy, ScraperPc
    <3>3. /\ [scr[w] EXCEPT !.cur = b, !.pc = FirstChoice] \in ScraperState
          /\ [scr[w] EXCEPT !.cur = b, !.pc = FirstChoice].pc = FirstChoice
      BY <1>1, <3>1, <3>2 DEF ScraperState
    <3>4. /\ NextFound([scr[w] EXCEPT !.cur = b]) \in ScraperState
          /\ NextFound([scr[w] EXCEPT !.cur = b]).cur = NoAlert
      BY <3>1, NextFoundFields
    <3>5. \/ scr' = [scr EXCEPT ![w] = NextFound([scr[w] EXCEPT !.cur = b])]
          \/ scr' = [scr EXCEPT ![w] = [scr[w] EXCEPT !.cur = b, !.pc = FirstChoice]]
      BY <2>2 DEF Claim
    <3> QED
      BY <3>2, <3>3, <3>4, <3>5
  <2>3. CASE Put(w) \/ Spill(w) \/ SpillFails(w)
    <3>1. NextFound(scr[w]) \in ScraperState /\ NextFound(scr[w]).cur = NoAlert
      BY <1>1, NextFoundFields
    <3>2. \A pc \in {"put", "full"} : [scr[w] EXCEPT !.pc = pc] \in ScraperState /\ [scr[w] EXCEPT !.pc = pc].pc = pc
      BY <1>1 DEF ScraperState, ScraperPc
    <3>3. \/ scr' = [scr EXCEPT ![w] = NextFound(scr[w])]
          \/ \E pc \in {"put", "full"} : scr' = [scr EXCEPT ![w] = [scr[w] EXCEPT !.pc = pc]]
      BY <2>3 DEF Put, Spill, SpillFails
    <3> QED
      BY <3>1, <3>2, <3>3 DEF Busy
  <2> QED
    BY <2>1, <2>2, <2>3 DEF Scrape
<1>6. \A v \in Scraper : scr'[v].pc \notin Busy => scr'[v].cur = NoAlert
  BY <1>5 DEF LossInv, TypeInv, TypeOK
<1> QED
  BY <1>2, <1>3, <1>4, <1>6 DEF LossInv, AtRest

LEMMA SendLoss ==
  ASSUME TypeInv, RowInv, LossInv, Send
  PROVE  LossInv'
<1>1. UNCHANGED scr
  BY DEF Send, Recover, TakeMemory, QueueEmpty, TakeSpill, NoSpill, SendDm, Record, RecordFails,
         MarkSent, MarkSentFails, Retry, WriteFails, GiveUp, Release, TakeSpillFails
<1>2. ASSUME snd'.pc \notin AtRest, snd'.pc # "retry" PROVE LossInv'
  BY <1>1, <1>2 DEF LossInv
<1>3. ASSUME snd' = IdleSender PROVE LossInv'
  BY <1>1, <1>3, RestFields DEF LossInv
<1>4. CASE QueueEmpty
  <2>1. snd'.pc = "poll" /\ snd'.alert = NoAlert
    BY <1>4, SenderPcFields DEF QueueEmpty, LossInv, AtRest
  <2> QED
    BY <1>1, <2>1 DEF LossInv
<1>5. ASSUME NEW outcome \in {"ok", "refused", "failed", "lost"}, SendDm(outcome) PROVE LossInv'
  <2>1. snd' = [snd EXCEPT !.pc = CASE outcome = "ok" -> "record"
                                    [] outcome = "refused" -> "refused"
                                    [] OTHER -> "retry"]
    BY <1>5 DEF SendDm
  <2>2. CASE outcome \in {"ok", "refused"}
    <3>1. snd'.pc \in {"record", "refused"}
      BY <2>1, <2>2, SenderPcFields
    <3> QED
      BY <1>2, <3>1 DEF AtRest
  <2>3. CASE outcome \notin {"ok", "refused"}
    <3>1. faults \in Nat /\ faults' = faults + 1
      BY <1>5, <2>3, BoundAssumption DEF SendDm, Fault, TypeInv, TypeOK
    <3>2. snd'.pc = "retry" /\ faults' >= 1
      BY <2>1, <2>3, <3>1, SenderPcFields
    <3> QED
      BY <1>1, <3>2 DEF LossInv, AtRest
  <2> QED
    BY <2>2, <2>3
<1>6. CASE RecordFails \/ MarkSentFails
  <2>1. dms[snd.alert] > 0 /\ UNCHANGED dms
    BY <1>6 DEF RecordFails, MarkSentFails, RowInv, hist
  <2>2. snd'.pc = "retry" /\ snd'.alert = snd.alert
    BY <1>6, SenderPcFields DEF RecordFails, MarkSentFails
  <2> QED
    BY <1>1, <2>1, <2>2 DEF LossInv, AtRest
<1>7. CASE Record \/ MarkSent \/ Retry \/ WriteFails \/ GiveUp
  <2>1. snd'.pc \in {"mark", "release"}
    BY <1>7, SenderPcFields DEF Record, MarkSent, Retry, WriteFails, GiveUp
  <2> QED
    BY <1>2, <2>1 DEF AtRest
<1>8. ASSUME NEW a \in Alert, TakeSpill(a) PROVE LossInv'
  BY <1>2, <1>8 DEF TakeSpill, AtRest
<1>9. CASE TakeMemory
  BY <1>2, <1>9 DEF TakeMemory, AtRest
<1>10. \/ snd' = IdleSender \/ QueueEmpty \/ RecordFails \/ MarkSentFails \/ TakeMemory
       \/ Record \/ MarkSent \/ Retry \/ WriteFails \/ GiveUp
       \/ (\E outcome \in {"ok", "refused", "failed", "lost"} : SendDm(outcome))
       \/ \E a \in Alert : TakeSpill(a)
  BY DEF Send, Recover, NoSpill, Release, TakeSpillFails
<1> QED
  BY <1>3, <1>4, <1>5, <1>6, <1>7, <1>8, <1>9, <1>10

LEMMA EnvironmentLoss ==
  ASSUME TypeInv, LossInv, Environment
  PROVE  LossInv'
<1>1. CASE Restart
  <2>1. /\ \A w \in Scraper : scr'[w] = IdleScraper
        /\ snd' = OffSender
    BY <1>1 DEF Restart
  <2> QED
    BY <2>1, RestFields DEF LossInv, IdleScraper
<1>2. CASE ~Restart
  <2>1. /\ UNCHANGED scr /\ snd'.alert = snd.alert
        /\ snd'.pc = snd.pc \/ (snd.pc = "off" /\ snd'.pc = "boot")
    BY <1>2, EnvironmentEffect
  <2>2. faults' = faults
    BY <1>2 DEF Environment, GrowOld, NewListing, DeleteFilter, Retain, StartPool
  <2>3. snd.pc = "retry" => dms'[snd.alert] = dms[snd.alert]
    <3>1. ASSUME NEW a \in Alert, NewListing(a), snd.pc = "retry" PROVE dms'[snd.alert] = dms[snd.alert]
      BY <3>1 DEF NewListing, Forgotten, TypeInv, TypeOK, AtRest
    <3>2. (\E a \in Alert : NewListing(a)) \/ UNCHANGED dms
      BY <1>2 DEF Environment, GrowOld, DeleteFilter, Retain, StartPool, hist
    <3> QED
      BY <3>1, <3>2
  <2> QED
    BY <2>1, <2>2, <2>3 DEF LossInv, AtRest
<1> QED
  BY <1>1, <1>2

LEMMA LossAlways == Spec => []LossInv
<1>1. Init => LossInv
  BY RestFields DEF Init, LossInv, IdleScraper
<1>2. ASSUME TypeInv, RowInv, LossInv, [Next]_vars PROVE LossInv'
  <2>1. CASE UNCHANGED vars
    BY <1>2, <2>1 DEF vars, memory, hist, LossInv
  <2> QED
    BY <1>2, <2>1, ScrapeLoss, SendLoss, EnvironmentLoss DEF Next
<1>3. TypeInv /\ RowInv /\ LossInv /\ [Next]_vars => LossInv'
  BY <1>2
<1> QED
  BY <1>1, <1>3, TypeAlways, RowAlways, PTL DEF Spec

(* An alert given up without a reason.                                              *)
Lost(a) ==
  /\ Kept(a) /\ ~Kept(a)'
  /\ ~(dms[a] > 0) /\ a \notin refused /\ a \in fresh /\ restarts' = restarts
  /\ ~(Mishaps(a) >= 2) /\ ~Orphan(a)

(* In terms of the queue's members.                                                 *)
LEMMA KeptForms ==
  ASSUME NEW a
  PROVE  /\ Kept(a) <=> (\E w \in Scraper : scr[w].cur = a) \/ In(a, queue) \/ Held(a) \/ Waiting(a)
         /\ Kept(a)' <=> (\E w \in Scraper : scr'[w].cur = a) \/ In(a, queue)' \/ Held(a)' \/ Waiting(a)'
BY DEF Kept, Holders, Queued, In

(* An insertion leaves the alert waiting, unless its row says why not.              *)
LEMMA InsertKeeps ==
  ASSUME TypeInv, RowInv, NEW a \in Alert, InsertRow(a), ~(dms[a] > 0), a \notin refused, spill[a] # "sending"
  PROVE  Waiting(a)'
BY DEF InsertRow, RowInv, Waiting, TypeInv, TypeOK, SpillStatus

LEMMA ScrapeKeeps ==
  ASSUME TypeInv, RowInv, LossInv, NEW w \in Scraper, Scrape(w), NEW a \in Alert, Lost(a)
  PROVE  FALSE
<1>1. scr[w] \in ScraperState /\ a # NoAlert /\ queue \in Seq(Alert)
  BY AlertAssumption DEF TypeInv, TypeOK, ScraperState
<1>2. /\ snd' = snd \/ (snd.pc = "off" /\ snd'.pc = "boot" /\ snd'.alert = snd.alert)
      /\ \A x \in Alert : spill'[x] = spill[x] \/ (spill[x] = "none" /\ spill'[x] = "pending")
  BY ScrapeEffect
<1>3. (Held(a) => Held(a)') /\ (Waiting(a) => Waiting(a)')
  BY <1>2 DEF Held, Waiting
<1>4. In(a, queue) => In(a, queue)'
  <2>1. CASE UNCHANGED queue
    BY <2>1 DEF In
  <2>2. CASE Put(w)
    <3>1. scr[w].cur \in Alert /\ (UNCHANGED queue \/ queue' = Append(queue, scr[w].cur))
      BY <2>2 DEF Put, Busy, TypeInv
    <3>2. ASSUME queue' = Append(queue, scr[w].cur) PROVE In(a, queue) => In(a, queue')
      BY <1>1, <3>1, <3>2, AppendIn
    <3>3. In(a, queue)' <=> In(a, queue')
      BY DEF In
    <3> QED
      BY <2>1, <3>1, <3>2, <3>3
  <2> QED
    BY <2>1, <2>2 DEF Scrape, Match, Claim, Spill, SpillFails
<1>5. PICK v \in Scraper : scr[v].cur = a /\ \A u \in Scraper : scr'[u].cur # a
  BY <1>3, <1>4, KeptForms DEF Lost
<1>6. v = w /\ scr[w].cur = a /\ scr[w].pc \in Busy
  <2>1. \A u \in Scraper \ {w} : scr'[u] = scr[u]
    BY DEF Scrape, Match, Claim, Put, Spill, SpillFails, TypeInv, TypeOK
  <2> QED
    BY <1>1, <1>5, <2>1 DEF LossInv
<1>7. CASE Put(w)
  <2>1. CASE Len(queue) < QueueMax
    <3>1. queue' = Append(queue, a) /\ a \in Alert
      BY <1>6, <1>7, <2>1 DEF Put
    <3>2. In(a, queue')
      BY <1>1, <3>1, AppendIn
    <3>3. In(a, queue)' <=> In(a, queue')
      BY DEF In
    <3> QED
      BY <3>2, <3>3, KeptForms DEF Lost
  <2>2. CASE ~(Len(queue) < QueueMax)
    BY <1>5, <1>6, <1>7, <2>2 DEF Put, TypeInv, TypeOK
  <2> QED
    BY <2>1, <2>2
<1>8. CASE Spill(w)
  <2>1. InsertRow(a)
    BY <1>6, <1>8 DEF Spill
  <2>2. spill[a] = "sending" => Held(a)
    BY DEF Lost, Orphan
  <2> QED
    BY <1>3, <2>1, <2>2, InsertKeeps, KeptForms DEF Lost
<1>9. CASE SpillFails(w)
  <2>1. CASE scr[w].pc = "spill"
    BY <1>5, <1>6, <1>9, <2>1 DEF SpillFails, TypeInv, TypeOK
  <2>2. CASE scr[w].pc = "full"
    <3>1. faults \in Nat /\ faults' = faults + 1
      BY <1>9, BoundAssumption DEF SpillFails, Fault, TypeInv, TypeOK
    <3>2. w \in Holders(a)
      BY <1>6 DEF Holders
    <3> QED
      BY <2>2, <3>1, <3>2 DEF Lost, Mishaps
  <2> QED
    BY <1>9, <2>1, <2>2 DEF SpillFails
<1>10. Put(w) \/ Spill(w) \/ SpillFails(w)
  BY <1>6 DEF Scrape, Match, Claim, Busy
<1> QED
  BY <1>7, <1>8, <1>9, <1>10

LEMMA SendKeeps ==
  ASSUME TypeInv, RowInv, LossInv, Send, NEW a \in Alert, Lost(a)
  PROVE  FALSE
<1>1. a # NoAlert /\ queue \in Seq(Alert) /\ UNCHANGED scr
  BY AlertAssumption DEF Send, Recover, TakeMemory, QueueEmpty, TakeSpill, NoSpill, SendDm, Record, RecordFails,
         MarkSent, MarkSentFails, Retry, WriteFails, GiveUp, Release, TakeSpillFails, TypeInv, TypeOK
<1>2. ~(\E w \in Scraper : scr[w].cur = a) /\ ~Held(a)' /\ ~Waiting(a)' /\ ~In(a, queue)'
  BY <1>1, KeptForms DEF Lost
<1>3. In(a, queue) \/ Held(a) \/ Waiting(a)
  BY <1>2, KeptForms DEF Lost
<1>4. CASE TakeMemory
  <2>1. /\ queue # <<>> /\ queue' = Tail(queue) /\ UNCHANGED spill /\ ~Held(a)
        /\ snd'.alert = Head(queue) /\ snd'.pc = "dm"
    BY <1>1, <1>4 DEF TakeMemory, tables, Held, LossInv, AtRest
  <2> QED
    BY <1>1, <1>2, <1>3, <2>1, TailIn DEF Held, Waiting
<1>5. ASSUME UNCHANGED queue, Held(a) => Held(a)', Waiting(a) => Waiting(a)' PROVE FALSE
  BY <1>2, <1>3, <1>5 DEF In
<1>6. ASSUME NEW R \in SUBSET Rows({"sending"}), Recover(R) PROVE FALSE
  <2>1. UNCHANGED queue /\ ~Held(a) /\ (Waiting(a) => Waiting(a)')
    BY <1>1, <1>6 DEF Recover, Held, LossInv, AtRest, Waiting
  <2> QED
    BY <1>5, <2>1
<1>7. CASE QueueEmpty \/ NoSpill \/ (\E b \in Alert : TakeSpillFails(b)) \/ Release
  <2>1. UNCHANGED <<queue, spill>> /\ ~Held(a)
    BY <1>1, <1>7 DEF QueueEmpty, NoSpill, TakeSpillFails, Release, tables, Held, LossInv, AtRest
  <2> QED
    BY <1>5, <2>1 DEF Waiting
<1>8. ASSUME NEW b \in Alert, TakeSpill(b) PROVE FALSE
  <2>1. /\ UNCHANGED queue /\ ~Held(a) /\ snd'.alert = b /\ snd'.pc = "dm"
        /\ \A x \in Alert \ {b} : spill'[x] = spill[x]
    BY <1>1, <1>8 DEF TakeSpill, Held, LossInv, AtRest, TypeInv, TypeOK
  <2> QED
    BY <1>2, <1>5, <2>1 DEF Held, Waiting
<1>9. CASE (\E outcome \in {"ok", "refused", "failed", "lost"} : SendDm(outcome)) \/ RecordFails \/ MarkSentFails
  <2>1. UNCHANGED <<queue, spill>>
    BY <1>9 DEF SendDm, RecordFails, MarkSentFails, tables
  <2>2. PICK pc \in {"record", "refused", "retry"} : snd' = [snd EXCEPT !.pc = pc]
    BY <1>9 DEF SendDm, RecordFails, MarkSentFails
  <2>3. snd'.alert = snd.alert /\ snd'.pc # "release"
    BY <2>2, SenderPcFields
  <2> QED
    BY <1>5, <2>1, <2>3 DEF Held, Waiting
<1>10. CASE Record \/ MarkSent \/ GiveUp
  <2>1. UNCHANGED queue /\ snd.pc \in {"record", "mark", "refused"} /\ snd.alert # a
    BY <1>10 DEF Record, MarkSent, GiveUp, RowInv, Lost
  <2>2. UNCHANGED spill \/ SetRow(snd.alert, "sent") \/ SetRow(snd.alert, "failed")
    BY <1>10 DEF Record, MarkSent, GiveUp
  <2>3. spill'[a] = spill[a]
    BY <2>1, <2>2, SetRowEffect
  <2> QED
    BY <1>5, <2>1, <2>3 DEF Held, Waiting
<1>11. CASE Retry
  <2>1. UNCHANGED queue /\ snd.alert \in Alert /\ snd.pc = "retry"
    BY <1>11 DEF Retry, TypeInv, AtRest
  <2>2. SetRow(snd.alert, "pending") \/ InsertRow(snd.alert)
    BY <1>11 DEF Retry
  <2>3. CASE snd.alert # a
    <3>1. spill'[a] = spill[a]
      BY <2>1, <2>2, <2>3, SetRowEffect, InsertRowEffect
    <3> QED
      BY <1>5, <2>1, <2>3, <3>1 DEF Held, Waiting
  <2>4. CASE snd.alert = a
    <3>1. CASE snd.from = "memory"
      <4>1. InsertRow(a)
        BY <1>11, <2>4, <3>1 DEF Retry
      <4>2. spill[a] # "sending"
        BY <3>1 DEF Lost, Orphan
      <4> QED
        BY <1>2, <4>1, <4>2, InsertKeeps DEF Lost
    <3>2. CASE snd.from = "spill"
      BY <1>2, <1>11, <2>4, <3>2 DEF Retry, SetRow, Waiting, TypeInv, TypeOK
    <3>3. CASE snd.from = "deleted"
      <4>1. faults >= 1 /\ faults' = faults /\ faults \in Int
        BY <1>11, <2>1, <2>4, BoundAssumption DEF Retry, LossInv, Lost, TypeInv, TypeOK
      <4> QED
        BY <2>4, <3>3, <4>1 DEF Lost, Mishaps
    <3> QED
      BY <3>1, <3>2, <3>3 DEF TypeInv, TypeOK, Source
  <2> QED
    BY <2>3, <2>4
<1>12. CASE WriteFails
  <2>1. UNCHANGED <<queue, spill>> /\ snd.pc \in {"retry", "refused"} /\ faults' = faults + 1 /\ faults \in Nat
    BY <1>12, BoundAssumption DEF WriteFails, tables, Fault, TypeInv, TypeOK
  <2>2. CASE snd.alert # a
    BY <1>5, <2>1, <2>2 DEF Held, Waiting
  <2>3. CASE snd.alert = a
    <3>1. faults >= 1
      BY <2>1, <2>3 DEF LossInv, RowInv, Lost
    <3> QED
      BY <2>1, <3>1 DEF Lost, Mishaps
  <2> QED
    BY <2>2, <2>3
<1> QED
  BY <1>4, <1>6, <1>7, <1>8, <1>9, <1>10, <1>11, <1>12 DEF Send

LEMMA EnvironmentKeeps ==
  ASSUME TypeInv, Environment, NEW a \in Alert, Lost(a)
  PROVE  FALSE
<1>1. ~Restart
  BY BoundAssumption DEF Restart, Lost, TypeInv, TypeOK
<1>2. /\ UNCHANGED <<queue, scr>> /\ snd'.alert = snd.alert
      /\ snd'.pc = snd.pc \/ (snd.pc = "off" /\ snd'.pc = "boot")
  BY <1>1, EnvironmentEffect
<1>3. In(a, queue)' <=> In(a, queue)
  BY <1>2 DEF In
<1>4. Waiting(a) /\ ~Waiting(a)'
  BY <1>2, <1>3, KeptForms DEF Lost, Held
<1>5. PICK D \in SUBSET Rows({"pending"}), F \in SUBSET alerted : Retain(D, F)
  BY <1>1, <1>4 DEF Environment, GrowOld, NewListing, DeleteFilter, StartPool, tables, Waiting
<1>6. a \in D
  BY <1>4, <1>5 DEF Retain, DeleteRows, Rows, Waiting
<1> QED
  BY <1>5, <1>6 DEF Retain, Lost

(* A single failure loses no alert: the last copy of an alert is given up only once *)
(* it was sent or refused or is too old, by a restart, after two mishaps, or because *)
(* an orphan row of an earlier restart swallows the alert put back.                  *)
THEOREM LastCopyKeptAlways == Spec => LastCopyKept
<1> DEFINE Reasons == \A a \in Alert : Kept(a) /\ ~Kept(a)' =>
                        dms[a] > 0 \/ a \in refused \/ a \notin fresh \/ restarts' # restarts
                          \/ Mishaps(a) >= 2 \/ Orphan(a)
<1>1. ASSUME TypeInv, RowInv, LossInv, Next, NEW a \in Alert PROVE ~Lost(a)
  BY <1>1, ScrapeKeeps, SendKeeps, EnvironmentKeeps DEF Next
<1>2. TypeInv /\ RowInv /\ LossInv /\ [Next]_vars => [Reasons]_vars
  BY <1>1 DEF Lost
<1> QED
  BY <1>2, TypeAlways, RowAlways, LossAlways, PTL DEF Spec, LastCopyKept

=============================================================================
