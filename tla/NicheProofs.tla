----------------------------- MODULE NicheProofs -----------------------------
(***************************************************************************)
(* What is proved of the niches.  Of the detector and the product sheets,  *)
(* for every set of niches, every naming of them, every market and any     *)
(* number of faults: types, and that a name is posted, and a niche has a   *)
(* sheet, once more at most than records of it were lost; whether the two  *)
(* processes take turns or not makes no difference to either.  Of the      *)
(* score of a niche, for every market, every line up to 65.01 and every    *)
(* number of cycles: that its history never lifts a market that is weak by *)
(* itself.                                                                 *)
(***************************************************************************)
EXTENDS NicheSheets, OpportunityEngine, FiniteSetTheorems, SequenceTheorems,
        NaturalsInduction, WellFoundedInduction, TLAPS

-----------------------------------------------------------------------------
(* The detector and the sheets. *)

Held == {"post", "mark", "stamp", "history"}     \* the detector has a niche
Busy == {"develop", "build", "post", "mark"}     \* the sheets have one

NicheTypeInv ==
    /\ SheetsTypeOK
    /\ dpc \in Held => pick \in Niche
    /\ spc \in Busy => chosen \in Niche

Recorded(n) == \E j \in keys : NicheName[j] = n
Unmarked(n) == dpc = "mark" /\ NicheName[pick] = n

\* The posts of a name are those whose record was lost, and one that is recorded
\* or about to be.
DetectedInv ==
    /\ dpc \in {"post", "mark"} => ~WasPosted(pick)
    /\ \A n \in Names :
         posts[n] = IF Recorded(n) \/ Unmarked(n) THEN lost[n] + 1 ELSE lost[n]

SheetedInv ==
    /\ queue \cap fiched = {}
    /\ spc \in Busy => chosen \notin fiched
    /\ \A k \in Niche :
         sheets[k] = IF k \in fiched \/ (spc = "mark" /\ chosen = k)
                     THEN unmarked[k] + 1 ELSE unmarked[k]

-----------------------------------------------------------------------------
(* Types. *)

LEMMA TypeStart ==
    ASSUME SheetsInit
    PROVE  NicheTypeInv
<1>1. DetectorTypeOK
  BY NicheAssumption DEF SheetsInit, DetectorInit, DetectorTypeOK
<1>2. fiched \cup skipped \cup queue \cup tried \subseteq Niche
  BY DEF SheetsInit
<1>3. /\ sheets \in [Niche -> Nat] /\ unmarked \in [Niche -> Nat]
  BY DEF SheetsInit
<1>4. since \in 0 .. Hour
  BY NicheAssumption DEF SheetsInit
<1>5. chosen = None /\ developed = FALSE /\ spc = "idle" /\ dpc = "idle"
  BY DEF SheetsInit, DetectorInit
<1> QED
  BY <1>1, <1>2, <1>3, <1>4, <1>5 DEF NicheTypeInv, SheetsTypeOK, Held, Busy

LEMMA DetectorType ==
    ASSUME NicheTypeInv, DetectorStep, UNCHANGED nvars
    PROVE  NicheTypeInv'
<1> USE NicheAssumption DEF NicheTypeInv, SheetsTypeOK, DetectorTypeOK, Held, Busy, nvars
<1>1. CASE Analyse
  BY <1>1 DEF Analyse
<1>2. ASSUME NEW f \in Forced, Choose(f) PROVE NicheTypeInv'
  BY <1>2 DEF Choose, Fresh
<1>3. CASE PostAccepted
  BY <1>3 DEF PostAccepted, Posted, Names
<1>4. CASE PostRefused
  BY <1>4 DEF PostRefused
<1>5. CASE PostUnanswered
  BY <1>5 DEF PostUnanswered, Posted, Loses, Fault, Names
<1>6. CASE MarkPosted
  BY <1>6 DEF MarkPosted
<1>7. CASE RecordHourly
  BY <1>7 DEF RecordHourly
<1>8. CASE RecordHistory
  BY <1>8 DEF RecordHistory
<1>9. CASE DetectorCrash
  BY <1>9 DEF DetectorCrash, Loses, Fault, Names
<1> QED
  BY <1>1, <1>2, <1>3, <1>4, <1>5, <1>6, <1>7, <1>8, <1>9, DetectorStep DEF DetectorStep

LEMMA SheetType ==
    ASSUME NicheTypeInv, SheetStep
    PROVE  NicheTypeInv'
<1> USE NicheAssumption DEF NicheTypeInv, SheetsTypeOK, DetectorTypeOK, Held, Busy, dvars
<1>1. CASE BeginSheet
  BY <1>1 DEF BeginSheet
<1>2. CASE LoadCandidates
  BY <1>2 DEF LoadCandidates, Validated
<1>3. ASSUME NEW k \in Niche, ScanSkip(k) PROVE NicheTypeInv'
  BY <1>3 DEF ScanSkip
<1>4. ASSUME NEW k \in Niche, ScanTake(k) PROVE NicheTypeInv'
  BY <1>4 DEF ScanTake
<1>5. CASE NothingToSheet
  BY <1>5 DEF NothingToSheet, EndCycle
<1>6. ASSUME NEW b \in BOOLEAN, Develop(b) PROVE NicheTypeInv'
  BY <1>6 DEF Develop
<1>7. ASSUME NEW b \in BOOLEAN, Build(b) PROVE NicheTypeInv'
  BY <1>7 DEF Build
<1>8. CASE SheetAccepted
  <2>1. sheets' \in [Niche -> Nat]
    BY <1>8 DEF SheetAccepted, Sheeted
  <2> QED
    BY <1>8, <2>1 DEF SheetAccepted
<1>9. CASE SheetFailed
  <2>1. chosen \in Niche
    BY <1>9 DEF SheetFailed
  <2>2. /\ sheets' \in [Niche -> Nat] /\ unmarked' \in [Niche -> Nat]
        /\ faults' \in 0 .. MaxFaults
    BY <1>9, <2>1 DEF SheetFailed, Sheeted, Unrecorded, Fault
  <2> QED
    BY <1>9, <2>2 DEF SheetFailed, EndCycle, DetectorOnly
<1>10. CASE MarkFiche
  <2>1. fiched' \cup skipped' \cup queue' \cup tried' \subseteq Niche
    BY <1>10 DEF MarkFiche, EndCycle
  <2>2. since' \in 0 .. Hour /\ chosen' = None /\ spc' = "idle" /\ developed' = FALSE
    BY <1>10 DEF MarkFiche, EndCycle
  <2> QED
    BY <1>10, <2>1, <2>2 DEF MarkFiche
<1>11. CASE SheetsCrash
  <2>1. unmarked' \in [Niche -> Nat] /\ faults' \in 0 .. MaxFaults
    BY <1>11 DEF SheetsCrash, Unrecorded, Fault
  <2> QED
    BY <1>11, <2>1 DEF SheetsCrash, EndCycle, DetectorOnly
<1> QED
  BY <1>1, <1>2, <1>3, <1>4, <1>5, <1>6, <1>7, <1>8, <1>9, <1>10, <1>11, SheetStep DEF SheetStep

LEMMA TimeType ==
    ASSUME NicheTypeInv, (\E k \in Niche : SkipExpires(k)) \/ NicheTick \/ UNCHANGED sheetvars
    PROVE  NicheTypeInv'
  BY NicheAssumption
  DEF NicheTypeInv, SheetsTypeOK, DetectorTypeOK, Held, Busy, SkipExpires, NicheTick, Aged,
      sheetvars, dvars, nvars

LEMMA NicheTypeStep ==
    ASSUME NicheTypeInv, [SheetsNext]_sheetvars
    PROVE  NicheTypeInv'
  BY DetectorType, SheetType, TimeType DEF SheetsNext

(* Every variable of the detector and of the sheets keeps its type, and either has a *)
(* niche wherever it works on one (detector_pipeline.py, niche_product_sheets.py).   *)
THEOREM NicheTypeAlways == SheetsSpec => []NicheTypeInv
<1>1. SheetsInit => NicheTypeInv
  BY TypeStart
<1>2. NicheTypeInv /\ [SheetsNext]_sheetvars => NicheTypeInv'
  BY NicheTypeStep
<1> QED
  BY <1>1, <1>2, PTL DEF SheetsSpec

-----------------------------------------------------------------------------
(* A name is posted once. *)

LEMMA DetectedStart ==
    ASSUME SheetsInit
    PROVE  DetectedInv
  BY DEF SheetsInit, DetectorInit, DetectedInv, Recorded, Unmarked

LEMMA DetectedStep ==
    ASSUME NicheTypeInv, DetectedInv, DetectorStep
    PROVE  DetectedInv'
<1> USE DEF DetectedInv, Recorded, Unmarked, WasPosted
<1>1. /\ posts \in [Names -> Nat] /\ lost \in [Names -> Nat]
      /\ dpc \in Held => pick \in Niche /\ NicheName[pick] \in Names
  BY DEF NicheTypeInv, SheetsTypeOK, DetectorTypeOK, Names
<1>2. CASE Analyse
  BY <1>2 DEF Analyse
<1>3. ASSUME NEW f \in Forced, Choose(f) PROVE DetectedInv'
  BY <1>3 DEF Choose, Fresh
<1>4. CASE PostAccepted
  <2>1. dpc = "post" /\ dpc' = "mark" /\ UNCHANGED <<keys, pick, lost>>
        /\ NicheName[pick] \in Names
    BY <1>1, <1>4 DEF PostAccepted, Held
  <2>2. \A n \in Names : posts'[n] = IF n = NicheName[pick] THEN posts[n] + 1 ELSE posts[n]
    BY <1>1, <1>4 DEF PostAccepted, Posted
  <2> QED
    BY <1>1, <2>1, <2>2
<1>5. CASE PostRefused
  BY <1>5 DEF PostRefused
<1>6. CASE PostUnanswered
  <2>1. dpc = "post" /\ dpc' = "idle" /\ UNCHANGED keys /\ NicheName[pick] \in Names
    BY <1>1, <1>6 DEF PostUnanswered, Held
  <2>2. \A n \in Names :
           /\ posts'[n] = IF n = NicheName[pick] THEN posts[n] + 1 ELSE posts[n]
           /\ lost'[n] = IF n = NicheName[pick] THEN lost[n] + 1 ELSE lost[n]
    BY <1>1, <1>6 DEF PostUnanswered, Posted, Loses
  <2> QED
    BY <1>1, <2>1, <2>2
<1>7. CASE MarkPosted
  BY <1>1, <1>7 DEF MarkPosted, Held
<1>8. CASE RecordHourly
  BY <1>8 DEF RecordHourly
<1>9. CASE RecordHistory
  BY <1>9 DEF RecordHistory
<1>10. CASE DetectorCrash
  <2>1. CASE dpc = "mark"
    <3>1. \A n \in Names : lost'[n] = IF n = NicheName[pick] THEN lost[n] + 1 ELSE lost[n]
      BY <1>1, <1>10, <2>1 DEF DetectorCrash, Loses
    <3> QED
      BY <1>1, <1>10, <2>1, <3>1 DEF DetectorCrash
  <2>2. CASE dpc # "mark"
    BY <1>10, <2>2 DEF DetectorCrash
  <2> QED
    BY <2>1, <2>2
<1> QED
  BY <1>2, <1>3, <1>4, <1>5, <1>6, <1>7, <1>8, <1>9, <1>10, DetectorStep DEF DetectorStep

(* What the sheets and time do is nothing to it. *)
LEMMA DetectedFrame ==
    ASSUME DetectedInv, UNCHANGED <<keys, dpc, pick, posts, lost>>
    PROVE  DetectedInv'
  BY DEF DetectedInv, Recorded, Unmarked, WasPosted

LEMMA SheetKeeps ==
    ASSUME SheetStep \/ (\E k \in Niche : SkipExpires(k)) \/ NicheTick
    PROVE  UNCHANGED <<keys, dpc, pick, posts, lost>>
<1> USE DEF dvars, DetectorOnly
<1>1. CASE SheetStep
  BY <1>1 DEF SheetStep, BeginSheet, LoadCandidates, ScanSkip, ScanTake, NothingToSheet, Develop,
              Build, SheetAccepted, SheetFailed, MarkFiche, SheetsCrash
<1>2. CASE (\E k \in Niche : SkipExpires(k)) \/ NicheTick
  BY <1>2 DEF SkipExpires, NicheTick, Aged
<1> QED
  BY <1>1, <1>2

(* A name that was posted and recorded is never posted again, and one whose post was *)
(* not recorded once more per lost record (_is_recently_posted_key).                 *)
THEOREM DetectedOnceAlways == SheetsSpec => []DetectedOnce
<1>1. SheetsInit => DetectedInv
  BY DetectedStart
<1>2. NicheTypeInv /\ DetectedInv /\ [SheetsNext]_sheetvars => DetectedInv'
  BY DetectedStep, DetectedFrame, SheetKeeps DEF SheetsNext, sheetvars, dvars
<1>3. NicheTypeInv /\ DetectedInv => DetectedOnce
  BY DEF NicheTypeInv, SheetsTypeOK, DetectorTypeOK, DetectedInv, DetectedOnce
<1> QED
  BY <1>1, <1>2, <1>3, NicheTypeAlways, PTL DEF SheetsSpec

-----------------------------------------------------------------------------
(* A niche has one sheet. *)

LEMMA SheetedStart ==
    ASSUME SheetsInit
    PROVE  SheetedInv
  BY DEF SheetsInit, SheetedInv, Busy

LEMMA SheetedStep ==
    ASSUME NicheTypeInv, SheetedInv, SheetStep
    PROVE  SheetedInv'
<1> USE DEF SheetedInv, Busy
<1>1. /\ sheets \in [Niche -> Nat] /\ unmarked \in [Niche -> Nat]
      /\ spc \in Busy => chosen \in Niche
  BY DEF NicheTypeInv, SheetsTypeOK
<1>2. CASE BeginSheet
  BY <1>2 DEF BeginSheet
<1>3. CASE LoadCandidates
  BY <1>3 DEF LoadCandidates, Validated
<1>4. ASSUME NEW k \in Niche, ScanSkip(k) PROVE SheetedInv'
  BY <1>4 DEF ScanSkip
<1>5. ASSUME NEW k \in Niche, ScanTake(k) PROVE SheetedInv'
  BY <1>5 DEF ScanTake, Foremost
<1>6. CASE NothingToSheet
  BY <1>6 DEF NothingToSheet, EndCycle
<1>7. ASSUME NEW b \in BOOLEAN, Develop(b) PROVE SheetedInv'
  BY <1>7 DEF Develop
<1>8. ASSUME NEW b \in BOOLEAN, Build(b) PROVE SheetedInv'
  BY <1>8 DEF Build
<1>9. CASE SheetAccepted
  <2>1. \A k \in Niche : sheets'[k] = IF k = chosen THEN sheets[k] + 1 ELSE sheets[k]
    BY <1>1, <1>9 DEF SheetAccepted, Sheeted
  <2> QED
    BY <1>1, <1>9, <2>1 DEF SheetAccepted
<1>10. CASE SheetFailed
  <2>1. CASE UNCHANGED <<sheets, unmarked>>
    BY <1>10, <2>1 DEF SheetFailed, EndCycle
  <2>2. CASE Sheeted /\ Unrecorded
    <3>1. \A k \in Niche :
             /\ sheets'[k] = IF k = chosen THEN sheets[k] + 1 ELSE sheets[k]
             /\ unmarked'[k] = IF k = chosen THEN unmarked[k] + 1 ELSE unmarked[k]
      BY <1>1, <2>2 DEF Sheeted, Unrecorded
    <3> QED
      BY <1>1, <1>10, <3>1 DEF SheetFailed, EndCycle
  <2> QED
    BY <1>10, <2>1, <2>2 DEF SheetFailed
<1>11. CASE MarkFiche
  BY <1>1, <1>11 DEF MarkFiche, EndCycle
<1>12. CASE SheetsCrash
  <2>1. CASE spc = "mark"
    <3>1. \A k \in Niche : unmarked'[k] = IF k = chosen THEN unmarked[k] + 1 ELSE unmarked[k]
      BY <1>1, <1>12, <2>1 DEF SheetsCrash, Unrecorded
    <3> QED
      BY <1>1, <1>12, <2>1, <3>1 DEF SheetsCrash, EndCycle
  <2>2. CASE spc # "mark"
    BY <1>12, <2>2 DEF SheetsCrash, EndCycle
  <2> QED
    BY <2>1, <2>2
<1> QED
  BY <1>2, <1>3, <1>4, <1>5, <1>6, <1>7, <1>8, <1>9, <1>10, <1>11, <1>12, SheetStep DEF SheetStep

LEMMA SheetedFrame ==
    ASSUME SheetedInv, UNCHANGED <<queue, fiched, spc, chosen, sheets, unmarked>>
    PROVE  SheetedInv'
  BY DEF SheetedInv

(* No niche has a second sheet unless the record of the first was lost (the panel:     *)
(* "jamais la même niche deux fois").                                                 *)
THEOREM OneSheetAlways == SheetsSpec => []OneSheetPerNiche
<1>1. SheetsInit => SheetedInv
  BY SheetedStart
<1>2. NicheTypeInv /\ SheetedInv /\ [SheetsNext]_sheetvars => SheetedInv'
  BY SheetedStep, SheetedFrame
  DEF SheetsNext, SkipExpires, NicheTick, Aged, nvars, sheetvars, dvars
<1>3. NicheTypeInv /\ SheetedInv => OneSheetPerNiche
  BY DEF NicheTypeInv, SheetsTypeOK, SheetedInv, OneSheetPerNiche
<1> QED
  BY <1>1, <1>2, <1>3, NicheTypeAlways, PTL DEF SheetsSpec

-----------------------------------------------------------------------------
(* Induction, stated of sets: what holds of a number is a set of numbers.  *)

LEMMA NatSetInduction ==
    ASSUME NEW S \in SUBSET Nat, 0 \in S, \A n \in S : n + 1 \in S
    PROVE  S = Nat
<1> DEFINE Less == {p \in Nat \X Nat : p[1] < p[2]}
           Rest == Nat \ S
<1>1. IsWellFoundedOn(Less, Nat)
  <2>1. Less = OpToRel(<, Nat)
    BY Zenon DEF OpToRel
  <2> QED
    BY <2>1, NatLessThanWellFounded, Zenon
<1>2. SUFFICES ASSUME Rest # {}
               PROVE  FALSE
  OBVIOUS
<1>3. PICK m \in Rest : \A k \in Rest : <<k, m>> \notin Less
  <2>1. Rest \subseteq Nat
    OBVIOUS
  <2> HIDE DEF Rest, Less
  <2> QED
    BY <1>1, <1>2, <2>1, WFMin, Zenon
<1>4. m \in Nat /\ m # 0 /\ m - 1 \in Nat
  BY <1>3
<1>5. m - 1 \notin Rest
  <2>1. PICK k \in Nat : k = m - 1 /\ k < m
    BY <1>4
  <2>2. <<k, m>> \in Less
    BY <1>4, <2>1
  <2> HIDE DEF Less, Rest
  <2> QED
    BY <1>3, <2>1, <2>2
<1>6. (m - 1) + 1 \in S
  BY <1>4, <1>5
<1> QED
  BY <1>3, <1>4, <1>6

LEMMA Removed ==
    ASSUME NEW s, IsFiniteSet(s), NEW x \in s, NEW n \in Nat, Cardinality(s) <= n + 1
    PROVE  IsFiniteSet(s \ {x}) /\ Cardinality(s \ {x}) <= n
<1>1. IsFiniteSet(s \ {x}) /\ Cardinality(s \ {x}) = Cardinality(s) - 1
  BY FS_RemoveElement
<1>2. Cardinality(s) \in Nat
  BY FS_CardinalityType
<1> QED
  BY <1>1, <1>2

\* A collection of subsets that has the empty set, and each set that has an element
\* without which it is in the collection.
LEMMA FiniteSetInduction ==
    ASSUME NEW S, IsFiniteSet(S), NEW A \in SUBSET (SUBSET S), {} \in A,
           \A s \in SUBSET S : s # {} => \E x \in s : s \ {x} \in A => s \in A
    PROVE  S \in A
<1> DEFINE N == {n \in Nat : \A s \in SUBSET S : Cardinality(s) <= n => s \in A}
<1>1. \A s \in SUBSET S : IsFiniteSet(s) /\ Cardinality(s) \in Nat
  BY FS_Subset, FS_CardinalityType
<1>2. 0 \in N
  <2>1. SUFFICES ASSUME NEW s \in SUBSET S, Cardinality(s) <= 0
                 PROVE  s \in A
    OBVIOUS
  <2>2. Cardinality(s) = 0
    BY <1>1, <2>1
  <2>3. s = {}
    BY <1>1, <2>2, FS_EmptySet
  <2> QED
    BY <2>3
<1>3. ASSUME NEW n \in N
      PROVE  n + 1 \in N
  <2>1. SUFFICES ASSUME NEW s \in SUBSET S, Cardinality(s) <= n + 1
                 PROVE  s \in A
    OBVIOUS
  <2>2. CASE s = {}
    BY <2>2
  <2>3. CASE s # {}
    <3>1. PICK x \in s : s \ {x} \in A => s \in A
      BY <2>3
    <3>2. IsFiniteSet(s) /\ n \in Nat
      BY <1>1
    <3>3. Cardinality(s \ {x}) <= n
      BY <2>1, <3>1, <3>2, Removed
    <3>4. s \ {x} \in SUBSET S
      OBVIOUS
    <3> QED
      BY <3>1, <3>3, <3>4
  <2> QED
    BY <2>2, <2>3
<1>4. N = Nat
  <2> HIDE DEF N
  <2>1. N \subseteq Nat
    BY DEF N
  <2> QED
    BY <1>2, <1>3, <2>1, NatSetInduction
<1>5. Cardinality(S) \in N /\ Cardinality(S) <= Cardinality(S)
  BY <1>1, <1>4
<1> QED
  BY <1>5

HasFold(S, V, b, H, c) ==
    \E g \in [SUBSET S -> V] :
        \A s \in SUBSET S : g[s] = IF s = {} THEN b ELSE H[<<g[s \ {c[s]}], c[s]>>]

\* The function that a fold over the subsets of a finite set defines exists: which
\* element is taken is the choice c, what is done with it the step H.
LEMMA FoldExists ==
    ASSUME NEW S, IsFiniteSet(S), NEW V, NEW b \in V, NEW H \in [V \X S -> V],
           NEW c, \A s \in SUBSET S : s # {} => c[s] \in s
    PROVE  HasFold(S, V, b, H, c)
<1> DEFINE Body(g, s) == IF s = {} THEN b ELSE H[<<g[s \ {c[s]}], c[s]>>]
           N == {n \in Nat : \E g \in [SUBSET S -> V] :
                    \A s \in SUBSET S : Cardinality(s) <= n => g[s] = Body(g, s)}
<1>1. \A s \in SUBSET S : IsFiniteSet(s) /\ Cardinality(s) \in Nat
  BY FS_Subset, FS_CardinalityType
<1>2. 0 \in N
  <2> DEFINE g == [s \in SUBSET S |-> b]
  <2>1. g \in [SUBSET S -> V]
    OBVIOUS
  <2>2. ASSUME NEW s \in SUBSET S, Cardinality(s) <= 0
        PROVE  g[s] = Body(g, s)
    <3>1. Cardinality(s) = 0
      BY <1>1, <2>2
    <3>2. s = {}
      BY <1>1, <3>1, FS_EmptySet
    <3> QED
      BY <3>2
  <2> HIDE DEF g, Body
  <2> QED
    BY <2>1, <2>2
<1>3. ASSUME NEW n \in N
      PROVE  n + 1 \in N
  <2>1. PICK g \in [SUBSET S -> V] :
            \A s \in SUBSET S : Cardinality(s) <= n => g[s] = Body(g, s)
    OBVIOUS
  <2> DEFINE h == [s \in SUBSET S |-> IF Cardinality(s) <= n THEN g[s] ELSE Body(g, s)]
  <2>2. \A s \in SUBSET S : Body(g, s) \in V
    <3>1. SUFFICES ASSUME NEW s \in SUBSET S, s # {}
                   PROVE  H[<<g[s \ {c[s]}], c[s]>>] \in V
      OBVIOUS
    <3>2. c[s] \in S /\ s \ {c[s]} \in SUBSET S
      BY <3>1
    <3>3. g[s \ {c[s]}] \in V
      BY <3>2
    <3>4. <<g[s \ {c[s]}], c[s]>> \in V \X S
      BY <3>2, <3>3
    <3> QED
      BY <3>4
  <2>3. h \in [SUBSET S -> V]
    <3> HIDE DEF Body
    <3> QED
      BY <2>2
  <2>4. ASSUME NEW s \in SUBSET S, Cardinality(s) <= n + 1
        PROVE  h[s] = Body(h, s)
    <3>1. h[s] = Body(g, s)
      <4> HIDE DEF Body
      <4> QED
        BY <2>1
    <3>2. CASE s = {}
      BY <3>1, <3>2
    <3>3. CASE s # {}
      <4>1. c[s] \in s /\ s \ {c[s]} \in SUBSET S
        BY <3>3
      <4>2. Cardinality(s \ {c[s]}) <= n
        <5>1. IsFiniteSet(s) /\ n \in Nat
          BY <1>1
        <5> QED
          BY <2>4, <4>1, <5>1, Removed
      <4>3. h[s \ {c[s]}] = g[s \ {c[s]}]
        <5> HIDE DEF Body
        <5> QED
          BY <4>1, <4>2
      <4> HIDE DEF h
      <4> QED
        BY <3>1, <3>3, <4>3
    <3> QED
      BY <3>2, <3>3
  <2>5. n + 1 \in Nat
    OBVIOUS
  <2> HIDE DEF h, Body
  <2> QED
    BY <2>3, <2>4, <2>5
<1>4. N = Nat
  <2>1. N \subseteq Nat
    OBVIOUS
  <2> HIDE DEF N
  <2> QED
    BY <1>2, <1>3, <2>1, NatSetInduction
<1>5. PICK m \in Nat : m = Cardinality(S)
  BY <1>1
<1>6. \A s \in SUBSET S : Cardinality(s) <= m
  BY <1>5, FS_Subset
<1>7. m \in N
  BY <1>4
<1> QED
  BY <1>6, <1>7 DEF HasFold

-----------------------------------------------------------------------------
(* The sum of a history, by FoldSeq. *)

LEMMA SumIs ==
    ASSUME NEW q \in Seq(Int), NEW m \in Int, \A i \in DOMAIN q : q[i] >= m
    PROVE  /\ FoldSeq(LAMBDA x, y : x + y, 0, q) \in Int
           /\ FoldSeq(LAMBDA x, y : x + y, 0, q) >= m * Len(q)
<1> DEFINE S == DOMAIN q
           Body(g, s) == IF s = {} THEN 0 ELSE q[CHOOSE x \in s : TRUE] + g[s \ {CHOOSE x \in s : TRUE}]
           iter == CHOOSE g : g = [s \in SUBSET S |-> Body(g, s)]
<1>1. FoldSeq(LAMBDA x, y : x + y, 0, q) = iter[S]
  BY DEF FoldSeq, FoldFunction, FoldFunctionOnSet, MapThenFoldSet
<1>2. IsFiniteSet(S) /\ S = 1 .. Len(q) /\ Len(q) \in Nat /\ Cardinality(S) = Len(q)
  <2>1. S = 1 .. Len(q) /\ Len(q) \in Nat
    OBVIOUS
  <2> QED
    BY <2>1, FS_Interval
<1>3. \E g : g = [s \in SUBSET S |-> Body(g, s)]
  <2> DEFINE H == [p \in Int \X S |-> q[p[2]] + p[1]]
             c == [s \in SUBSET S |-> CHOOSE x \in s : TRUE]
  <2>1. H \in [Int \X S -> Int]
    OBVIOUS
  <2>2. \A s \in SUBSET S : s # {} => c[s] \in s
    OBVIOUS
  <2>3. PICK g \in [SUBSET S -> Int] :
            \A s \in SUBSET S : g[s] = IF s = {} THEN 0 ELSE H[<<g[s \ {c[s]}], c[s]>>]
    <3>1. 0 \in Int /\ IsFiniteSet(S)
      BY <1>2
    <3> HIDE DEF H, c, S
    <3>2. HasFold(S, Int, 0, H, c)
      BY <2>1, <2>2, <3>1, FoldExists, Zenon
    <3> QED
      BY <3>2 DEF HasFold
  <2>4. ASSUME NEW s \in SUBSET S
        PROVE  g[s] = Body(g, s)
    <3>1. CASE s = {}
      BY <2>3, <3>1
    <3>2. CASE s # {}
      <4>1. c[s] \in S /\ c[s] = CHOOSE x \in s : TRUE
        BY <3>2
      <4>2. s \ {c[s]} \in SUBSET S
        OBVIOUS
      <4>3. g[s \ {c[s]}] \in Int
        BY <4>2
      <4>4. H[<<g[s \ {c[s]}], c[s]>>] = q[c[s]] + g[s \ {c[s]}]
        <5> HIDE DEF c, S
        <5> QED
          BY <4>1, <4>3
      <4>5. g[s] = q[c[s]] + g[s \ {c[s]}]
        <5> HIDE DEF c, S, H
        <5> QED
          BY <2>3, <3>2, <4>4
      <4> QED
        BY <3>2, <4>1, <4>5, Zenon
    <3> QED
      BY <3>1, <3>2
  <2>5. g = [s \in SUBSET S |-> Body(g, s)]
    <3> HIDE DEF Body, S
    <3> QED
      BY <2>4
  <2> QED
    BY <2>5
<1>4. iter = [s \in SUBSET S |-> Body(iter, s)]
  <2> HIDE DEF Body, S
  <2> QED
    BY <1>3
<1> HIDE DEF iter
<1> DEFINE A == {s \in SUBSET S : iter[s] \in Int /\ iter[s] >= m * Cardinality(s)}
<1>5. {} \in A
  <2>1. iter[{}] = 0
    BY <1>4
  <2>2. Cardinality({}) = 0 /\ m * 0 = 0
    BY FS_EmptySet
  <2> QED
    BY <2>1, <2>2
<1>6. ASSUME NEW s \in SUBSET S, s # {}
      PROVE  \E x \in s : s \ {x} \in A => s \in A
  <2> DEFINE x == CHOOSE y \in s : TRUE
             t == s \ {x}
  <2>1. x \in s /\ x \in S /\ t \in SUBSET S
    BY <1>6
  <2>2. iter[s] = q[x] + iter[t]
    <3>1. iter[s] = Body(iter, s)
      <4> HIDE DEF Body, S
      <4> QED
        BY <1>4
    <3> QED
      BY <1>6, <3>1
  <2>3. IsFiniteSet(s) /\ Cardinality(s) \in Nat
    BY <1>2, FS_Subset, FS_CardinalityType
  <2> HIDE DEF x
  <2>4. Cardinality(t) = Cardinality(s) - 1
    BY <2>1, <2>3, FS_RemoveElement
  <2>5. q[x] \in Int /\ q[x] >= m
    BY <2>1
  <2>6. ASSUME t \in A
        PROVE  s \in A
    <3>1. PICK k \in Nat : k = Cardinality(s)
      BY <2>3
    <3>2. PICK v \in Int : v = iter[t] /\ v >= m * (k - 1)
      BY <2>4, <2>6, <3>1
    <3>3. m * (k - 1) + m = m * k
      BY <3>1
    <3>4. PICK u \in Int : u = m * (k - 1)
      BY <3>1
    <3>5. iter[s] \in Int /\ iter[s] >= m * k
      BY <2>2, <2>5, <3>2, <3>3, <3>4
    <3> QED
      BY <3>1, <3>5
  <2> HIDE DEF A
  <2> QED
    BY <2>1, <2>6
<1>7. S \in A
  <2>1. A \in SUBSET (SUBSET S)
    OBVIOUS
  <2> HIDE DEF A, S
  <2> QED
    BY <1>2, <1>5, <1>6, <2>1, FiniteSetInduction
<1> QED
  BY <1>1, <1>2, <1>7

LEMMA Greatest ==
    ASSUME NEW S \in SUBSET Int, IsFiniteSet(S), S # {}
    PROVE  Max(S) \in S /\ \A y \in S : Max(S) >= y
<1> DEFINE A == {s \in SUBSET S : s = {} \/ \E x \in s : \A y \in s : x >= y}
<1>1. {} \in A /\ A \in SUBSET (SUBSET S)
  OBVIOUS
<1>2. ASSUME NEW s \in SUBSET S, s # {}
      PROVE  \E x \in s : s \ {x} \in A => s \in A
  <2>1. PICK x \in s : TRUE
    BY <1>2
  <2>2. ASSUME s \ {x} \in A
        PROVE  s \in A
    <3>1. CASE s \ {x} = {}
      <4>1. \A y \in s : x >= y
        BY <3>1
      <4> QED
        BY <4>1
    <3>2. CASE s \ {x} # {}
      <4>1. PICK z \in s \ {x} : \A y \in s \ {x} : z >= y
        BY <2>2, <3>2
      <4>2. x \in Int /\ z \in Int /\ \A y \in s : y \in Int
        OBVIOUS
      <4>3. (\A y \in s : x >= y) \/ (\A y \in s : z >= y)
        BY <4>1, <4>2
      <4> QED
        BY <4>3
    <3> QED
      BY <3>1, <3>2
  <2> QED
    BY <2>2
<1>3. S \in A
  <2> HIDE DEF A
  <2> QED
    BY <1>1, <1>2, FiniteSetInduction
<1>4. \E x \in S : \A y \in S : x >= y
  BY <1>3
<1> QED
  BY <1>4 DEF Max

LEMMA Pair ==
    ASSUME NEW x \in Int, NEW y \in Int
    PROVE  /\ Min({x, y}) = IF x <= y THEN x ELSE y
           /\ Max({x, y}) = IF x <= y THEN y ELSE x
  BY DEF Min, Max

-----------------------------------------------------------------------------

CountersOf(T) == [famous : Int, high : Int, picked : Seq(T)]

LEMMA Considered ==
    ASSUME NEW T, NEW c \in CountersOf(T), NEW s \in T, NEW type
    PROVE  Consider(c, s, type) \in CountersOf(T)
<1> DEFINE famous == s.brand \in FamousBrands
           counted == [c EXCEPT !.famous = IF famous THEN @ + 1 ELSE @,
                                !.high = IF type = "high_value" THEN @ + 1 ELSE @]
<1>1. counted \in CountersOf(T)
  <2>1. PICK f \in Int, h \in Int :
            f = (IF famous THEN c.famous + 1 ELSE c.famous)
            /\ h = (IF type = "high_value" THEN c.high + 1 ELSE c.high)
    <3>1. c.famous \in Int /\ c.high \in Int
      BY DEF CountersOf
    <3> QED
      BY <3>1
  <2>2. counted = [c EXCEPT !.famous = f, !.high = h]
    BY <2>1, Zenon
  <2> QED
    BY <2>2 DEF CountersOf
<1>2. [c EXCEPT !.famous = counted.famous] \in CountersOf(T)
  BY <1>1 DEF CountersOf
<1>3. Append(counted.picked, s) \in Seq(T)
  BY <1>1 DEF CountersOf
<1>4. [counted EXCEPT !.picked = Append(@, s)] \in CountersOf(T)
  <2> HIDE DEF counted
  <2> QED
    BY <1>1, <1>3 DEF CountersOf
<1>5. \/ Consider(c, s, type) = c
      \/ Consider(c, s, type) = counted
      \/ Consider(c, s, type) = [c EXCEPT !.famous = counted.famous]
      \/ Consider(c, s, type) = [counted EXCEPT !.picked = Append(@, s)]
  BY Zenon DEF Consider
<1> QED
  BY <1>1, <1>2, <1>4, <1>5, Zenon

\* What is selected is of what was ranked.
LEMMA SelectedOf ==
    ASSUME NEW T, NEW q \in Seq(T), NEW limit \in Nat
    PROVE  ToSet(Select(q, limit)) \subseteq T
<1> DEFINE S == DOMAIN q
           V == CountersOf(T)
           Body(g, s) == IF s = {} THEN Counters
                         ELSE Consider(g[s \ {Max(s)}], q[Max(s)], NicheType(q[Max(s)]))
           iter == CHOOSE g : g = [s \in SUBSET S |-> Body(g, s)]
           all == FoldLeft(LAMBDA c, s : Consider(c, s, NicheType(s)), Counters, q)
<1>1. all = iter[S]
  BY Zenon DEF FoldLeft, MapThenFoldSet
<1>2. IsFiniteSet(S) /\ S \subseteq Int /\ \A i \in S : q[i] \in T
  <2>1. S = 1 .. Len(q) /\ Len(q) \in Nat
    OBVIOUS
  <2> QED
    BY <2>1, FS_Interval
<1>3. \A s \in SUBSET S : s # {} => Max(s) \in s
  BY <1>2, Greatest, FS_Subset
<1>4. Counters \in V
  BY DEF Counters, CountersOf
<1>5. \A g \in V, i \in S : Consider(g, q[i], NicheType(q[i])) \in V
  BY <1>2, Considered
<1> HIDE DEF V
<1>6. \E g : g = [s \in SUBSET S |-> Body(g, s)]
  <2> DEFINE H == [p \in V \X S |-> Consider(p[1], q[p[2]], NicheType(q[p[2]]))]
             c == [s \in SUBSET S |-> Max(s)]
  <2>1. H \in [V \X S -> V]
    BY <1>5
  <2>2. \A s \in SUBSET S : s # {} => c[s] \in s
    BY <1>3
  <2>3. PICK g \in [SUBSET S -> V] :
            \A s \in SUBSET S : g[s] = IF s = {} THEN Counters ELSE H[<<g[s \ {c[s]}], c[s]>>]
    <3> HIDE DEF H, c, S
    <3>1. HasFold(S, V, Counters, H, c)
      BY <1>2, <1>4, <2>1, <2>2, FoldExists, Zenon
    <3> QED
      BY <3>1 DEF HasFold
  <2>4. ASSUME NEW s \in SUBSET S
        PROVE  g[s] = Body(g, s)
    <3>1. CASE s = {}
      BY <2>3, <3>1
    <3>2. CASE s # {}
      <4>1. c[s] \in S /\ c[s] = Max(s)
        BY <1>3, <3>2
      <4>2. s \ {c[s]} \in SUBSET S
        OBVIOUS
      <4>3. g[s \ {c[s]}] \in V
        BY <4>2
      <4>4. H[<<g[s \ {c[s]}], c[s]>>] = Consider(g[s \ {c[s]}], q[c[s]], NicheType(q[c[s]]))
        <5> HIDE DEF c, S
        <5> QED
          BY <4>1, <4>3
      <4>5. g[s] = Consider(g[s \ {c[s]}], q[c[s]], NicheType(q[c[s]]))
        <5> HIDE DEF c, S, H
        <5> QED
          BY <2>3, <3>2, <4>4, Zenon
      <4> QED
        BY <3>2, <4>1, <4>5, Zenon
    <3> QED
      BY <3>1, <3>2
  <2>5. g = [s \in SUBSET S |-> Body(g, s)]
    <3> HIDE DEF Body, S
    <3> QED
      BY <2>4
  <2> QED
    BY <2>5
<1>7. iter = [s \in SUBSET S |-> Body(iter, s)]
  <2> HIDE DEF Body, S
  <2> QED
    BY <1>6
<1>8. \A s \in SUBSET S : iter[s] = Body(iter, s)
  <2> HIDE DEF Body, S, iter
  <2> QED
    BY <1>7
<1> HIDE DEF iter
<1> DEFINE A == {s \in SUBSET S : iter[s] \in V}
<1>9. {} \in A
  BY <1>4, <1>8
<1>10. ASSUME NEW s \in SUBSET S, s # {}
       PROVE  \E x \in s : s \ {x} \in A => s \in A
  <2>1. Max(s) \in s /\ Max(s) \in S
    BY <1>3, <1>10
  <2>2. ASSUME s \ {Max(s)} \in A
        PROVE  s \in A
    <3>1. iter[s] = Consider(iter[s \ {Max(s)}], q[Max(s)], NicheType(q[Max(s)]))
      BY <1>8, <1>10, Zenon
    <3>2. iter[s \ {Max(s)}] \in V
      BY <2>2
    <3>3. Consider(iter[s \ {Max(s)}], q[Max(s)], NicheType(q[Max(s)])) \in V
      <4> HIDE DEF S
      <4> QED
        BY <1>5, <2>1, <3>2, Zenon
    <3>4. iter[s] \in V
      BY <3>1, <3>3, Zenon
    <3> QED
      BY <3>4
  <2> HIDE DEF A
  <2> QED
    BY <2>1, <2>2
<1>11. S \in A
  <2>1. A \in SUBSET (SUBSET S)
    OBVIOUS
  <2> HIDE DEF A, S
  <2> QED
    BY <1>2, <1>9, <1>10, <2>1, FiniteSetInduction
<1>12. all \in V
  BY <1>1, <1>11, Zenon
<1> HIDE DEF all
<1>13. all.picked \in Seq(T) /\ Len(all.picked) \in Nat
  BY <1>12 DEF V, CountersOf
<1>14. PICK p \in Seq(T), n \in Nat : p = all.picked /\ n = Len(p)
  BY <1>13
<1>15. Min({limit, n}) \in 0 .. n
  BY Pair
<1>16. SubSeq(p, 1, Min({limit, n})) \in Seq(T)
  <2>1. PICK m \in 0 .. n : m = Min({limit, n})
    BY <1>15
  <2>2. 1 \in Int /\ m \in Int /\ \A i \in 1 .. m : p[i] \in T
    <3>1. \A i \in 1 .. n : p[i] \in T
      BY <1>14, ElementOfSeq
    <3>2. n \in Int /\ m \in Int /\ m <= n
      BY <1>14, <2>1
    <3> QED
      BY <3>1, <3>2
  <2>3. SubSeq(p, 1, m) \in Seq(T)
    BY <2>2, SubSeqProperties
  <2> QED
    BY <2>1, <2>3
<1>17. Select(q, limit) = SubSeq(p, 1, Min({limit, n}))
  BY <1>14, Zenon DEF Select, all
<1>18. Select(q, limit) \in Seq(T)
  BY <1>16, <1>17
<1> QED
  BY <1>18 DEF ToSet

-----------------------------------------------------------------------------
(* What the numbers of a market are made of. *)

Typed(s) == s \in Snapshot /\ \A w \in DOMAIN s.win : IsWindow(s.win[w])

LEMMA CutInt == \A x \in Int : Cut(x) \in Int /\ Cut(x) >= 0 /\ Cut(x) <= 10000
  BY DEF Cut, Min, Max

LEMMA AtMostInt == \A x, y \in Int : AtMostOf(x, y) \in Int
  BY DEF AtMostOf, Min

LEMMA AtLeast == \A x, y \in Int : Max({x, y}) \in Int /\ Max({x, y}) >= x
  BY DEF Max

LEMMA DivInt == \A x, d \in Int : d >= 1 => x \div d \in Int
  OBVIOUS

LEMMA FieldTypes ==
    ASSUME NEW s, Typed(s)
    PROVE  /\ s.n \in Int /\ s.n >= 0 /\ s.gone \in Int /\ s.gone >= 0
           /\ s.fresh \in Int /\ s.fresh >= 0 /\ s.active \in Int /\ s.favs \in Int
           /\ s.views \in Int /\ s.variants \in Int
           /\ s.min \in Int /\ s.p25 \in Int /\ s.p25 >= 0 /\ s.median \in Int /\ s.median >= 0
           /\ s.mean \in Int /\ s.max \in Int
           /\ (s.sellers = Unknown \/ s.sellers \in Int) /\ (s.ttl = Unknown \/ s.ttl \in Int)
           /\ (s.margin = Unknown \/ s.margin \in Int) /\ (s.score = Unknown \/ s.score \in Int)
  BY DEF Typed, Snapshot

LEMMA WindowTypes ==
    ASSUME NEW s, Typed(s), NEW w, NEW d \in Int
    PROVE  /\ Window(s, w, "fresh", d) \in Int /\ Window(s, w, "n", d) \in Int
           /\ d >= 0 => Window(s, w, "fresh", d) >= 0 /\ Window(s, w, "n", d) >= 0
  BY DEF Typed, Window, IsWindow

LEMMA VolumeTypes ==
    ASSUME NEW s, Typed(s)
    PROVE  Vol7(s) \in Int /\ Vol7(s) >= 0 /\ Vol30(s) \in Int /\ Vol30(s) >= 0
<1>1. s.fresh \in Int /\ s.n \in Int /\ s.fresh >= 0 /\ s.n >= 0
  BY FieldTypes
<1>2. /\ Window(s, "7d", "fresh", s.fresh) \in Int /\ Window(s, "7d", "fresh", s.fresh) >= 0
      /\ Window(s, "30d", "fresh", s.fresh) \in Int /\ Window(s, "30d", "fresh", s.fresh) >= 0
  BY <1>1, WindowTypes
<1> QED
  BY <1>1, <1>2 DEF Vol7, Vol30

LEMMA FlowTypes ==
    ASSUME NEW s, Typed(s)
    PROVE  FlowRatio(s) \in Int /\ AngleFlow(s) \in Int
<1>1. PICK v, w, x, y \in Int :
          v = Vol7(s) /\ w = Vol30(s) /\ x = Max({s.fresh, s.n}) /\ y = Window(s, "30d", "fresh", x)
  <2>1. s.fresh \in Int /\ s.n \in Int
    BY FieldTypes
  <2>2. Max({s.fresh, s.n}) \in Int
    BY <2>1, AtLeast
  <2> QED
    BY <2>2, VolumeTypes, WindowTypes
<1>2. Max({4, w}) \in Int /\ Max({4, w}) >= 4 /\ Max({4, y}) \in Int /\ Max({4, y}) >= 4
  BY <1>1, AtLeast
<1>3. (400 * v) \div Max({4, w}) \in Int /\ (400 * v) \div Max({4, y}) \in Int
  BY <1>1, <1>2, DivInt
<1> QED
  BY <1>1, <1>3, Zenon DEF FlowRatio, AngleFlow

LEMMA DemandType ==
    ASSUME NEW s, Typed(s)
    PROVE  Demand(s) \in Int
<1>1. FlowRatio(s) \in Int /\ Vol7(s) \in Int /\ s.n \in Int /\ s.gone \in Int
  BY FlowTypes, VolumeTypes, FieldTypes
<1>2. Max({1, s.n}) \in Int /\ Max({1, s.n}) >= 1
  BY <1>1, AtLeast
<1>3. (8000 * s.gone) \div Max({1, s.n}) \in Int
  BY <1>1, <1>2, DivInt
<1>4. AtMostOf(4500, 22 * FlowRatio(s)) \in Int
  BY <1>1, AtMostInt
<1>5. AtMostOf(4000, (8000 * s.gone) \div Max({1, s.n})) \in Int
  BY <1>3, AtMostInt
<1>6. AtMostOf(1200, 150 * Vol7(s)) \in Int
  BY <1>1, AtMostInt
<1>7. AtMostOf(1500, 120 * Vol7(s)) \in Int
  BY <1>1, AtMostInt
<1> QED
  BY <1>4, <1>5, <1>6, <1>7, CutInt DEF Demand

LEMMA RarityType ==
    ASSUME NEW s, Typed(s)
    PROVE  Rarity(s) \in Int
<1> DEFINE stock == CASE s.n <= 8 -> 8800 [] s.n \in 9 .. 15 -> 7200
                   [] s.n \in 16 .. 30 -> 5500 [] s.n \in 31 .. 60 -> 3800 [] OTHER -> 1800
<1>1. stock \in Int
  OBVIOUS
<1>2. Rarity(s) = CASE Known(s.sellers, 0) \in 1 .. 5 -> Cut(stock + 1200)
                    [] Known(s.sellers, 0) = 0 -> Cut(stock - 800) [] OTHER -> stock
  BY DEF Rarity
<1> HIDE DEF stock
<1>3. Cut(stock + 1200) \in Int /\ Cut(stock - 800) \in Int
  BY <1>1, CutInt
<1> QED
  BY <1>1, <1>2, <1>3

LEMMA CompetitionType ==
    ASSUME NEW s, Typed(s)
    PROVE  Competition(s) \in Int
<1>1. s.n \in Int /\ (s.sellers = Unknown \/ s.sellers \in Int)
  BY FieldTypes
<1>2. Cut(80 * s.n + 2500) \in Int
  BY <1>1, CutInt
<1>3. s.sellers \in Int => Cut(600 * s.sellers + 45 * s.n) \in Int
  BY <1>1, CutInt
<1>4. s.sellers \notin Int => Known(s.sellers, 0) = 0
  BY <1>1 DEF Known
<1> QED
  BY <1>2, <1>3, <1>4 DEF Competition

LEMMA RotationType ==
    ASSUME NEW s, Typed(s)
    PROVE  Rotation(s) \in Int
<1>1. s.gone \in Int /\ (s.ttl = Unknown \/ s.ttl \in Int)
  BY FieldTypes
<1>2. Cut(4500 + 500 * s.gone) \in Int
  BY <1>1, CutInt
<1>3. AtMostOf(2000, 300 * s.gone) \in Int
  BY <1>1 DEF AtMostOf, Min
<1>4. s.ttl \in Int => AtMostOf(9000, 800 * s.ttl) \in Int
  BY DEF AtMostOf, Min
<1>5. s.ttl \in Int =>
          Cut(10000 - AtMostOf(9000, 800 * s.ttl) + AtMostOf(2000, 300 * s.gone)) \in Int
  BY <1>3, <1>4, CutInt
<1> QED
  BY <1>1, <1>2, <1>5 DEF Rotation

LEMMA SupplyType ==
    ASSUME NEW s, Typed(s)
    PROVE  SupplyEase(s) \in Int
<1>1. s.n \in Int
  BY FieldTypes
<1>2. Cut(9000 - 50 * s.n) \in Int
  BY <1>1, CutInt
<1> QED
  BY <1>2 DEF SupplyEase

LEMMA StabilityType ==
    ASSUME NEW s, Typed(s)
    PROVE  Stability(s) \in Int
<1>1. s.median \in Int /\ s.max \in Int /\ s.min \in Int
  BY FieldTypes
<1>2. s.median > 0 => (4000 * (s.max - s.min)) \div s.median \in Int
  BY <1>1, DivInt
<1>3. s.median > 0 => Cut(10000 - (4000 * (s.max - s.min)) \div s.median) \in Int
  BY <1>2, CutInt
<1> QED
  BY <1>3 DEF Stability

LEMMA ConfidenceType ==
    ASSUME NEW s, Typed(s)
    PROVE  Confidence(s) \in Int
<1> DEFINE sold == Known(s.sellers, 0)
           sum == 2500 + AtMostOf(3500, 250 * s.n)
               + (IF sold > 0 THEN AtMostOf(2000, 300 * sold) ELSE 0)
               + (IF Liquid(s) THEN 2000 ELSE 0) + (IF s.ttl # Unknown THEN 1000 ELSE 0)
           few == IF s.n < MinPublishListings THEN AtMostOf(sum, 5000) ELSE sum
<1>1. s.n \in Int /\ sold \in Int
  BY FieldTypes DEF Known
<1>2. AtMostOf(3500, 250 * s.n) \in Int
  <2>1. PICK n \in Int : n = s.n
    BY <1>1
  <2> HIDE DEF sold, sum, few
  <2>2. AtMostOf(3500, 250 * n) \in Int
    BY <2>1 DEF AtMostOf, Min
  <2> QED
    BY <2>1, <2>2
<1>3. AtMostOf(2000, 300 * sold) \in Int
  BY <1>1 DEF AtMostOf, Min
<1>4. sum \in Int
  BY <1>2, <1>3
<1>5. Confidence(s) = Cut(IF sold < MinNicheSellers THEN AtMostOf(few, 4000) ELSE few)
  BY DEF Confidence
<1> HIDE DEF sum
<1>6. few \in Int
  BY <1>4, AtMostInt
<1> HIDE DEF few
<1>7. (IF sold < MinNicheSellers THEN AtMostOf(few, 4000) ELSE few) \in Int
  BY <1>6, AtMostInt
<1> QED
  BY <1>5, <1>7, CutInt

LEMMA MarginType ==
    ASSUME NEW s, Typed(s)
    PROVE  Margin(s) \in Int
<1>1. s.p25 \in Int /\ s.p25 >= 0 /\ s.median \in Int /\ s.median >= 0
  BY FieldTypes
<1>2. BuyPrice(s) \in Int /\ BuyPrice(s) >= 0
  BY <1>1 DEF BuyPrice
<1>3. Known(s.margin, 0) \in Int
  BY FieldTypes DEF Known
<1>4. Max({0, s.median - BuyPrice(s)}) \in Int
  <2>1. 0 \in Int /\ s.median - BuyPrice(s) \in Int
    BY <1>1, <1>2
  <2> QED
    BY <2>1, AtLeast, Zenon
<1>5. BuyPrice(s) # 0 => (100 * Max({0, s.median - BuyPrice(s)})) \div BuyPrice(s) \in Int
  BY <1>2, <1>4, DivInt
<1> QED
  BY <1>3, <1>5 DEF Margin

LEMMA AngleDemandType ==
    ASSUME NEW s, Typed(s)
    PROVE  AngleDemand(s) \in Int
<1>1. AngleFlow(s) \in Int /\ s.n \in Int /\ s.gone \in Int /\ s.favs \in Int /\ s.views \in Int
  BY FlowTypes, FieldTypes
<1>2. Max({1, s.n}) \in Int /\ Max({1, s.n}) >= 1
  BY <1>1, AtLeast
<1>3. (7000 * s.gone) \div Max({1, s.n}) \in Int
  BY <1>1, <1>2, DivInt
<1>4. AtMostOf(3500, 18 * AngleFlow(s)) \in Int
  BY <1>1 DEF AtMostOf, Min
<1>5. AtMostOf(3000, (7000 * s.gone) \div Max({1, s.n})) \in Int
  BY <1>3, AtMostInt
<1>6. AtMostOf(2000, 400 * s.favs) \in Int
  <2>1. s.favs \in Int
    BY <1>1
  <2> QED
    BY <2>1 DEF AtMostOf, Min
<1>7. AtMostOf(1500, 80 * s.views) \in Int
  <2>1. s.views \in Int
    BY <1>1
  <2> QED
    BY <2>1 DEF AtMostOf, Min
<1> QED
  BY <1>4, <1>5, <1>6, <1>7, CutInt DEF AngleDemand

LEMMA AngleCompetitionType ==
    ASSUME NEW s, Typed(s)
    PROVE  AngleCompetition(s) \in Int
<1>1. Known(s.sellers, 0) \in Int /\ s.active \in Int
  BY FieldTypes DEF Known
<1> QED
  BY <1>1, CutInt DEF AngleCompetition

LEMMA AngleSupplyType ==
    ASSUME NEW s, Typed(s)
    PROVE  AngleSupply(s) \in Int
<1> DEFINE stock == CASE s.n <= 8 -> 8500 [] s.n \in 9 .. 20 -> 6500
                   [] s.n \in 21 .. 40 -> 4500 [] OTHER -> 2500
           rare == IF Known(StockDelta(s), 0) < -1500 THEN 1000 ELSE 0
<1>1. stock \in Int /\ rare \in Int
  OBVIOUS
<1>2. AngleSupply(s) = Cut((55 * stock + 35 * (10000 - AngleCompetition(s))) \div 100 + rare)
  BY DEF AngleSupply
<1> HIDE DEF stock, rare
<1>3. (55 * stock + 35 * (10000 - AngleCompetition(s))) \div 100 + rare \in Int
  BY <1>1, AngleCompetitionType
<1> QED
  BY <1>2, <1>3, CutInt

LEMMA AnglePriceType ==
    ASSUME NEW s, Typed(s)
    PROVE  AnglePrice(s) \in Int
<1> DEFINE gap == 8000 * (Max({s.mean, s.median}) - Min({s.mean, s.median}))
           spread == IF s.median > 0 /\ s.mean > 0
                     THEN Cut(10000 - gap \div s.median) ELSE 5000
           delta == Known(PriceDelta(s), 0)
           trend == CASE delta <= -800 -> 7000 [] delta >= 1000 -> 6200 [] OTHER -> 5000
<1>1. s.median \in Int /\ s.mean \in Int /\ Known(s.margin, 0) \in Int
  BY FieldTypes DEF Known
<1>2. gap \in Int
  <2>1. Max({s.mean, s.median}) \in Int
    BY <1>1, AtLeast
  <2>2. Min({s.mean, s.median}) \in Int
    BY <1>1 DEF Min
  <2> QED
    BY <2>1, <2>2
<1>3. trend \in Int
  OBVIOUS
<1>4. AnglePrice(s) = Cut((50 * Cut(65 * Known(s.margin, 0)) + 25 * spread + 25 * trend) \div 100)
  BY DEF AnglePrice
<1> HIDE DEF gap, trend
<1>5. s.median > 0 => gap \div s.median \in Int
  BY <1>1, <1>2, DivInt
<1>6. spread \in Int
  BY <1>5, CutInt
<1> HIDE DEF spread
<1>7. Cut(65 * Known(s.margin, 0)) \in Int
  BY <1>1, CutInt
<1>8. (50 * Cut(65 * Known(s.margin, 0)) + 25 * spread + 25 * trend) \div 100 \in Int
  BY <1>3, <1>6, <1>7
<1> QED
  BY <1>4, <1>8, CutInt

LEMMA AngleBehavioralType ==
    ASSUME NEW s, Typed(s)
    PROVE  AngleBehavioral(s) \in Int
<1> DEFINE attention == 300 * s.favs + 50 * s.views
           quick == CASE s.gone >= 2 /\ Known(s.ttl, 99) <= 3 -> 2500
                      [] s.gone >= 2 /\ Known(s.ttl, 99) \in 4 .. 7 -> 1200 [] OTHER -> 0
           day == Window(s, "1d", "fresh", s.fresh)
<1>1. attention \in Int /\ quick \in Int
  BY FieldTypes
<1>2. day \in Int
  BY FieldTypes, WindowTypes
<1>3. AngleBehavioral(s) = Cut(AtMostOf(5500, 2 * attention) + quick + AtMostOf(2000, 400 * day))
  BY DEF AngleBehavioral
<1> HIDE DEF attention, quick, day
<1>4. AtMostOf(5500, 2 * attention) \in Int
  BY <1>1 DEF AtMostOf, Min
<1>5. AtMostOf(2000, 400 * day) \in Int
  BY <1>2 DEF AtMostOf, Min
<1> QED
  BY <1>1, <1>3, <1>4, <1>5, CutInt

LEMMA AngleEmergingType ==
    ASSUME NEW s, Typed(s)
    PROVE  AngleEmerging(s) \in Int
<1> DEFINE grown == Max({0, AngleFlow(s) - 100})
           rest == IF Known(StockDelta(s), 0) > 2500 /\ AngleFlow(s) >= 120 THEN 1500 ELSE 0
<1>1. AngleFlow(s) - 100 \in Int /\ Vol7(s) \in Int /\ s.n \in Int /\ rest \in Int
  BY FlowTypes, VolumeTypes, FieldTypes
<1>2. grown \in Int
  <2>1. PICK f \in Int : f = AngleFlow(s) - 100
    BY <1>1
  <2>2. Max({0, f}) \in Int
    <3> HIDE DEF grown, rest
    <3> QED
      BY <2>1 DEF Max
  <2> QED
    BY <2>1, <2>2, Zenon
<1>3. Max({1, s.n}) \in Int /\ Max({1, s.n}) >= 1
  <2>1. s.n \in Int
    BY <1>1
  <2> HIDE DEF grown, rest
  <2> QED
    BY <2>1, AtLeast
<1>4. (4000 * Vol7(s)) \div Max({1, s.n}) \in Int
  BY <1>1, <1>3, DivInt
<1>5. AtMostOf(2500, (4000 * Vol7(s)) \div Max({1, s.n})) \in Int
  BY <1>4, AtMostInt
<1>6. AngleEmerging(s) = Cut(AtMostOf(4000, 35 * grown) + (IF Obscure(s) THEN 1800 ELSE 0)
                             + AtMostOf(2500, (4000 * Vol7(s)) \div Max({1, s.n})) + rest)
  BY DEF AngleEmerging
<1> HIDE DEF grown, rest
<1>7. AtMostOf(4000, 35 * grown) \in Int
  BY <1>2 DEF AtMostOf, Min
<1> QED
  BY <1>1, <1>5, <1>6, <1>7, CutInt

LEMMA AngleProfitType ==
    ASSUME NEW s, Typed(s)
    PROVE  AngleProfit(s) \in Int
<1> DEFINE ease == CASE s.n \in 5 .. 35 -> 7000 [] s.n < 5 -> 4000 [] OTHER -> 5000
           sum == 45 * Cut(70 * Known(s.margin, 0)) + 25 * ease + 15 * AngleDemand(s)
                  + 15 * (10000 - AngleCompetition(s))
<1>1. Known(s.margin, 0) \in Int
  BY FieldTypes DEF Known
<1>2. Cut(70 * Known(s.margin, 0)) \in Int
  BY <1>1, CutInt
<1>3. ease \in Int
  OBVIOUS
<1>4. AngleProfit(s) = Cut(sum \div 100)
  BY DEF AngleProfit
<1> HIDE DEF ease
<1>5. sum \in Int
  BY <1>2, <1>3, AngleDemandType, AngleCompetitionType
<1> HIDE DEF sum
<1> QED
  BY <1>4, <1>5, CutInt

LEMMA AngleAnomalyType ==
    ASSUME NEW s, Typed(s)
    PROVE  AngleAnomaly(s) \in Int
<1> DEFINE gap == IF s.median > 0 /\ s.p25 > 0
                  THEN (9000 * (s.median - s.p25)) \div s.median ELSE 0
           wide == IF Known(s.margin, 0) >= 55 THEN 2000 ELSE 0
           fall == IF Known(PriceDelta(s), 0) <= -1000 THEN 1500 ELSE 0
           few == IF AngleDemand(s) >= 5500 /\ s.n <= 20 THEN 1000 ELSE 0
<1>1. s.median \in Int /\ s.p25 \in Int
  BY FieldTypes
<1>2. s.median > 0 => (9000 * (s.median - s.p25)) \div s.median \in Int
  BY <1>1, DivInt
<1>3. gap \in Int /\ wide \in Int /\ fall \in Int /\ few \in Int
  BY <1>2
<1>4. AngleAnomaly(s) = Cut(AtMostOf(5000, gap) + wide + fall + few)
  BY DEF AngleAnomaly
<1> HIDE DEF gap, wide, fall, few
<1>5. AtMostOf(5000, gap) \in Int
  BY <1>3 DEF AtMostOf, Min
<1> QED
  BY <1>3, <1>4, <1>5, CutInt

LEMMA AngleType ==
    ASSUME NEW s, Typed(s)
    PROVE  AngleComposite(s) \in Int
<1> DEFINE sum == 18 * AngleDemand(s) + 12 * AngleSupply(s) + 16 * AnglePrice(s)
                  + 12 * AngleBehavioral(s) + 12 * AngleEmerging(s) + 18 * AngleProfit(s)
                  + 12 * AngleAnomaly(s)
<1>1. sum \in Int
  BY AngleDemandType, AngleSupplyType, AnglePriceType, AngleBehavioralType, AngleEmergingType,
     AngleProfitType, AngleAnomalyType
<1>2. AngleComposite(s) = Cut(sum \div 100)
  BY DEF AngleComposite
<1> HIDE DEF sum
<1> QED
  BY <1>1, <1>2, CutInt

LEMMA WeighedType ==
    ASSUME NEW s, Typed(s)
    PROVE  Weighed(s, Gauges(s)) \in Int
<1> DEFINE few == CASE s.n < 8 -> 55 [] s.n \in 8 .. 11 -> 75 [] OTHER -> 100
           margin == Times(Cut(70 * Margin(s)), few)
           sum == (26 * margin + 18 * Demand(s) + 14 * Rarity(s) + 12 * Rotation(s)
                   + 10 * SupplyEase(s) + 8 * Stability(s) + 12 * (10000 - Competition(s))) \div 100
<1>1. Cut(70 * Margin(s)) \in Int
  BY MarginType, CutInt
<1>2. few \in Nat
  OBVIOUS
<1>3. Weighed(s, Gauges(s)) = (sum * (7000 + (3 * Confidence(s)) \div 10)) \div 10000
  BY DEF Weighed, Gauges
<1> HIDE DEF few
<1>4. margin \in Int
  BY <1>1, <1>2 DEF Times
<1> HIDE DEF margin
<1>5. sum \in Int
  BY <1>4, DemandType, RarityType, RotationType, SupplyType, StabilityType, CompetitionType
<1> HIDE DEF sum
<1>6. PICK u, v \in Int : u = sum /\ v = 7000 + (3 * Confidence(s)) \div 10
  BY <1>5, ConfidenceType
<1>7. (u * v) \div 10000 \in Int
  OBVIOUS
<1> QED
  BY <1>3, <1>6, <1>7

LEMMA CompositeType ==
    ASSUME NEW s, Typed(s)
    PROVE  Composite(s) \in Int
<1> DEFINE gem == Obscure(s) /\ Demand(s) >= 4500
           typed == Times(Weighed(s, Gauges(s)), TypeBonus(NicheType(s)))
           noted == When(gem, typed, 108)
           found == When(gem /\ (s.median >= 80 \/ Margin(s) >= 50), noted, 105)
           named == When(s.model # Unknown, found, 103)
           famed == When(s.brand \in FamousBrands, named, 96)
<1>1. TypeBonus(NicheType(s)) \in Int
  BY DEF TypeBonus
<1>2. \A x, p \in Int : Times(x, p) \in Int
  BY DEF Times
<1>3. typed \in Int
  BY <1>1, <1>2, WeighedType
<1>4. Composite(s) = Cut(famed)
  BY DEF Composite
<1> HIDE DEF typed
<1>5. noted \in Int
  BY <1>2, <1>3 DEF When
<1> HIDE DEF noted
<1>6. found \in Int
  BY <1>2, <1>5 DEF When
<1> HIDE DEF found
<1>7. named \in Int
  BY <1>2, <1>6 DEF When
<1> HIDE DEF named
<1>8. famed \in Int
  BY <1>2, <1>7 DEF When
<1> HIDE DEF famed
<1> QED
  BY <1>4, <1>8, CutInt

LEMMA MarketType ==
    ASSUME NEW s, Typed(s), Candidate(s)
    PROVE  MarketScore(s) \in Int
<1> DEFINE blend == Cut((45 * Composite(s) + 25 * s.score + 30 * AngleComposite(s)) \div 100)
           weak == Cut(When(WeakSignal(s), blend, 108))
           intl == Cut(When(s.intl, weak, 104))
           more == IF s.variants >= 3 THEN 200 ELSE 0
<1>1. \A x, p \in Int : Times(x, p) \in Int
  BY DEF Times
<1>2. s.score \in Int
  BY FieldTypes DEF Candidate
<1>3. (45 * Composite(s) + 25 * s.score + 30 * AngleComposite(s)) \div 100 \in Int
  BY <1>2, CompositeType, AngleType
<1>4. blend \in Int
  BY <1>3, CutInt
<1>5. MarketScore(s) = Cut(intl + more)
  BY DEF MarketScore
<1> HIDE DEF blend
<1>6. When(WeakSignal(s), blend, 108) \in Int
  BY <1>1, <1>4 DEF When
<1>7. weak \in Int
  BY <1>6, CutInt
<1> HIDE DEF weak
<1>8. When(s.intl, weak, 104) \in Int
  BY <1>1, <1>7 DEF When
<1>9. intl \in Int
  BY <1>8, CutInt
<1> HIDE DEF intl
<1>10. intl + more \in Int
  BY <1>9
<1> HIDE DEF more
<1> QED
  BY <1>5, <1>10, CutInt

-----------------------------------------------------------------------------
(* What the history does to a score. *)

High == {x \in Int : x >= MinScore}      \* what a niche is recorded with

LEMMA LastOnes ==
    ASSUME NEW T, NEW h \in Seq(T)
    PROVE  /\ LastFive(h) \in Seq(T)
           /\ h # <<>> => Len(LastFive(h)) \in Nat \ {0}
<1>1. PICK n \in Nat : n = Len(h)
  OBVIOUS
<1>2. PICK m \in Int : m = Max({1, n - 4}) /\ m >= 1 /\ (n >= 1 => m <= n)
  <2>1. PICK x \in Int : x = n - 4
    BY <1>1
  <2>2. Max({1, x}) \in Int /\ Max({1, x}) >= 1 /\ (Max({1, x}) = 1 \/ Max({1, x}) = x)
    BY <2>1 DEF Max
  <2> QED
    BY <1>1, <2>1, <2>2
<1>3. \A i \in 1 .. n : h[i] \in T
  BY <1>1, ElementOfSeq
<1>4. \A i \in m .. n : h[i] \in T
  BY <1>1, <1>2, <1>3
<1>5. /\ SubSeq(h, m, n) \in Seq(T)
      /\ Len(SubSeq(h, m, n)) = IF m <= n THEN n - m + 1 ELSE 0
  <2>1. n \in Int
    BY <1>1
  <2>2. m \in Int /\ n \in Int /\ \A i \in m .. n : h[i] \in T
    BY <1>2, <1>4, <2>1
  <2>3. SubSeq(h, m, n) \in Seq(T)
    BY <2>2, SubSeqProperties
  <2>4. Len(SubSeq(h, m, n)) = IF m <= n THEN n - m + 1 ELSE 0
    BY <2>2, SubSeqProperties
  <2> QED
    BY <2>3, <2>4
<1>6. LastFive(h) = SubSeq(h, m, n)
  BY <1>1, <1>2 DEF LastFive
<1>7. h # <<>> => n >= 1
  BY <1>1
<1>8. h # <<>> => Len(SubSeq(h, m, n)) = n - m + 1 /\ n - m + 1 \in Nat \ {0}
  BY <1>1, <1>2, <1>5, <1>7
<1> QED
  BY <1>5, <1>6, <1>8

LEMMA Averaged ==
    ASSUME NEW sum \in Int, NEW m \in Int, NEW n \in Nat \ {0}, sum >= m * n
    PROVE  sum \div n \in Int /\ sum \div n >= m
<1>1. PICK a \in Int : a = sum \div n /\ n * a <= sum /\ sum < n * a + n
  OBVIOUS
<1>2. ASSUME a < m
      PROVE  FALSE
  <2>1. PICK u, v \in Int : u = n * a /\ v = m * n
    OBVIOUS
  <2>2. v - u = (m - a) * n /\ (m - a) * n >= n
    BY <1>1, <1>2, <2>1
  <2> QED
    BY <1>1, <2>1, <2>2
<1> QED
  BY <1>1, <1>2

LEMMA SumHigh ==
    ASSUME NEW q \in Seq(High), Len(q) \in Nat \ {0}
    PROVE  /\ FoldSeq(LAMBDA x, y : x + y, 0, q) \div Len(q) \in Int
           /\ FoldSeq(LAMBDA x, y : x + y, 0, q) \div Len(q) >= MinScore
<1>1. q \in Seq(Int) /\ \A i \in DOMAIN q : q[i] >= MinScore
  <2>1. \A i \in 1 .. Len(q) : q[i] \in High
    BY ElementOfSeq
  <2>2. \A i \in 1 .. Len(q) : q[i] \in Int /\ q[i] >= MinScore
    BY <2>1 DEF High
  <2> QED
    BY <2>2
<1>2. PICK m \in Int : m = MinScore
  BY LineAssumption
<1>3. PICK sum \in Int : sum = FoldSeq(LAMBDA x, y : x + y, 0, q) /\ sum >= m * Len(q)
  BY <1>1, <1>2, SumIs
<1>4. PICK n \in Nat \ {0} : n = Len(q)
  OBVIOUS
<1>5. sum \div n \in Int /\ sum \div n >= m
  <2>1. sum >= m * n
    BY <1>3, <1>4
  <2> QED
    BY <2>1, Averaged
<1> QED
  BY <1>2, <1>3, <1>4, <1>5

LEMMA Adjusted ==
    ASSUME NEW h \in Seq(High), NEW score \in Int
    PROVE  /\ Adjustment(h, score) \in Int
           /\ score < MinScore => Adjustment(h, score) <= 0
<1>1. CASE h = <<>>
  <2>1. Adjustment(h, score) = 0
    BY <1>1 DEF Adjustment
  <2> QED
    BY <2>1
<1>2. CASE h # <<>>
  <2> DEFINE recent == SubSeq(h, Max({1, Len(h) - 4}), Len(h))
             avg == FoldSeq(LAMBDA x, y : x + y, 0, recent) \div Len(recent)
             delta == score - avg
  <2>1. recent \in Seq(High) /\ Len(recent) \in Nat \ {0}
    BY <1>2, LastOnes DEF LastFive
  <2>2. Adjustment(h, score) =
            CASE delta >= 800 -> Min({600, delta \div 4})
              [] delta <= -1000 -> Max({-800, delta \div 5})
              [] OTHER -> IF avg >= 7000 /\ delta \in -499 .. 499 THEN 200 ELSE 0
    BY <1>2 DEF Adjustment
  <2> HIDE DEF recent
  <2>3. avg \in Int /\ avg >= MinScore
    BY <2>1, SumHigh
  <2> HIDE DEF avg
  <2>4. delta \in Int /\ (score < MinScore => delta < 0)
    BY <2>3, LineAssumption
  <2>5. avg >= 7000 /\ delta \in -499 .. 499 => score >= MinScore
    BY <2>3, LineAssumption
  <2> HIDE DEF delta
  <2>6. Min({600, delta \div 4}) \in Int
    <3>1. PICK x \in Int : x = delta \div 4
      BY <2>4
    <3>2. Min({600, x}) \in Int
      BY <3>1 DEF Min
    <3> QED
      BY <3>1, <3>2
  <2>7. Max({-800, delta \div 5}) \in Int /\ (delta < 0 => Max({-800, delta \div 5}) <= 0)
    <3>1. PICK x \in Int : x = delta \div 5 /\ (delta < 0 => x <= 0)
      BY <2>4
    <3>2. PICK y \in Int : y = -800
      OBVIOUS
    <3>3. Max({y, x}) = IF y <= x THEN x ELSE y
      <4>1. x \in Int /\ y \in Int
        BY <3>1, <3>2
      <4> QED
        BY <4>1, Pair, Zenon
    <3> QED
      BY <3>1, <3>2, <3>3
  <2>8. CASE delta >= 800
    <3>1. Adjustment(h, score) = Min({600, delta \div 4})
      BY <2>2, <2>4, <2>8
    <3> QED
      BY <2>4, <2>6, <2>8, <3>1
  <2>9. CASE ~(delta >= 800) /\ delta <= -1000
    <3>1. Adjustment(h, score) = Max({-800, delta \div 5})
      BY <2>2, <2>9
    <3> QED
      BY <2>4, <2>7, <2>9, <3>1
  <2>10. CASE ~(delta >= 800) /\ ~(delta <= -1000)
    <3>1. Adjustment(h, score) = IF avg >= 7000 /\ delta \in -499 .. 499 THEN 200 ELSE 0
      BY <2>2, <2>10
    <3> QED
      BY <2>5, <3>1, LineAssumption
  <2> QED
    BY <2>8, <2>9, <2>10
<1> QED
  BY <1>1, <1>2

LEMMA CutBelow == \A x \in Int : Cut(x) \in Int /\ (Cut(x) = 0 \/ Cut(x) <= x)
  BY DEF Cut, Min, Max

\* The history lifts no score over the line.
LEMMA LearntNeverLifts ==
    ASSUME NEW h \in Seq(High), NEW score \in Int
    PROVE  /\ Learnt(score, h) \in Int
           /\ Learnt(score, h) >= MinScore => score >= MinScore
<1>1. PICK a \in Int : a = Adjustment(h, score) /\ (score < MinScore => a <= 0)
  BY Adjusted
<1>2. Cut(score + a) \in Int /\ (Cut(score + a) = 0 \/ Cut(score + a) <= score + a)
  BY <1>1, CutBelow
<1>3. Learnt(score, h) = Cut(score + a)
  BY <1>1 DEF Learnt
<1>4. PICK m \in Int : m = MinScore /\ m >= 1
  BY LineAssumption
<1>5. Cut(score + a) >= m => score >= m
  BY <1>1, <1>2, <1>4
<1> QED
  BY <1>2, <1>3, <1>4, <1>5

LEMMA AtMostBelow ==
    ASSUME NEW x \in Int, NEW y \in Int
    PROVE  AtMostOf(x, y) \in Int /\ AtMostOf(x, y) <= x
<1>1. Min({x, y}) = IF x <= y THEN x ELSE y
  BY Pair
<1> QED
  BY <1>1 DEF AtMostOf

\* What is no weak score is above the line.
LEMMA NotWeak ==
    ASSUME NEW score \in Int, Priority(score) # "weak"
    PROVE  score >= MinScore
<1>1. PICK m \in Int : m = MinScore /\ m <= 6501
  BY LineAssumption
<1>2. ASSUME score < m
      PROVE  Priority(score) = "weak"
  <2>1. ~(score >= 8500) /\ score \notin 7000 .. 8499 /\ score \notin MinScore .. 6999
    BY <1>1, <1>2
  <2> QED
    BY <2>1 DEF Priority
<1> QED
  BY <1>1, <1>2

\* A niche of which there is an opportunity is over the line by its market alone,
\* and what is recorded of it is.
LEMMA OpportunityStrong ==
    ASSUME NEW s, Typed(s), Candidate(s), NEW h \in Seq(High), OpportunityOf(s, h) # Unknown
    PROVE  MarketScore(s) >= MinScore /\ OpportunityOf(s, h).score \in High
<1>1. PICK x, l \in Int : x = MarketScore(s) /\ l = Learnt(x, h) /\ (l >= MinScore => x >= MinScore)
  BY MarketType, LearntNeverLifts
<1>2. PICK c \in Int : c = IF ConfidenceInsight(s) < 4000 THEN 6800 ELSE 10000
  OBVIOUS
<1>3. AtMostOf(l, c) \in Int /\ AtMostOf(l, c) <= l
  <2>1. l \in Int /\ c \in Int
    BY <1>1, <1>2
  <2> QED
    BY <2>1, AtMostBelow, Zenon
<1>4. Score(s, h) = AtMostOf(l, c)
  BY <1>1, <1>2 DEF Score
<1>5. /\ OpportunityOf(s, h) = Opportunity(s, Score(s, h))
      /\ Priority(Score(s, h)) # "weak"
  BY DEF OpportunityOf, Detected
<1>6. Score(s, h) \in Int /\ Score(s, h) >= MinScore
  BY <1>3, <1>4, <1>5, NotWeak
<1>7. OpportunityOf(s, h).score = Score(s, h)
  BY <1>5 DEF Opportunity
<1>8. MarketScore(s) >= MinScore
  BY <1>1, <1>3, <1>4, <1>6, LineAssumption
<1> QED
  BY <1>6, <1>7, <1>8 DEF High

-----------------------------------------------------------------------------

EngineInv ==
    /\ market = [k \in Niches |-> market[k]]
    /\ \A k \in Niches : Typed(market[k]) /\ market[k].key = k
    /\ learnt \in [Niches -> Seq(High)]
    /\ picked \subseteq Niches
    /\ WeakNeverLearnt

LEMMA Keyed ==
    ASSUME NEW s \in Markets, NEW k \in Niches
    PROVE  Typed([s EXCEPT !.key = k]) /\ [s EXCEPT !.key = k].key = k
<1>1. s \in Snapshot /\ \A w \in DOMAIN s.win : IsWindow(s.win[w])
  BY MarketAssumption
<1>2. [s EXCEPT !.key = k] \in Snapshot /\ [s EXCEPT !.key = k].key = k
  BY <1>1 DEF Snapshot
<1>3. [s EXCEPT !.key = k].win = s.win
  BY <1>1 DEF Snapshot
<1> QED
  BY <1>1, <1>2, <1>3 DEF Typed

LEMMA EngineStart ==
    ASSUME EngineInit
    PROVE  EngineInv
<1>1. PICK f \in [Niches -> Markets] : market = [k \in Niches |-> [f[k] EXCEPT !.key = k]]
  BY DEF EngineInit
<1>2. ASSUME NEW k \in Niches
      PROVE  Typed(market[k]) /\ market[k].key = k
  <2>1. f[k] \in Markets /\ market[k] = [f[k] EXCEPT !.key = k]
    BY <1>1
  <2> QED
    BY <2>1, Keyed
<1>3. learnt \in [Niches -> Seq(High)] /\ picked = {}
  BY DEF EngineInit
<1>4. market = [k \in Niches |-> market[k]]
  BY <1>1
<1> QED
  BY <1>2, <1>3, <1>4 DEF EngineInv, WeakNeverLearnt

LEMMA DetectStep ==
    ASSUME EngineInv, Detect
    PROVE  EngineInv'
<1> DEFINE op == [k \in Niches |-> OpportunityOf(market[k], learnt[k])]
<1>1. PICK recent \in SUBSET {k \in Niches : learnt[k] # <<>>} :
        LET found == {k \in Niches \ recent : Candidate(market[k]) /\ op[k] # Unknown}
        IN  \E ranked \in Ranked({market[k] : k \in found}, LAMBDA s : RankKey(s, op[s.key])) :
            /\ picked' = {s.key : s \in ToSet(Select(ranked, Limit))}
            /\ learnt' = [k \in Niches |-> IF k \in picked' THEN LastFive(Append(learnt[k], op[k].score))
                                           ELSE learnt[k]]
            /\ UNCHANGED <<market, moves>>
  BY Zenon DEF Detect, DetectAmong
<1> DEFINE found == {k \in Niches \ recent : Candidate(market[k]) /\ op[k] # Unknown}
           T == {market[k] : k \in found}
<1>2. PICK ranked \in Ranked(T, LAMBDA s : RankKey(s, op[s.key])) :
            /\ picked' = {s.key : s \in ToSet(Select(ranked, Limit))}
            /\ learnt' = [k \in Niches |-> IF k \in picked' THEN LastFive(Append(learnt[k], op[k].score))
                                           ELSE learnt[k]]
            /\ UNCHANGED <<market, moves>>
  BY <1>1, Zenon
<1>3. ASSUME NEW k \in found
      PROVE  /\ k \in Niches /\ MarketScore(market[k]) >= MinScore
             /\ op[k].score \in High
  <2>1. k \in Niches /\ Candidate(market[k]) /\ OpportunityOf(market[k], learnt[k]) # Unknown
    OBVIOUS
  <2>2. Typed(market[k]) /\ learnt[k] \in Seq(High)
    BY <2>1 DEF EngineInv
  <2>3. op[k] = OpportunityOf(market[k], learnt[k])
    BY <2>1
  <2> QED
    BY <2>1, <2>2, <2>3, OpportunityStrong
<1>4. ranked \in Seq(T)
  <2>1. IsFiniteSet(found)
    <3>1. found \in SUBSET Niches
      OBVIOUS
    <3> HIDE DEF found
    <3> QED
      BY <3>1, FS_Subset, MarketAssumption
  <2> HIDE DEF found
  <2>2. IsFiniteSet(T) /\ Cardinality(T) \in Nat
    <3> DEFINE f == [k \in found |-> market[k]]
    <3>1. f \in Surjection(found, T)
      BY DEF Surjection
    <3> HIDE DEF f, T
    <3> QED
      BY <2>1, <3>1, FS_Surjection, FS_CardinalityType
  <2>3. ranked \in [1 .. Cardinality(T) -> T]
    <3> HIDE DEF T, op
    <3>1. ranked \in SetToSeqs(T)
      BY <1>2 DEF Ranked
    <3> QED
      BY <3>1 DEF SetToSeqs
  <2> HIDE DEF T
  <2>4. PICK n \in Nat : n = Cardinality(T)
    BY <2>2
  <2>5. ranked \in [1 .. n -> T]
    BY <2>3, <2>4
  <2> QED
    BY <2>4, <2>5
<1>5. ToSet(Select(ranked, Limit)) \subseteq T
  <2> HIDE DEF T
  <2> QED
    BY <1>4, LineAssumption, SelectedOf
<1>6. \A s \in T : s.key \in found
  BY DEF EngineInv
<1> HIDE DEF found, T, op
<1>7. picked' \subseteq found
  BY <1>2, <1>5, <1>6
<1>8. market' = market
  BY <1>2
<1>9. ASSUME NEW k \in Niches, k \in picked'
      PROVE  LastFive(Append(learnt[k], op[k].score)) \in Seq(High)
  <2>1. learnt[k] \in Seq(High) /\ op[k].score \in High
    BY <1>3, <1>7, <1>9 DEF EngineInv
  <2>2. Append(learnt[k], op[k].score) \in Seq(High)
    BY <2>1
  <2> QED
    BY <2>2, LastOnes
<1>10. learnt' \in [Niches -> Seq(High)]
  BY <1>2, <1>9 DEF EngineInv
<1>11. WeakNeverLearnt'
  BY <1>3, <1>7, <1>8 DEF WeakNeverLearnt
<1>12. picked' \subseteq Niches
  BY <1>3, <1>7
<1> QED
  BY <1>8, <1>10, <1>11, <1>12 DEF EngineInv

LEMMA MoveStep ==
    ASSUME EngineInv, Move
    PROVE  EngineInv'
<1>1. PICK k \in Niches, s \in Markets : market' = [market EXCEPT ![k] = [s EXCEPT !.key = k]]
  BY DEF Move
<1>2. picked' = {} /\ learnt' = learnt
  BY DEF Move
<1>3. PICK t : t = [s EXCEPT !.key = k] /\ Typed(t) /\ t.key = k
  BY Keyed
<1>4. market' = [j \in Niches |-> IF j = k THEN t ELSE market[j]]
  <2>1. market' = [market EXCEPT ![k] = t]
    BY <1>1, <1>3
  <2> QED
    BY <2>1 DEF EngineInv
<1>5. \A j \in Niches : Typed(market'[j]) /\ market'[j].key = j
  BY <1>3, <1>4 DEF EngineInv
<1>6. market' = [j \in Niches |-> market'[j]]
  BY <1>4
<1>7. \A j \in Niches : Typed(market[j])' /\ (market[j].key = j)'
  BY <1>5 DEF Typed
<1> QED
  BY <1>2, <1>6, <1>7 DEF EngineInv, WeakNeverLearnt

\* What is recorded of a niche never lifts a market over the line that is under it by
\* itself (learning_score_adjustment, record_opportunity_scores).
THEOREM WeakNeverLearntAlways == EngineSpec => []WeakNeverLearnt
<1>1. EngineInit => EngineInv
  BY EngineStart
<1>2. EngineInv /\ [EngineNext]_ovars => EngineInv'
  <2>1. EngineInv /\ Detect => EngineInv'
    BY DetectStep
  <2>2. EngineInv /\ Move => EngineInv'
    BY MoveStep
  <2>3. EngineInv /\ UNCHANGED ovars => EngineInv'
    BY DEF ovars, EngineInv, WeakNeverLearnt, Typed
  <2> QED
    BY <2>1, <2>2, <2>3 DEF EngineNext
<1>3. EngineInv => WeakNeverLearnt
  BY DEF EngineInv
<1> QED
  BY <1>1, <1>2, <1>3, PTL DEF EngineSpec

=============================================================================
