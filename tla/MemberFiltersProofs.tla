-------------------------- MODULE MemberFiltersProofs --------------------------
(***************************************************************************)
(* What is proved of MemberFilters for every number of threads and every   *)
(* table of plans: its types, the bound on the filters beyond the quota,   *)
(* and that the dashboard shows the filters once a change was followed by  *)
(* a synchronisation that ran alone.                                       *)
(***************************************************************************)
EXTENDS MemberFilters, FiniteSetTheorems, TLAPS

Before == {"align", "count", "insert", "change"}  \* nothing of the change is done
After == {"read", "edit", "send", "save", "respond", "look", "update"}
Pc == {"idle"} \cup Before \cup After

View == UNION {[D -> Filter] : D \in SUBSET FilterId}

Call == [pc : Pc, op : Changes \cup Asks, id : 0 .. MaxFilters, limit : Nat,
         view : View, msg : Nat, alone : BOOLEAN]

FiltersTypeInv ==
    /\ MembersTypeOK /\ th \in [Thread -> Call] /\ mine \in View /\ known \in Nat
    /\ \E n \in Nat : DOMAIN boards = 1 .. n
    /\ \A t \in Thread : /\ th[t].pc \in {"edit", "save"} => th[t].msg \in DOMAIN boards
                         /\ th[t].pc = "change" => th[t].op \in Changes

-----------------------------------------------------------------------------
(* One thread moves on. *)

Same(t) == \A u \in Thread \ {t} : th'[u] = th[u]

LEMMA PcSet ==
    ASSUME th \in [Thread -> Call], NEW t \in Thread, NEW p \in Pc, th' = [th EXCEPT ![t].pc = p]
    PROVE  /\ th' \in [Thread -> Call] /\ Same(t) /\ th'[t].pc = p
           /\ th'[t].view = th[t].view /\ th'[t].msg = th[t].msg /\ th'[t].alone = th[t].alone
           /\ th'[t].limit = th[t].limit
  BY DEF Call, Same

LEMMA PcLimitSet ==
    ASSUME th \in [Thread -> Call], NEW t \in Thread, NEW p \in Pc, NEW n \in Nat,
           th' = [th EXCEPT ![t].pc = p, ![t].limit = n]
    PROVE  /\ th' \in [Thread -> Call] /\ Same(t) /\ th'[t].pc = p /\ th'[t].limit = n
           /\ th'[t].alone = th[t].alone
  BY DEF Call, Same

LEMMA PcViewSet ==
    ASSUME th \in [Thread -> Call], NEW t \in Thread, NEW p \in Pc, NEW v \in View,
           th' = [th EXCEPT ![t].pc = p, ![t].view = v]
    PROVE  /\ th' \in [Thread -> Call] /\ Same(t) /\ th'[t].pc = p /\ th'[t].view = v
           /\ th'[t].msg = th[t].msg /\ th'[t].alone = th[t].alone
  BY DEF Call, Same

LEMMA PcMsgSet ==
    ASSUME th \in [Thread -> Call], NEW t \in Thread, NEW p \in Pc, NEW m \in Nat,
           th' = [th EXCEPT ![t].pc = p, ![t].msg = m]
    PROVE  /\ th' \in [Thread -> Call] /\ Same(t) /\ th'[t].pc = p /\ th'[t].msg = m
           /\ th'[t].view = th[t].view /\ th'[t].alone = th[t].alone
  BY DEF Call, Same

LEMMA PcViewMsgSet ==
    ASSUME th \in [Thread -> Call], NEW t \in Thread, NEW p \in Pc, NEW v \in View, NEW m \in Nat,
           th' = [th EXCEPT ![t].pc = p, ![t].view = v, ![t].msg = m]
    PROVE  /\ th' \in [Thread -> Call] /\ Same(t) /\ th'[t].pc = p /\ th'[t].view = v
           /\ th'[t].msg = m /\ th'[t].alone = th[t].alone
  BY DEF Call, Same

LEMMA NoCallType == NoCall \in Call /\ NoCall.pc = "idle"
<1>1. <<>> \in View
  <2>1. <<>> \in [{} -> Filter]
    OBVIOUS
  <2>2. {} \in SUBSET FilterId
    OBVIOUS
  <2> QED
    BY <2>1, <2>2 DEF View
<1> QED
  BY <1>1, BoundsAssumption DEF NoCall, Call, Pc, Asks

LEMMA IdleSet ==
    ASSUME th \in [Thread -> Call], NEW t \in Thread, th' = [th EXCEPT ![t] = NoCall]
    PROVE  th' \in [Thread -> Call] /\ Same(t) /\ th'[t].pc = "idle"
  BY NoCallType DEF Same

(* Nobody is alone any more, and nothing else has changed. *)
LEMMA DisturbedFact ==
    ASSUME th \in [Thread -> Call]
    PROVE  /\ Disturbed \in [Thread -> Call]
           /\ \A u \in Thread : /\ Disturbed[u].pc = th[u].pc /\ Disturbed[u].alone = FALSE
                                /\ Disturbed[u].limit = th[u].limit
                                /\ Disturbed[u].msg = th[u].msg /\ Disturbed[u].op = th[u].op
  BY DEF Disturbed, Call

(* A click arrives. *)
LEMMA ArrivesFact ==
    ASSUME th \in [Thread -> Call], NEW t \in Thread, Arrives(t)
    PROVE  /\ th' \in [Thread -> Call] /\ th[t].pc = "idle" /\ th'[t].pc \in {"align", "change"}
           /\ BusyThreads = {} => Same(t)
           /\ BusyThreads # {} => \A u \in Thread : th'[u].alone = FALSE
           /\ \A u \in Thread \ {t} : /\ th'[u].pc = th[u].pc /\ th'[u].limit = th[u].limit
                                      /\ th'[u].msg = th[u].msg /\ th'[u].op = th[u].op
           /\ turns < MaxTurns /\ turns' = turns + 1
           /\ UNCHANGED <<plan, mine, made, boards, known, doubt>>
<1> DEFINE busy == IF BusyThreads = {} THEN th ELSE Disturbed
<1>1. busy \in [Thread -> Call]
  BY DisturbedFact
<1> DEFINE p(op) == IF op \in Asks THEN "align" ELSE "change"
           a == BusyThreads = {}
<1>2. PICK op \in Changes \cup Asks, i \in FilterId, b \in 0 .. MaxTurns :
        th' = [busy EXCEPT ![t] =
                 [pc |-> p(op), op |-> op, id |-> i, limit |-> 0, view |-> <<>>, msg |-> b, alone |-> a]]
  BY DEF Arrives
<1> DEFINE c == [pc |-> p(op), op |-> op, id |-> i, limit |-> 0, view |-> <<>>, msg |-> b, alone |-> a]
<1>3. p(op) \in Pc /\ p(op) \in {"align", "change"} /\ a \in BOOLEAN /\ b \in Nat
      /\ i \in 0 .. MaxFilters
  BY BoundsAssumption DEF Pc, Before, FilterId
<1>5. <<>> \in View
  BY NoCallType DEF NoCall, Call
<1> HIDE DEF p, a
<1>6. c \in Call /\ c.pc = p(op) /\ c.alone = a
  BY <1>3, <1>5 DEF Call
<1> HIDE DEF c
<1>7. th' = [busy EXCEPT ![t] = c]
  BY <1>2 DEF c
<1>8. th'[t] = c /\ \A u \in Thread \ {t} : th'[u] = busy[u]
  BY <1>1, <1>7
<1>9. th' \in [Thread -> Call]
  BY <1>1, <1>6, <1>7
<1>10. BusyThreads = {} => Same(t)
  BY <1>8 DEF Same
<1>11. BusyThreads # {} => \A u \in Thread : th'[u].alone = FALSE
  BY <1>6, <1>8, DisturbedFact DEF a
<1>12. \A u \in Thread \ {t} : /\ th'[u].pc = th[u].pc /\ th'[u].limit = th[u].limit
                              /\ th'[u].msg = th[u].msg /\ th'[u].op = th[u].op
  BY <1>8, DisturbedFact
<1> QED
  BY <1>3, <1>6, <1>8, <1>9, <1>10, <1>11, <1>12 DEF Arrives, Spent

-----------------------------------------------------------------------------
(* Types *)

LEMMA ViewFact ==
    ASSUME NEW v, NEW D \in SUBSET FilterId, v \in [D -> Filter]
    PROVE  v \in View
  BY DEF View

LEMMA ViewIs ==
    ASSUME NEW v \in View
    PROVE  DOMAIN v \subseteq FilterId /\ v \in [DOMAIN v -> Filter]
  BY DEF View

(* The rows after the change of one of them. *)
LEMMA ChangedFact ==
    ASSUME mine \in View, NEW op \in Changes, NEW i \in DOMAIN mine
    PROVE  Changed(op, i) \in View /\ DOMAIN Changed(op, i) \subseteq DOMAIN mine
<1>1. DOMAIN mine \subseteq FilterId /\ mine \in [DOMAIN mine -> Filter]
  BY ViewIs
<1>2. CASE op \in {"delete", "drop"}
  <2>1. Changed(op, i) = [j \in DOMAIN mine \ {i} |-> mine[j]]
    BY <1>2 DEF Changed, Restrict
  <2> QED
    BY <1>1, <2>1, ViewFact
<1>3. CASE op \in {"toggle", "pick", "click"}
  <2>1. Changed(op, i) = [mine EXCEPT ![i].on = ~@]
    BY <1>3 DEF Changed
  <2>2. PICK r \in Filter : r = mine[i]
    BY <1>1
  <2>3. PICK b \in BOOLEAN : b = ~r.on
    OBVIOUS
  <2>4. [r EXCEPT !.on = b] \in Filter
    BY DEF Filter
  <2>5. Changed(op, i) = [mine EXCEPT ![i] = [r EXCEPT !.on = b]]
    BY <2>1, <2>2, <2>3
  <2>6. Changed(op, i) \in [DOMAIN mine -> Filter]
    BY <1>1, <2>4, <2>5
  <2> QED
    BY <1>1, <2>6, ViewFact
<1>4. CASE op = "edit"
  <2>1. Changed(op, i) = [mine EXCEPT ![i].text = "new"]
    BY <1>4 DEF Changed
  <2>2. Changed(op, i) \in [DOMAIN mine -> Filter]
    BY <1>1, <2>1 DEF Filter
  <2> QED
    BY <1>1, <2>2, ViewFact
<1> QED
  BY <1>2, <1>3, <1>4 DEF Changes

LEMMA RoleFact ==
    ASSUME MembersTypeOK, NEW role \in DOMAIN Limits \cup {"none"}
    PROVE  /\ WithRole(role) \in [name : DOMAIN Limits, active : BOOLEAN]
           /\ PlanOfRole(role) \in DOMAIN Limits
  BY DEF MembersTypeOK, WithRole, PlanOfRole

(* A thread that goes on, and leaves the dashboards alone. *)
LEMMA SavesStay ==
    ASSUME FiltersTypeInv, NEW t \in Thread, Same(t), UNCHANGED boards,
           th'[t].pc \in {"edit", "save"} => th'[t].msg \in DOMAIN boards, th'[t].pc # "change"
    PROVE  \A u \in Thread : /\ th'[u].pc \in {"edit", "save"} => th'[u].msg \in DOMAIN boards'
                             /\ th'[u].pc = "change" => th'[u].op \in Changes
  BY DEF FiltersTypeInv, Same

LEMMA ArrivesOp ==
    ASSUME th \in [Thread -> Call], NEW t \in Thread, Arrives(t), th'[t].pc = "change"
    PROVE  th'[t].op \in Changes
<1>1. Disturbed \in [Thread -> Call]
  BY DisturbedFact
<1>2. PICK op \in Changes \cup Asks, i \in FilterId, b \in 0 .. MaxTurns :
        th'[t] = [pc |-> IF op \in Asks THEN "align" ELSE "change", op |-> op, id |-> i,
                  limit |-> 0, view |-> <<>>, msg |-> b, alone |-> BusyThreads = {}]
  BY <1>1 DEF Arrives
<1>3. th'[t].op = op /\ th'[t].pc = IF op \in Asks THEN "align" ELSE "change"
  BY <1>2
<1> QED
  BY <1>3

LEMMA ArrivesType ==
    ASSUME FiltersTypeInv, NEW t \in Thread, Arrives(t)
    PROVE  FiltersTypeInv'
<1>1. /\ th' \in [Thread -> Call] /\ turns' \in 0 .. MaxTurns
      /\ UNCHANGED <<plan, mine, made, boards, known, doubt>>
  <2>1. /\ th' \in [Thread -> Call] /\ turns < MaxTurns /\ turns' = turns + 1
        /\ UNCHANGED <<plan, mine, made, boards, known, doubt>>
    BY ArrivesFact DEF FiltersTypeInv
  <2>2. turns \in 0 .. MaxTurns /\ MaxTurns \in Nat
    BY BoundsAssumption DEF FiltersTypeInv, MembersTypeOK
  <2> QED
    BY <2>1, <2>2
<1>3. th'[t].pc = "change" => th'[t].op \in Changes
  BY ArrivesOp DEF FiltersTypeInv
<1>4. ASSUME NEW u \in Thread, u # t, th'[u].pc = "change" PROVE th'[u].op \in Changes
  BY <1>4, ArrivesFact DEF FiltersTypeInv
<1>2. ASSUME NEW u \in Thread, th'[u].pc \in {"edit", "save"} PROVE th'[u].msg \in DOMAIN boards
  <2>1. u # t /\ th[u].pc = th'[u].pc
    BY <1>2, ArrivesFact DEF FiltersTypeInv
  <2>2. th'[u].msg = th[u].msg
    BY <2>1, ArrivesFact DEF FiltersTypeInv
  <2> QED
    BY <1>2, <2>1, <2>2 DEF FiltersTypeInv
<1> QED
  BY <1>1, <1>2, <1>3, <1>4 DEF FiltersTypeInv, MembersTypeOK

LEMMA AlignPlanType ==
    ASSUME FiltersTypeInv, NEW t \in Thread, AlignPlan(t)
    PROVE  FiltersTypeInv'
<1>1. PICK role \in DOMAIN Limits \cup {"none"} :
        /\ plan' = WithRole(role) /\ UNCHANGED doubt
        /\ \/ th' = [th EXCEPT ![t].pc = "count", ![t].limit = Limits[PlanOfRole(role)]]
           \/ th' = [th EXCEPT ![t] = NoCall]
  BY DEF AlignPlan, Refused
<1>2. plan' \in [name : DOMAIN Limits, active : BOOLEAN] /\ Limits[PlanOfRole(role)] \in Nat
  BY <1>1, RoleFact, LimitsAssumption DEF FiltersTypeInv
<1>3. "count" \in Pc
  BY DEF Pc, Before
<1>4. th' \in [Thread -> Call] /\ Same(t) /\ th'[t].pc \in {"count", "idle"}
  BY <1>1, <1>2, <1>3, PcLimitSet, IdleSet DEF FiltersTypeInv
<1>5. UNCHANGED <<mine, made, boards, known, turns>>
  BY DEF AlignPlan
<1> QED
  BY <1>1, <1>2, <1>4, <1>5, SavesStay DEF FiltersTypeInv, MembersTypeOK

LEMMA CountFiltersType ==
    ASSUME FiltersTypeInv, NEW t \in Thread, CountFilters(t)
    PROVE  FiltersTypeInv'
<1>1. "insert" \in Pc
  BY DEF Pc, Before
<1>2. th' \in [Thread -> Call] /\ Same(t) /\ th'[t].pc \in {"insert", "idle"} /\ UNCHANGED doubt
  BY <1>1, PcSet, IdleSet DEF FiltersTypeInv, CountFilters, Goes, Refused
<1>3. UNCHANGED <<plan, mine, made, boards, known, turns>>
  BY DEF CountFilters
<1> QED
  BY <1>2, <1>3, SavesStay DEF FiltersTypeInv, MembersTypeOK

LEMMA InsertFilterType ==
    ASSUME FiltersTypeInv, NEW t \in Thread, InsertFilter(t)
    PROVE  FiltersTypeInv'
<1>1. "read" \in Pc
  BY DEF Pc, After
<1>2. th' \in [Thread -> Call] /\ Same(t) /\ th'[t].pc = "read" /\ UNCHANGED doubt
  BY <1>1, PcSet DEF FiltersTypeInv, InsertFilter, Goes
<1>3. made' = made + 1 /\ made' \in 0 .. MaxFilters /\ made' \in FilterId
  BY BoundsAssumption DEF InsertFilter, FiltersTypeInv, MembersTypeOK, FilterId
<1>4. DOMAIN mine \subseteq FilterId /\ mine \in [DOMAIN mine -> Filter]
  BY ViewIs DEF FiltersTypeInv
<1>5. mine' \in [DOMAIN mine \cup {made'} -> Filter]
  BY <1>4 DEF InsertFilter, Filter
<1>6. mine' \in View
  BY <1>3, <1>4, <1>5, ViewFact
<1>7. DOMAIN mine' \subseteq 1 .. made'
  BY <1>3, <1>5 DEF FiltersTypeInv, MembersTypeOK
<1>8. UNCHANGED <<plan, boards, known, turns>>
  BY DEF InsertFilter
<1> QED
  BY <1>2, <1>3, <1>5, <1>6, <1>7, <1>8, SavesStay DEF FiltersTypeInv, MembersTypeOK

LEMMA ChangeFilterType ==
    ASSUME FiltersTypeInv, NEW t \in Thread, ChangeFilter(t)
    PROVE  FiltersTypeInv' /\ DOMAIN mine' \subseteq DOMAIN mine
           /\ Same(t)
           /\ \/ th'[t].pc \in {"read", "respond", "look"} /\ th'[t].alone = th[t].alone
              \/ th'[t].pc = "idle" /\ UNCHANGED mine
           /\ UNCHANGED <<doubt, boards, known>>
<1> DEFINE op == th[t].op
           i == th[t].id
<1>1. "read" \in Pc /\ "respond" \in Pc /\ "look" \in Pc
  BY DEF Pc, After
<1>2. NextPc(op) \in {"read", "respond", "look"}
  BY DEF NextPc
<1>3. UNCHANGED <<plan, made, boards, known, turns>>
  BY DEF ChangeFilter
<1>4. CASE i \in DOMAIN mine /\ op \in Changes
  <2>1. mine' = Changed(op, i) /\ th' = [th EXCEPT ![t].pc = NextPc(op)] /\ UNCHANGED doubt
    BY <1>4 DEF ChangeFilter, Goes
  <2>2. mine' \in View /\ DOMAIN mine' \subseteq DOMAIN mine
    BY <1>4, <2>1, ChangedFact DEF FiltersTypeInv
  <2>3. th' \in [Thread -> Call] /\ Same(t) /\ th'[t].pc = NextPc(op) /\ th'[t].alone = th[t].alone
    BY <1>1, <1>2, <2>1, PcSet DEF FiltersTypeInv
  <2>4. \A j \in DOMAIN mine' : mine'[j] \in Filter
    BY <2>2, ViewIs
  <2> QED
    BY <1>2, <1>3, <2>1, <2>2, <2>3, <2>4, SavesStay DEF FiltersTypeInv, MembersTypeOK
<1>5. CASE i \notin DOMAIN mine
  <2>1. th' \in [Thread -> Call] /\ Same(t) /\ th'[t].pc = "idle" /\ UNCHANGED <<mine, doubt>>
    BY <1>5, IdleSet DEF FiltersTypeInv, ChangeFilter, Refused
  <2> QED
    BY <1>3, <2>1, SavesStay DEF FiltersTypeInv, MembersTypeOK
<1>6. op \in Changes
  BY DEF ChangeFilter, FiltersTypeInv
<1> QED
  BY <1>4, <1>5, <1>6

LEMMA RespondPanelType ==
    ASSUME FiltersTypeInv, NEW t \in Thread, RespondPanel(t)
    PROVE  FiltersTypeInv' /\ Same(t) /\ th'[t].pc = "read" /\ th'[t].alone = th[t].alone
<1>1. PICK role \in DOMAIN Limits \cup {"none"} : plan' = WithRole(role)
  BY DEF RespondPanel
<1>2. plan' \in [name : DOMAIN Limits, active : BOOLEAN]
  BY <1>1, RoleFact DEF FiltersTypeInv
<1>3. "read" \in Pc
  BY DEF Pc, After
<1>4. /\ th' \in [Thread -> Call] /\ Same(t) /\ th'[t].pc = "read"
      /\ th'[t].alone = th[t].alone /\ UNCHANGED doubt
  BY <1>3, PcSet DEF FiltersTypeInv, RespondPanel, Goes
<1>5. UNCHANGED <<mine, made, boards, known, turns>>
  BY DEF RespondPanel
<1> QED
  BY <1>2, <1>4, <1>5, SavesStay DEF FiltersTypeInv, MembersTypeOK

LEMMA LookAtRowsType ==
    ASSUME FiltersTypeInv, NEW t \in Thread, LookAtRows(t)
    PROVE  /\ FiltersTypeInv' /\ Same(t) /\ th'[t].pc = "update" /\ th'[t].view = mine
           /\ th'[t].alone = th[t].alone
<1>1. "update" \in Pc
  BY DEF Pc, After
<1>2. /\ th' \in [Thread -> Call] /\ Same(t) /\ th'[t].pc = "update" /\ th'[t].view = mine
      /\ th'[t].alone = th[t].alone
  <2>1. PICK p \in Pc : p = "update"
    BY <1>1
  <2>2. PICK v \in View : v = mine
    BY DEF FiltersTypeInv
  <2>3. th' = [th EXCEPT ![t].pc = p, ![t].view = v]
    BY <2>1, <2>2 DEF LookAtRows
  <2>4. th \in [Thread -> Call]
    BY DEF FiltersTypeInv
  <2>5. /\ th' \in [Thread -> Call] /\ Same(t) /\ th'[t].pc = p /\ th'[t].view = v
        /\ th'[t].msg = th[t].msg /\ th'[t].alone = th[t].alone
    BY <2>3, <2>4, PcViewSet
  <2> QED
    BY <2>1, <2>2, <2>5
<1>3. UNCHANGED <<plan, mine, made, boards, known, turns, doubt>>
  BY DEF LookAtRows
<1> QED
  BY <1>2, <1>3, SavesStay DEF FiltersTypeInv, MembersTypeOK

(* The messages that threads are about to keep are there, whatever is sent. *)
LEMMA SavesGrow ==
    ASSUME FiltersTypeInv, NEW t \in Thread, Same(t), DOMAIN boards \subseteq DOMAIN boards',
           th'[t].pc \in {"edit", "save"} => th'[t].msg \in DOMAIN boards', th'[t].pc # "change"
    PROVE  \A u \in Thread : /\ th'[u].pc \in {"edit", "save"} => th'[u].msg \in DOMAIN boards'
                             /\ th'[u].pc = "change" => th'[u].op \in Changes
  BY DEF FiltersTypeInv, Same

LEMMA UpdateClickedType ==
    ASSUME FiltersTypeInv, NEW t \in Thread, UpdateClicked(t)
    PROVE  FiltersTypeInv' /\ Same(t) /\ th'[t].pc = "idle"
<1>1. th' \in [Thread -> Call] /\ Same(t) /\ th'[t].pc = "idle" /\ doubt' \in BOOLEAN
  BY IdleSet DEF FiltersTypeInv, UpdateClicked, Ends
<1>2. DOMAIN boards' = DOMAIN boards
  BY DEF UpdateClicked
<1>3. UNCHANGED <<plan, mine, made, known, turns>>
  BY DEF UpdateClicked
<1> QED
  BY <1>1, <1>2, <1>3, SavesGrow DEF FiltersTypeInv, MembersTypeOK

LEMMA ReadRowsType ==
    ASSUME FiltersTypeInv, NEW t \in Thread, ReadRows(t)
    PROVE  /\ FiltersTypeInv' /\ Same(t) /\ th'[t].pc = (IF known = 0 THEN "send" ELSE "edit")
           /\ th'[t].view = mine /\ th'[t].msg = known /\ th'[t].alone = th[t].alone
<1> DEFINE p == IF known = 0 THEN "send" ELSE "edit"
<1>1. p \in Pc /\ p # "change" /\ p # "save"
  BY DEF Pc, After
<1>2. th' = [th EXCEPT ![t].pc = p, ![t].view = mine, ![t].msg = known]
  BY DEF ReadRows
<1>3. p = "edit" => known \in DOMAIN boards
  BY DEF FiltersTypeInv, MembersTypeOK
<1> HIDE DEF p
<1>4. /\ th' \in [Thread -> Call] /\ Same(t) /\ th'[t].pc = p /\ th'[t].view = mine
      /\ th'[t].msg = known /\ th'[t].alone = th[t].alone
  BY <1>1, <1>2, PcViewMsgSet DEF FiltersTypeInv
<1>5. UNCHANGED <<plan, mine, made, boards, known, turns, doubt>>
  BY DEF ReadRows
<1>6. FiltersTypeInv'
  BY <1>1, <1>3, <1>4, <1>5, SavesStay DEF FiltersTypeInv, MembersTypeOK
<1> QED
  BY <1>4, <1>6 DEF p

LEMMA EditBoardType ==
    ASSUME FiltersTypeInv, NEW t \in Thread, EditBoard(t)
    PROVE  /\ FiltersTypeInv' /\ Same(t) /\ th'[t].view = th[t].view
           /\ th'[t].alone = th[t].alone /\ th'[t].msg = th[t].msg
           /\ \/ th'[t].pc = "save" /\ boards' = [boards EXCEPT ![th[t].msg] = th[t].view]
                 /\ th[t].msg \in DOMAIN boards
              \/ th'[t].pc = "send" /\ UNCHANGED boards
<1>1. "save" \in Pc /\ "send" \in Pc
  BY DEF Pc, After
<1>2. UNCHANGED <<plan, mine, made, known>> /\ th[t].msg \in DOMAIN boards
  BY DEF EditBoard, FiltersTypeInv
<1>3. CASE boards' = [boards EXCEPT ![th[t].msg] = th[t].view] /\ Goes(t, "save") /\ UNCHANGED turns
  <2>1. /\ th' \in [Thread -> Call] /\ Same(t) /\ th'[t].pc = "save" /\ th'[t].msg = th[t].msg
        /\ th'[t].alone = th[t].alone /\ th'[t].view = th[t].view /\ UNCHANGED doubt
    BY <1>1, <1>3, PcSet DEF FiltersTypeInv, Goes
  <2>2. DOMAIN boards' = DOMAIN boards
    BY <1>3
  <2>3. FiltersTypeInv'
    BY <1>2, <1>3, <2>1, <2>2, SavesGrow DEF FiltersTypeInv, MembersTypeOK
  <2> QED
    BY <1>2, <1>3, <2>1, <2>3
<1>4. CASE UNCHANGED boards /\ Goes(t, "send") /\ Spent
  <2>1. /\ th' \in [Thread -> Call] /\ Same(t) /\ th'[t].pc = "send" /\ th'[t].msg = th[t].msg
        /\ th'[t].alone = th[t].alone /\ th'[t].view = th[t].view /\ UNCHANGED doubt
    BY <1>1, <1>4, PcSet DEF FiltersTypeInv, Goes
  <2>2. turns' \in 0 .. MaxTurns
    BY <1>4, BoundsAssumption DEF Spent, FiltersTypeInv, MembersTypeOK
  <2>3. FiltersTypeInv'
    BY <1>2, <1>4, <2>1, <2>2, SavesStay DEF FiltersTypeInv, MembersTypeOK
  <2> QED
    BY <1>4, <2>1, <2>3
<1> QED
  BY <1>3, <1>4 DEF EditBoard

LEMMA SendBoardType ==
    ASSUME FiltersTypeInv, NEW t \in Thread, SendBoard(t)
    PROVE  /\ FiltersTypeInv' /\ Same(t) /\ th'[t].pc = "save" /\ th'[t].msg \in DOMAIN boards'
           /\ boards'[th'[t].msg] = th[t].view /\ th'[t].alone = th[t].alone
<1>1. PICK n \in Nat : DOMAIN boards = 1 .. n
  BY DEF FiltersTypeInv
<1>2. Cardinality(DOMAIN boards) = n
  BY <1>1, FS_Interval
<1>3. /\ th' = [th EXCEPT ![t].pc = "save", ![t].msg = n + 1]
      /\ boards' = [b \in DOMAIN boards \cup {n + 1} |-> IF b = n + 1 THEN th[t].view ELSE boards[b]]
      /\ UNCHANGED <<plan, mine, made, known, turns, doubt>>
  BY <1>2 DEF SendBoard
<1>4. "save" \in Pc /\ n + 1 \in Nat
  BY DEF Pc, After
<1>5. /\ th' \in [Thread -> Call] /\ Same(t) /\ th'[t].pc = "save" /\ th'[t].msg = n + 1
      /\ th'[t].alone = th[t].alone
  <2>1. PICK m \in Nat : m = n + 1
    BY <1>4
  <2>2. PICK p \in Pc : p = "save"
    BY <1>4
  <2>3. th' = [th EXCEPT ![t].pc = p, ![t].msg = m]
    BY <1>3, <2>1, <2>2
  <2>4. th \in [Thread -> Call]
    BY DEF FiltersTypeInv
  <2>5. /\ th' \in [Thread -> Call] /\ Same(t) /\ th'[t].pc = p /\ th'[t].msg = m
        /\ th'[t].view = th[t].view /\ th'[t].alone = th[t].alone
    BY <2>3, <2>4, PcMsgSet
  <2> QED
    BY <2>1, <2>2, <2>5
<1>6. DOMAIN boards' = 1 .. n + 1 /\ DOMAIN boards \subseteq DOMAIN boards'
  BY <1>1, <1>3
<1>7. boards'[n + 1] = th[t].view
  BY <1>3
<1>8. FiltersTypeInv'
  BY <1>3, <1>4, <1>5, <1>6, SavesGrow DEF FiltersTypeInv, MembersTypeOK
<1> QED
  BY <1>5, <1>6, <1>7, <1>8

LEMMA SaveBoardType ==
    ASSUME FiltersTypeInv, NEW t \in Thread, SaveBoard(t)
    PROVE  FiltersTypeInv' /\ Same(t) /\ th'[t].pc = "idle" /\ known' = th[t].msg
           /\ known' \in DOMAIN boards
<1>1. th' \in [Thread -> Call] /\ Same(t) /\ th'[t].pc = "idle" /\ doubt' \in BOOLEAN
  BY IdleSet DEF FiltersTypeInv, SaveBoard, Ends
<1>2. known' = th[t].msg /\ known' \in DOMAIN boards /\ known' \in Nat
  BY DEF SaveBoard, FiltersTypeInv, Call
<1>3. UNCHANGED <<plan, mine, made, boards, turns>>
  BY DEF SaveBoard
<1> QED
  BY <1>1, <1>2, <1>3, SavesStay DEF FiltersTypeInv, MembersTypeOK

LEMMA CallFailsType ==
    ASSUME FiltersTypeInv, NEW t \in Thread, CallFails(t)
    PROVE  /\ FiltersTypeInv' /\ Same(t) /\ th'[t].pc = "idle"
           /\ IF th[t].pc \in Before THEN UNCHANGED doubt ELSE doubt' = TRUE
<1>1. th' \in [Thread -> Call] /\ Same(t) /\ th'[t].pc = "idle"
  BY IdleSet DEF FiltersTypeInv, CallFails, Ends, Refused
<1>2. IF th[t].pc \in Before THEN UNCHANGED doubt ELSE doubt' = TRUE
  BY DEF CallFails, Ends, Refused, Before
<1>3. turns' \in 0 .. MaxTurns
  BY BoundsAssumption DEF CallFails, Spent, FiltersTypeInv, MembersTypeOK
<1>4. UNCHANGED <<plan, mine, made, boards, known>>
  BY DEF CallFails
<1>5. doubt' \in BOOLEAN
  BY <1>2 DEF FiltersTypeInv, MembersTypeOK
<1> QED
  BY <1>1, <1>2, <1>3, <1>4, <1>5, SavesStay DEF FiltersTypeInv, MembersTypeOK

LEMMA PauseAllType ==
    ASSUME FiltersTypeInv, PauseAll
    PROVE  /\ FiltersTypeInv' /\ DOMAIN mine' = DOMAIN mine
           /\ \A u \in Thread : /\ th'[u].pc = th[u].pc /\ th'[u].alone = FALSE
                                /\ th'[u].limit = th[u].limit
           /\ UNCHANGED <<boards, known>> /\ ~doubt' => ~doubt /\ UNCHANGED mine
<1> DEFINE off == [i \in DOMAIN mine |-> [mine[i] EXCEPT !.on = FALSE]]
<1>0. plan \in [name : DOMAIN Limits, active : BOOLEAN]
  BY DEF FiltersTypeInv, MembersTypeOK
<1>10. ASSUME plan' = [plan EXCEPT !.active = FALSE]
      PROVE  plan' \in [name : DOMAIN Limits, active : BOOLEAN]
  <2>1. PICK p \in DOMAIN Limits, b \in BOOLEAN : plan' = [name |-> p, active |-> b]
    BY <1>0, <1>10
  <2> QED
    BY <2>1
<1>11. ASSUME NEW p \in DOMAIN Limits, plan' = [name |-> p, active |-> TRUE]
      PROVE  plan' \in [name : DOMAIN Limits, active : BOOLEAN]
  BY <1>11
<1>12. plan' \in [name : DOMAIN Limits, active : BOOLEAN]
  BY <1>10, <1>11 DEF PauseAll
<1>1. /\ mine' = off \/ mine' = mine
      /\ plan' \in [name : DOMAIN Limits, active : BOOLEAN]
  BY <1>12 DEF PauseAll
<1>2. DOMAIN mine \subseteq FilterId /\ mine \in [DOMAIN mine -> Filter]
  BY ViewIs DEF FiltersTypeInv
<1>3. off \in [DOMAIN mine -> Filter]
  BY <1>2 DEF Filter
<1>4. mine' \in [DOMAIN mine -> Filter] /\ mine' \in View
  BY <1>1, <1>2, <1>3, ViewFact
<1>5. th' = Disturbed /\ UNCHANGED <<made, boards, known>> /\ doubt' = (doubt \/ mine' # mine)
  BY DEF PauseAll
<1>6. /\ th' \in [Thread -> Call]
      /\ \A u \in Thread : /\ th'[u].pc = th[u].pc /\ th'[u].alone = FALSE
                           /\ th'[u].limit = th[u].limit
                           /\ th'[u].msg = th[u].msg /\ th'[u].op = th[u].op
  BY <1>5, DisturbedFact DEF FiltersTypeInv
<1>7. turns' \in 0 .. MaxTurns
  BY BoundsAssumption DEF PauseAll, Spent, FiltersTypeInv, MembersTypeOK
<1>8. doubt' \in BOOLEAN /\ (~doubt' => ~doubt /\ UNCHANGED mine)
  BY <1>5 DEF FiltersTypeInv, MembersTypeOK
<1>9. DOMAIN mine' = DOMAIN mine /\ \A i \in DOMAIN mine' : mine'[i] \in Filter
  BY <1>4
<1> QED
  BY <1>1, <1>4, <1>5, <1>6, <1>7, <1>8, <1>9 DEF FiltersTypeInv, MembersTypeOK

LEMMA FiltersTypeStep == FiltersTypeInv /\ [MembersNext]_fvars => FiltersTypeInv'
<1> SUFFICES ASSUME FiltersTypeInv, [MembersNext]_fvars PROVE FiltersTypeInv'
  OBVIOUS
<1>1. ASSUME NEW t \in Thread, ThreadStep(t) PROVE FiltersTypeInv'
  BY <1>1, ArrivesType, AlignPlanType, CountFiltersType, InsertFilterType, ChangeFilterType,
     RespondPanelType, LookAtRowsType, UpdateClickedType, ReadRowsType, EditBoardType,
     SendBoardType, SaveBoardType, CallFailsType DEF ThreadStep
<1>2. CASE PauseAll
  BY <1>2, PauseAllType
<1>3. CASE UNCHANGED fvars
  BY <1>3 DEF fvars, FiltersTypeInv, MembersTypeOK
<1> QED
  BY <1>1, <1>2, <1>3 DEF MembersNext

LEMMA FiltersTypeInit == MembersInit => FiltersTypeInv
<1> SUFFICES ASSUME MembersInit PROVE FiltersTypeInv
  OBVIOUS
<1>1. th \in [Thread -> Call] /\ \A t \in Thread : th[t].pc = "idle"
  BY NoCallType DEF MembersInit
<1>2. mine \in View /\ boards = <<>> /\ DOMAIN boards = 1 .. 0
  BY NoCallType DEF MembersInit, NoCall, Call
<1>3. mine = <<>> /\ DOMAIN mine = {}
  BY DEF MembersInit
<1>4. \E n \in Nat : DOMAIN boards = 1 .. n
  BY <1>2
<1>5. /\ plan \in [name : DOMAIN Limits, active : BOOLEAN]
      /\ made = 0 /\ known = 0 /\ turns = 0 /\ doubt = FALSE
  BY DEF MembersInit
<1>6. made \in 0 .. MaxFilters /\ turns \in 0 .. MaxTurns
  BY <1>5, BoundsAssumption
<1>7. MembersTypeOK
  BY <1>3, <1>5, <1>6 DEF MembersTypeOK
<1> QED
  BY <1>1, <1>2, <1>4, <1>5, <1>7 DEF FiltersTypeInv

LEMMA FiltersTypeInvAlways == MembersSpec => []FiltersTypeInv
  BY FiltersTypeInit, FiltersTypeStep, PTL DEF MembersSpec

(* The variables of MemberFilters keep their types. *)
THEOREM MembersTypeAlways == MembersSpec => []MembersTypeOK
<1>1. FiltersTypeInv => MembersTypeOK
  BY DEF FiltersTypeInv
<1> QED
  BY <1>1, FiltersTypeInvAlways, PTL

-----------------------------------------------------------------------------
(* Quota *)

\* The creations that have passed the comparison with the quota.
Inserting == {t \in Thread : th[t].pc = "insert"}

QuotaInv ==
    /\ \A t \in Thread : th[t].pc = "count" => \E p \in DOMAIN Limits : th[t].limit = Limits[p]
    /\ \E p \in DOMAIN Limits :
         Cardinality(DOMAIN mine) + Cardinality(Inserting) <= Limits[p] + Cardinality(Thread) - 1

LEMMA MineFinite ==
    ASSUME FiltersTypeInv
    PROVE  IsFiniteSet(DOMAIN mine) /\ Cardinality(DOMAIN mine) \in Nat
<1>1. made \in Nat /\ DOMAIN mine \subseteq 1 .. made
  BY BoundsAssumption DEF FiltersTypeInv, MembersTypeOK
<1>2. IsFiniteSet(1 .. made)
  BY <1>1, FS_Interval
<1> QED
  BY <1>1, <1>2, FS_Subset, FS_CardinalityType

LEMMA InsertingFinite ==
    /\ IsFiniteSet(Inserting) /\ Cardinality(Inserting) \in Nat
    /\ Cardinality(Thread) \in Nat /\ Cardinality(Inserting) <= Cardinality(Thread)
<1>1. Inserting \subseteq Thread
  BY DEF Inserting
<1> QED
  BY <1>1, ThreadAssumption, FS_Subset, FS_CardinalityType

LEMMA InsertingAfter ==
    ASSUME FiltersTypeInv'
    PROVE  /\ IsFiniteSet(Inserting') /\ Cardinality(Inserting') \in Nat
           /\ Cardinality(Inserting') <= Cardinality(Thread)
<1>1. Inserting' \subseteq Thread
  BY DEF Inserting
<1> QED
  BY <1>1, ThreadAssumption, FS_Subset, FS_CardinalityType

(* Fewer rows and fewer creations under way. *)
LEMMA QuotaShrinks ==
    ASSUME FiltersTypeInv, FiltersTypeInv', QuotaInv,
           DOMAIN mine' \subseteq DOMAIN mine, Inserting' \subseteq Inserting,
           \A t \in Thread : th'[t].pc = "count" =>
                               \E p \in DOMAIN Limits : th'[t].limit = Limits[p]
    PROVE  QuotaInv'
<1>1. Cardinality(DOMAIN mine') <= Cardinality(DOMAIN mine) /\ Cardinality(DOMAIN mine') \in Nat
  BY MineFinite, FS_Subset, FS_CardinalityType
<1>2. Cardinality(Inserting') <= Cardinality(Inserting) /\ Cardinality(Inserting') \in Nat
  BY InsertingFinite, FS_Subset, FS_CardinalityType
<1>3. Cardinality(DOMAIN mine) \in Nat /\ Cardinality(Inserting) \in Nat
      /\ Cardinality(Thread) \in Nat
  BY MineFinite, InsertingFinite
<1>4. PICK p \in DOMAIN Limits :
        Cardinality(DOMAIN mine) + Cardinality(Inserting) <= Limits[p] + Cardinality(Thread) - 1
  BY DEF QuotaInv
<1>5. Limits[p] \in Nat
  BY LimitsAssumption
<1>6. Cardinality(DOMAIN mine') + Cardinality(Inserting') <= Limits[p] + Cardinality(Thread) - 1
  BY <1>1, <1>2, <1>3, <1>4, <1>5
<1> QED
  BY <1>6 DEF QuotaInv

(* One thread goes on, and not to the insert. *)
LEMMA QuotaFrame ==
    ASSUME FiltersTypeInv, FiltersTypeInv', QuotaInv, NEW t \in Thread, Same(t),
           DOMAIN mine' \subseteq DOMAIN mine, th'[t].pc # "insert",
           th'[t].pc = "count" => \E p \in DOMAIN Limits : th'[t].limit = Limits[p]
    PROVE  QuotaInv'
<1>1. Inserting' \subseteq Inserting
  BY DEF Inserting, Same
<1>2. \A u \in Thread : th'[u].pc = "count" => \E p \in DOMAIN Limits : th'[u].limit = Limits[p]
  BY DEF QuotaInv, Same
<1> QED
  BY <1>1, <1>2, QuotaShrinks

LEMMA AlignPlanQuota ==
    ASSUME FiltersTypeInv, FiltersTypeInv', QuotaInv, NEW t \in Thread, AlignPlan(t)
    PROVE  QuotaInv'
<1>1. PICK role \in DOMAIN Limits \cup {"none"} :
        \/ th' = [th EXCEPT ![t].pc = "count", ![t].limit = Limits[PlanOfRole(role)]]
        \/ th' = [th EXCEPT ![t] = NoCall]
  BY DEF AlignPlan, Refused
<1>2. PICK q \in DOMAIN Limits : q = PlanOfRole(role)
  BY RoleFact DEF FiltersTypeInv
<1>3. UNCHANGED mine
  BY DEF AlignPlan
<1>4. CASE th' = [th EXCEPT ![t].pc = "count", ![t].limit = Limits[PlanOfRole(role)]]
  <2>1. PICK n \in Nat : n = Limits[q]
    BY LimitsAssumption
  <2>2. PICK p \in Pc : p = "count"
    BY DEF Pc, Before
  <2>3. th' = [th EXCEPT ![t].pc = p, ![t].limit = n]
    BY <1>2, <1>4, <2>1, <2>2
  <2>4. th \in [Thread -> Call]
    BY DEF FiltersTypeInv
  <2>5. Same(t) /\ th'[t].pc = p /\ th'[t].limit = n
    BY <2>3, <2>4, PcLimitSet
  <2> QED
    BY <1>3, <2>1, <2>2, <2>5, QuotaFrame
<1>5. CASE th' = [th EXCEPT ![t] = NoCall]
  <2>1. Same(t) /\ th'[t].pc = "idle"
    BY <1>5, IdleSet DEF FiltersTypeInv
  <2> QED
    BY <1>3, <2>1, QuotaFrame
<1> QED
  BY <1>1, <1>4, <1>5

LEMMA CountFiltersQuota ==
    ASSUME FiltersTypeInv, FiltersTypeInv', QuotaInv, NEW t \in Thread, CountFilters(t)
    PROVE  QuotaInv'
<1>1. UNCHANGED mine
  BY DEF CountFilters
<1>2. CASE Cardinality(DOMAIN mine) >= th[t].limit /\ Refused(t)
  <2>1. Same(t) /\ th'[t].pc = "idle"
    BY <1>2, IdleSet DEF FiltersTypeInv, Refused
  <2> QED
    BY <1>1, <2>1, QuotaFrame
<1>3. CASE ~(Cardinality(DOMAIN mine) >= th[t].limit) /\ Goes(t, "insert")
  <2>1. "insert" \in Pc
    BY DEF Pc, Before
  <2>2. Same(t) /\ th'[t].pc = "insert"
    BY <1>3, <2>1, PcSet DEF FiltersTypeInv, Goes
  <2>3. PICK p \in DOMAIN Limits : th[t].limit = Limits[p]
    BY DEF QuotaInv, CountFilters
  <2>4. PICK l \in Nat : l = Limits[p]
    BY LimitsAssumption
  <2>5. PICK c \in Nat : c = Cardinality(DOMAIN mine)
    BY MineFinite
  <2>6. PICK i \in Nat : i = Cardinality(Inserting') /\ i <= Cardinality(Thread)
    BY InsertingAfter
  <2>7. PICK n \in Nat : n = Cardinality(Thread)
    BY InsertingFinite
  <2>8. c < l
    BY <1>3, <2>3, <2>4, <2>5
  <2>9. c + i <= l + n - 1
    BY <2>6, <2>7, <2>8
  <2>10. Cardinality(DOMAIN mine') + Cardinality(Inserting') <= Limits[p] + Cardinality(Thread) - 1
    BY <1>1, <2>4, <2>5, <2>6, <2>7, <2>9
  <2>11. \A u \in Thread : th'[u].pc = "count" =>
                             \E q \in DOMAIN Limits : th'[u].limit = Limits[q]
    BY <2>2 DEF QuotaInv, Same
  <2> QED
    BY <2>10, <2>11 DEF QuotaInv
<1> QED
  BY <1>2, <1>3 DEF CountFilters

LEMMA InsertFilterQuota ==
    ASSUME FiltersTypeInv, FiltersTypeInv', QuotaInv, NEW t \in Thread, InsertFilter(t)
    PROVE  QuotaInv'
<1>1. "read" \in Pc
  BY DEF Pc, After
<1>2. Same(t) /\ th'[t].pc = "read" /\ th[t].pc = "insert"
  BY <1>1, PcSet DEF FiltersTypeInv, InsertFilter, Goes
<1>3. Inserting' = Inserting \ {t} /\ t \in Inserting
  BY <1>2 DEF Inserting, Same
<1>4. Cardinality(Inserting') = Cardinality(Inserting) - 1
  BY <1>3, InsertingFinite, FS_RemoveElement
<1>5. DOMAIN mine' = DOMAIN mine \cup {made'}
  BY DEF InsertFilter
<1>6. made' \notin DOMAIN mine
  BY DEF InsertFilter, FiltersTypeInv, MembersTypeOK
<1>7. Cardinality(DOMAIN mine') = Cardinality(DOMAIN mine) + 1
  BY <1>5, <1>6, MineFinite, FS_AddElement
<1>8. Cardinality(DOMAIN mine) \in Nat /\ Cardinality(Inserting) \in Nat
  BY MineFinite, InsertingFinite
<1>9. \A u \in Thread : th'[u].pc = "count" => \E q \in DOMAIN Limits : th'[u].limit = Limits[q]
  BY <1>2 DEF QuotaInv, Same
<1>10. Cardinality(DOMAIN mine') + Cardinality(Inserting')
         = Cardinality(DOMAIN mine) + Cardinality(Inserting)
  BY <1>4, <1>7, <1>8
<1> QED
  BY <1>9, <1>10 DEF QuotaInv

LEMMA ArrivesQuota ==
    ASSUME FiltersTypeInv, FiltersTypeInv', QuotaInv, NEW t \in Thread, Arrives(t)
    PROVE  QuotaInv'
<1>1. /\ th'[t].pc \in {"align", "change"} /\ UNCHANGED mine
      /\ \A u \in Thread \ {t} : th'[u].pc = th[u].pc /\ th'[u].limit = th[u].limit
  BY ArrivesFact DEF FiltersTypeInv
<1>2. Inserting' \subseteq Inserting
  BY <1>1 DEF Inserting
<1>3. \A u \in Thread : th'[u].pc = "count" => \E p \in DOMAIN Limits : th'[u].limit = Limits[p]
  BY <1>1 DEF QuotaInv
<1> QED
  BY <1>1, <1>2, <1>3, QuotaShrinks

LEMMA PauseAllQuota ==
    ASSUME FiltersTypeInv, FiltersTypeInv', QuotaInv, PauseAll
    PROVE  QuotaInv'
<1>1. /\ DOMAIN mine' = DOMAIN mine
      /\ \A u \in Thread : th'[u].pc = th[u].pc /\ th'[u].limit = th[u].limit
  BY PauseAllType
<1>2. Inserting' \subseteq Inserting
  BY <1>1 DEF Inserting
<1>3. \A u \in Thread : th'[u].pc = "count" => \E p \in DOMAIN Limits : th'[u].limit = Limits[p]
  BY <1>1 DEF QuotaInv
<1> QED
  BY <1>1, <1>2, <1>3, QuotaShrinks

LEMMA QuotaStep == FiltersTypeInv /\ FiltersTypeInv' /\ QuotaInv /\ [MembersNext]_fvars => QuotaInv'
<1> SUFFICES ASSUME FiltersTypeInv, FiltersTypeInv', QuotaInv, [MembersNext]_fvars PROVE QuotaInv'
  OBVIOUS
<1>1. ASSUME NEW t \in Thread, Arrives(t) \/ AlignPlan(t) \/ CountFilters(t) \/ InsertFilter(t)
      PROVE  QuotaInv'
  BY <1>1, ArrivesQuota, AlignPlanQuota, CountFiltersQuota, InsertFilterQuota
<1>2. ASSUME NEW t \in Thread, ChangeFilter(t) PROVE QuotaInv'
  <2>1. DOMAIN mine' \subseteq DOMAIN mine /\ Same(t)
        /\ th'[t].pc \in {"read", "respond", "look", "idle"}
    BY <1>2, ChangeFilterType
  <2> QED
    BY <2>1, QuotaFrame
<1>3. ASSUME NEW t \in Thread, RespondPanel(t) \/ LookAtRows(t) \/ ReadRows(t) PROVE QuotaInv'
  <2>1. Same(t) /\ th'[t].pc \in {"read", "update", "send", "edit"}
    BY <1>3, RespondPanelType, LookAtRowsType, ReadRowsType
  <2>2. UNCHANGED mine
    BY <1>3 DEF RespondPanel, LookAtRows, ReadRows
  <2> QED
    BY <2>1, <2>2, QuotaFrame
<1>4. ASSUME NEW t \in Thread,
             \/ UpdateClicked(t) \/ EditBoard(t) \/ SendBoard(t) \/ SaveBoard(t) \/ CallFails(t)
      PROVE  QuotaInv'
  <2>1. Same(t) /\ th'[t].pc \in {"idle", "save", "send"}
    BY <1>4, UpdateClickedType, EditBoardType, SendBoardType, SaveBoardType, CallFailsType
  <2>2. UNCHANGED mine
    BY <1>4 DEF UpdateClicked, EditBoard, SendBoard, SaveBoard, CallFails
  <2> QED
    BY <2>1, <2>2, QuotaFrame
<1>5. CASE UNCHANGED fvars
  <2>1. Inserting' \subseteq Inserting /\ DOMAIN mine' = DOMAIN mine
    BY <1>5 DEF fvars, Inserting
  <2>2. \A u \in Thread : th'[u].pc = "count" => \E p \in DOMAIN Limits : th'[u].limit = Limits[p]
    BY <1>5 DEF fvars, QuotaInv
  <2> QED
    BY <2>1, <2>2, QuotaShrinks
<1> QED
  BY <1>1, <1>2, <1>3, <1>4, <1>5, PauseAllQuota DEF MembersNext, ThreadStep

LEMMA QuotaInit == MembersInit => QuotaInv
<1> SUFFICES ASSUME MembersInit PROVE QuotaInv
  OBVIOUS
<1>1. \A t \in Thread : th[t].pc = "idle"
  BY NoCallType DEF MembersInit
<1>2. Inserting = {} /\ DOMAIN mine = {}
  BY <1>1 DEF Inserting, MembersInit
<1>3. Cardinality(Inserting) = 0 /\ Cardinality(DOMAIN mine) = 0
  BY <1>2, FS_EmptySet
<1>4. PICK n \in Nat : n = Cardinality(Thread) /\ n # 0
  BY ThreadAssumption, FS_CardinalityType, FS_EmptySet
<1>5. PICK l \in Nat : l = Limits["starter"]
  BY LimitsAssumption
<1>6. 0 + 0 <= l + n - 1
  BY <1>4, <1>5
<1>7. Cardinality(DOMAIN mine) + Cardinality(Inserting) <= Limits["starter"] + Cardinality(Thread) - 1
  BY <1>3, <1>4, <1>5, <1>6
<1> QED
  BY <1>1, <1>7, LimitsAssumption DEF QuotaInv

(* Creations that counted at the same time pass the quota of the largest   *)
(* plan by one filter less than there are threads, and never by more.      *)
THEOREM QuotaKeptAlways == MembersSpec => []QuotaKept
<1>1. QuotaInv /\ FiltersTypeInv => QuotaKept
  <2> SUFFICES ASSUME QuotaInv, FiltersTypeInv PROVE QuotaKept
    OBVIOUS
  <2>1. PICK p \in DOMAIN Limits :
          Cardinality(DOMAIN mine) + Cardinality(Inserting) <= Limits[p] + Cardinality(Thread) - 1
    BY DEF QuotaInv
  <2>2. Limits[p] \in Nat /\ Cardinality(DOMAIN mine) \in Nat /\ Cardinality(Inserting) \in Nat
        /\ Cardinality(Thread) \in Nat
    BY LimitsAssumption, MineFinite, InsertingFinite
  <2>3. Cardinality(DOMAIN mine) <= Limits[p] + Cardinality(Thread) - 1
    BY <2>1, <2>2
  <2> QED
    BY <2>3 DEF QuotaKept
<1>2. MembersSpec => []QuotaInv
  BY QuotaInit, QuotaStep, FiltersTypeInvAlways, PTL DEF MembersSpec
<1> QED
  BY <1>1, <1>2, FiltersTypeInvAlways, PTL

-----------------------------------------------------------------------------
(* The dashboard *)

Alone(t) == th[t].pc # "idle" /\ th[t].alone = TRUE

LoneInv == \A t \in Thread : Alone(t) => \A u \in Thread \ {t} : th[u].pc = "idle"

\* What a thread that ran alone so far has in its hands is what the table holds.
Fresh(t) ==
    Alone(t) =>
      /\ th[t].pc = "edit" => th[t].view = mine /\ th[t].msg = known
      /\ th[t].pc \in {"send", "update"} => th[t].view = mine
      /\ th[t].pc = "save" => boards[th[t].msg] = mine

CurrentInv ==
    doubt = FALSE /\ (\A t \in Thread : th[t].pc \notin After) /\ known # 0 => boards[known] = mine

DashInv == LoneInv /\ (\A t \in Thread : Fresh(t)) /\ CurrentInv

(* A thread that is at work goes on: nobody else can be alone. *)
LEMMA DashFrame ==
    ASSUME DashInv, NEW t \in Thread, th[t].pc # "idle", Same(t),
           th'[t].pc = "idle" \/ th'[t].alone = th[t].alone, Fresh(t)', CurrentInv'
    PROVE  DashInv'
<1>1. ASSUME NEW u \in Thread, u # t PROVE ~Alone(u) /\ th'[u] = th[u]
  BY <1>1 DEF DashInv, LoneInv, Same
<1>2. ASSUME NEW u \in Thread, u # t PROVE ~Alone(u)'
  BY <1>1, <1>2 DEF Alone
<1>3. \A u \in Thread : Fresh(u)'
  BY <1>2 DEF Fresh
<1>4. LoneInv'
  <2>1. ASSUME Alone(t)' PROVE \A u \in Thread \ {t} : th'[u].pc = "idle"
    <3>1. Alone(t)
      BY <2>1 DEF Alone
    <3> QED
      BY <3>1, <1>1 DEF DashInv, LoneInv
  <2> QED
    BY <1>2, <2>1 DEF LoneInv
<1> QED
  BY <1>3, <1>4 DEF DashInv

LEMMA CurrentFrame ==
    ASSUME DashInv, UNCHANGED <<mine, boards, known, doubt>>,
           \A u \in Thread : th[u].pc \in After => th'[u].pc \in After
    PROVE  CurrentInv'
  BY DEF DashInv, CurrentInv

(* A thread that is on its way to the dashboard. *)
LEMMA UnderWay ==
    ASSUME NEW t \in Thread, th'[t].pc \in After
    PROVE  CurrentInv'
  BY DEF CurrentInv

(* A thread that ends, or whose change is still to come. *)
LEMMA NothingInHand ==
    ASSUME NEW t \in Thread, th'[t].pc \notin {"edit", "send", "update", "save"}
    PROVE  Fresh(t)'
  BY DEF Fresh

LEMMA ArrivesDash ==
    ASSUME FiltersTypeInv, DashInv, NEW t \in Thread, Arrives(t)
    PROVE  DashInv'
<1>1. /\ th[t].pc = "idle" /\ th'[t].pc \in {"align", "change"}
      /\ BusyThreads = {} => Same(t)
      /\ BusyThreads # {} => \A u \in Thread : th'[u].alone = FALSE
      /\ \A u \in Thread \ {t} : th'[u].pc = th[u].pc
      /\ UNCHANGED <<mine, boards, known, doubt>>
  BY ArrivesFact DEF FiltersTypeInv
<1>2. CurrentInv'
  BY <1>1, CurrentFrame DEF After
<1>3. CASE BusyThreads = {}
  <2>1. \A u \in Thread \ {t} : th'[u].pc = "idle"
    BY <1>1, <1>3 DEF BusyThreads
  <2>2. LoneInv'
    BY <2>1 DEF LoneInv, Alone
  <2>3. \A u \in Thread : Fresh(u)'
    BY <1>1, <2>1 DEF Fresh, Alone
  <2> QED
    BY <1>2, <2>2, <2>3 DEF DashInv
<1>4. CASE BusyThreads # {}
  <2>1. \A u \in Thread : ~Alone(u)'
    BY <1>1, <1>4 DEF Alone
  <2> QED
    BY <1>2, <2>1 DEF DashInv, LoneInv, Fresh
<1> QED
  BY <1>3, <1>4

LEMMA PauseAllDash ==
    ASSUME FiltersTypeInv, DashInv, PauseAll
    PROVE  DashInv'
<1>1. \A u \in Thread : th'[u].pc = th[u].pc /\ th'[u].alone = FALSE
  BY PauseAllType
<1>2. \A u \in Thread : ~Alone(u)'
  BY <1>1 DEF Alone
<1>3. UNCHANGED <<boards, known>> /\ doubt' = (doubt \/ mine' # mine) /\ doubt \in BOOLEAN
  BY DEF PauseAll, FiltersTypeInv, MembersTypeOK
<1>4. doubt' = FALSE => doubt = FALSE /\ mine' = mine
  BY <1>3
<1>5. CurrentInv'
  BY <1>1, <1>3, <1>4 DEF CurrentInv, DashInv
<1> QED
  BY <1>2, <1>5 DEF DashInv, LoneInv, Fresh

(* Until the change is made, a creation or a change has nothing in hand. *)
LEMMA BeforeDash ==
    ASSUME FiltersTypeInv, DashInv, NEW t \in Thread, AlignPlan(t) \/ CountFilters(t)
    PROVE  DashInv'
<1>1. th[t].pc \in {"align", "count"} /\ UNCHANGED <<mine, boards, known, doubt>>
  BY DEF AlignPlan, CountFilters, Refused, Goes
<1>2. /\ Same(t) /\ th'[t].pc \in {"count", "insert", "idle"}
      /\ th'[t].pc = "idle" \/ th'[t].alone = th[t].alone
  <2>1. CASE CountFilters(t)
    <3>1. "insert" \in Pc
      BY DEF Pc, Before
    <3> QED
      BY <2>1, <3>1, PcSet, IdleSet DEF FiltersTypeInv, CountFilters, Goes, Refused
  <2>2. CASE AlignPlan(t)
    <3>1. PICK role \in DOMAIN Limits \cup {"none"} :
            \/ th' = [th EXCEPT ![t].pc = "count", ![t].limit = Limits[PlanOfRole(role)]]
            \/ th' = [th EXCEPT ![t] = NoCall]
      BY <2>2 DEF AlignPlan, Refused
    <3>2. CASE th' = [th EXCEPT ![t].pc = "count", ![t].limit = Limits[PlanOfRole(role)]]
      <4>1. PICK n \in Nat : n = Limits[PlanOfRole(role)]
        BY RoleFact, LimitsAssumption DEF FiltersTypeInv
      <4>2. PICK p \in Pc : p = "count"
        BY DEF Pc, Before
      <4>3. th' = [th EXCEPT ![t].pc = p, ![t].limit = n]
        BY <3>2, <4>1, <4>2
      <4>4. th \in [Thread -> Call]
        BY DEF FiltersTypeInv
      <4>5. Same(t) /\ th'[t].pc = p /\ th'[t].alone = th[t].alone
        BY <4>3, <4>4, PcLimitSet
      <4> QED
        BY <4>2, <4>5
    <3>3. CASE th' = [th EXCEPT ![t] = NoCall]
      BY <3>3, IdleSet DEF FiltersTypeInv
    <3> QED
      BY <3>1, <3>2, <3>3
  <2> QED
    BY <2>1, <2>2
<1>3. CurrentInv'
  BY <1>1, <1>2, CurrentFrame DEF Same, After
<1>4. Fresh(t)'
  BY <1>2, NothingInHand
<1> QED
  BY <1>1, <1>2, <1>3, <1>4, DashFrame

LEMMA InsertFilterDash ==
    ASSUME FiltersTypeInv, DashInv, NEW t \in Thread, InsertFilter(t)
    PROVE  DashInv'
<1>1. "read" \in Pc /\ "read" \in After
  BY DEF Pc, After
<1>2. /\ Same(t) /\ th'[t].pc = "read" /\ th'[t].alone = th[t].alone
      /\ th[t].pc = "insert"
  BY <1>1, PcSet DEF FiltersTypeInv, InsertFilter, Goes
<1>3. CurrentInv' /\ Fresh(t)'
  BY <1>1, <1>2, UnderWay, NothingInHand
<1> QED
  BY <1>2, <1>3, DashFrame

LEMMA ChangeFilterDash ==
    ASSUME FiltersTypeInv, DashInv, NEW t \in Thread, ChangeFilter(t)
    PROVE  DashInv'
<1>1. /\ Same(t) /\ th[t].pc = "change" /\ UNCHANGED <<doubt, boards, known>>
      /\ \/ th'[t].pc \in {"read", "respond", "look"} /\ th'[t].alone = th[t].alone
         \/ th'[t].pc = "idle" /\ UNCHANGED mine
  <2>1. th[t].pc = "change"
    BY DEF ChangeFilter
  <2> QED
    BY <2>1, ChangeFilterType
<1>2. Fresh(t)'
  BY <1>1, NothingInHand
<1>3. CurrentInv'
  <2>1. CASE th'[t].pc \in {"read", "respond", "look"}
    BY <2>1, UnderWay DEF After
  <2>2. CASE th'[t].pc = "idle" /\ UNCHANGED mine
    BY <1>1, <2>2, CurrentFrame DEF Same, After
  <2> QED
    BY <1>1, <2>1, <2>2
<1> QED
  BY <1>1, <1>2, <1>3, DashFrame

LEMMA LooksDash ==
    ASSUME FiltersTypeInv, DashInv, NEW t \in Thread,
           RespondPanel(t) \/ LookAtRows(t) \/ ReadRows(t)
    PROVE  DashInv'
<1>1. th[t].pc \in {"respond", "look", "read"} /\ UNCHANGED <<mine, known>>
  BY DEF RespondPanel, LookAtRows, ReadRows
<1>2. /\ Same(t) /\ th'[t].alone = th[t].alone
      /\ \/ th'[t].pc = "read"
         \/ th'[t].pc = "update" /\ th'[t].view = mine
         \/ th'[t].pc \in {"send", "edit"} /\ th'[t].view = mine /\ th'[t].msg = known
  BY RespondPanelType, LookAtRowsType, ReadRowsType
<1>3. CurrentInv'
  BY <1>2, UnderWay DEF After
<1>4. Fresh(t)'
  BY <1>1, <1>2 DEF Fresh
<1> QED
  BY <1>1, <1>2, <1>3, <1>4, DashFrame

LEMMA EditBoardDash ==
    ASSUME FiltersTypeInv, DashInv, NEW t \in Thread, EditBoard(t)
    PROVE  DashInv'
<1>1. th[t].pc = "edit" /\ UNCHANGED mine
  BY DEF EditBoard
<1>2. /\ Same(t) /\ th'[t].view = th[t].view
      /\ th'[t].alone = th[t].alone /\ th'[t].msg = th[t].msg
      /\ \/ th'[t].pc = "save" /\ boards' = [boards EXCEPT ![th[t].msg] = th[t].view]
            /\ th[t].msg \in DOMAIN boards
         \/ th'[t].pc = "send" /\ UNCHANGED boards
  BY EditBoardType
<1>3. CurrentInv'
  BY <1>2, UnderWay DEF After
<1>4. ASSUME Alone(t)' PROVE th[t].view = mine
  BY <1>1, <1>2, <1>4 DEF Alone, DashInv, Fresh
<1>5. CASE th'[t].pc = "save"
  <2>1. boards'[th'[t].msg] = th[t].view
    BY <1>2, <1>5
  <2> QED
    BY <1>1, <1>2, <1>3, <1>4, <1>5, <2>1, DashFrame DEF Fresh
<1>6. CASE th'[t].pc = "send"
  BY <1>1, <1>2, <1>3, <1>4, <1>6, DashFrame DEF Fresh
<1> QED
  BY <1>2, <1>5, <1>6

LEMMA SendBoardDash ==
    ASSUME FiltersTypeInv, DashInv, NEW t \in Thread, SendBoard(t)
    PROVE  DashInv'
<1>1. th[t].pc = "send" /\ UNCHANGED mine
  BY DEF SendBoard
<1>2. /\ Same(t) /\ th'[t].pc = "save" /\ boards'[th'[t].msg] = th[t].view
      /\ th'[t].alone = th[t].alone
  BY SendBoardType
<1>3. CurrentInv'
  BY <1>2, UnderWay DEF After
<1>4. Fresh(t)'
  BY <1>1, <1>2 DEF Fresh, Alone, DashInv
<1> QED
  BY <1>1, <1>2, <1>3, <1>4, DashFrame

(* The end of a synchronisation: doubt is only taken away when it ran alone. *)
LEMMA SaveBoardDash ==
    ASSUME FiltersTypeInv, DashInv, NEW t \in Thread, SaveBoard(t)
    PROVE  DashInv'
<1>1. th[t].pc = "save" /\ UNCHANGED <<mine, boards>> /\ known' = th[t].msg
      /\ doubt' = ~(TRUE /\ th[t].alone)
  BY DEF SaveBoard, Ends
<1>2. Same(t) /\ th'[t].pc = "idle"
  BY SaveBoardType
<1>3. ASSUME doubt' = FALSE PROVE boards'[known'] = mine'
  <2>1. th[t].alone \in BOOLEAN
    BY DEF FiltersTypeInv, Call
  <2>2. th[t].alone = TRUE
    BY <1>1, <1>3, <2>1
  <2> QED
    BY <1>1, <2>2 DEF DashInv, Fresh, Alone
<1>4. CurrentInv'
  BY <1>3 DEF CurrentInv
<1>5. Fresh(t)'
  BY <1>2, NothingInHand
<1> QED
  BY <1>1, <1>2, <1>4, <1>5, DashFrame

LEMMA UpdateClickedDash ==
    ASSUME FiltersTypeInv, DashInv, NEW t \in Thread, UpdateClicked(t)
    PROVE  DashInv'
<1>1. th[t].pc = "update" /\ UNCHANGED <<mine, known>>
      /\ boards' = [boards EXCEPT ![th[t].msg] = th[t].view]
      /\ doubt' = ~(th[t].msg = known /\ th[t].alone)
  BY DEF UpdateClicked, Ends
<1>2. Same(t) /\ th'[t].pc = "idle"
  BY UpdateClickedType
<1>3. ASSUME doubt' = FALSE, known # 0 PROVE boards'[known'] = mine'
  <2>1. th[t].alone \in BOOLEAN /\ known \in DOMAIN boards
    BY <1>3 DEF FiltersTypeInv, Call, MembersTypeOK
  <2>2. th[t].alone = TRUE /\ th[t].msg = known
    BY <1>1, <1>3, <2>1
  <2>3. th[t].view = mine
    BY <1>1, <2>2 DEF DashInv, Fresh, Alone
  <2> QED
    BY <1>1, <2>1, <2>2, <2>3
<1>4. CurrentInv'
  BY <1>1, <1>3 DEF CurrentInv
<1>5. Fresh(t)'
  BY <1>2, NothingInHand
<1> QED
  BY <1>1, <1>2, <1>4, <1>5, DashFrame

LEMMA CallFailsDash ==
    ASSUME FiltersTypeInv, DashInv, NEW t \in Thread, CallFails(t)
    PROVE  DashInv'
<1>1. th[t].pc # "idle" /\ UNCHANGED <<mine, boards, known>>
  BY DEF CallFails
<1>2. Same(t) /\ th'[t].pc = "idle" /\ IF th[t].pc \in Before THEN UNCHANGED doubt ELSE doubt' = TRUE
  BY CallFailsType
<1>3. Fresh(t)'
  BY <1>2, NothingInHand
<1>4. CASE th[t].pc \in Before
  <2>1. CurrentInv'
    BY <1>1, <1>2, <1>4, CurrentFrame DEF Same, Before, After
  <2> QED
    BY <1>1, <1>2, <1>3, <2>1, DashFrame
<1>5. CASE th[t].pc \notin Before
  <2>1. CurrentInv'
    BY <1>2, <1>5 DEF CurrentInv
  <2> QED
    BY <1>1, <1>2, <1>3, <2>1, DashFrame
<1> QED
  BY <1>4, <1>5

LEMMA DashStep == FiltersTypeInv /\ DashInv /\ [MembersNext]_fvars => DashInv'
<1> SUFFICES ASSUME FiltersTypeInv, DashInv, [MembersNext]_fvars PROVE DashInv'
  OBVIOUS
<1>1. ASSUME NEW t \in Thread, ThreadStep(t) PROVE DashInv'
  BY <1>1, ArrivesDash, BeforeDash, InsertFilterDash, ChangeFilterDash, LooksDash,
     EditBoardDash, SendBoardDash, SaveBoardDash, UpdateClickedDash, CallFailsDash DEF ThreadStep
<1>2. CASE UNCHANGED fvars
  BY <1>2 DEF fvars, DashInv, LoneInv, Fresh, Alone, CurrentInv
<1> QED
  BY <1>1, <1>2, PauseAllDash DEF MembersNext

LEMMA DashInit == MembersInit => DashInv
<1> SUFFICES ASSUME MembersInit PROVE DashInv
  OBVIOUS
<1>1. (\A t \in Thread : th[t].pc = "idle") /\ known = 0
  BY NoCallType DEF MembersInit
<1> QED
  BY <1>1 DEF DashInv, LoneInv, Fresh, Alone, CurrentInv

(* Once a change was followed by a synchronisation that ran alone and did  *)
(* not fail, the dashboard that the table knows shows the filters as they  *)
(* are, for any number of threads, messages and filters.                   *)
THEOREM DashboardCurrentAlways == MembersSpec => []DashboardCurrent
<1>1. DashInv /\ FiltersTypeInv => DashboardCurrent
  <2> SUFFICES ASSUME DashInv, FiltersTypeInv, BusyThreads = {}, ~doubt, known # 0
               PROVE  boards[known] = mine
    BY DEF DashboardCurrent
  <2>1. \A t \in Thread : th[t].pc \notin After
    BY DEF BusyThreads, After
  <2>2. doubt = FALSE
    BY DEF FiltersTypeInv, MembersTypeOK
  <2> QED
    BY <2>1, <2>2 DEF DashInv, CurrentInv
<1>2. MembersSpec => []DashInv
  BY DashInit, DashStep, FiltersTypeInvAlways, PTL DEF MembersSpec
<1> QED
  BY <1>1, <1>2, FiltersTypeInvAlways, PTL

=============================================================================
