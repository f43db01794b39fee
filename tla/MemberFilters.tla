--------------------------- MODULE MemberFilters ---------------------------
(***************************************************************************)
(* The private alerts of one member: commands, buttons, menus and forms of *)
(* Discord, each handled in a thread of its own, change the rows of        *)
(* user_filters within the quota of the plan, and then bring the one       *)
(* dashboard that the member has in direct messages up to date.  Members   *)
(* share nothing, so one is enough.  One action is one database            *)
(* transaction (two for a creation, whose count does not lock anything) or *)
(* one Discord request.                                                    *)
(***************************************************************************)
EXTENDS Integers, FiniteSets, Functions

CONSTANTS
  Thread,      \* threads of asyncio.to_thread
  Limits,      \* [plan -> number of filters it allows]
  MaxFilters,  \* bound: rows ever made
  MaxTurns     \* bound: interactions, failures and pauses together

ASSUME LimitsAssumption ==
  /\ "starter" \in DOMAIN Limits /\ \A p \in DOMAIN Limits : Limits[p] \in Nat
ASSUME ThreadAssumption == IsFiniteSet(Thread) /\ Thread # {}
ASSUME BoundsAssumption == MaxFilters \in Nat /\ MaxTurns \in Nat

VARIABLES
  plan,     \* discord_member_plans: plan and whether the subscription runs
  mine,     \* user_filters: [id -> [on, text]], ids are never used again
  made,     \* the last id
  boards,   \* the dashboards sent: [message -> the rows it shows]
  known,    \* dm_dashboard_message_id, 0 when there is none
  th,       \* the threads
  turns,    \* interactions, failures and pauses so far
  doubt     \* history: a change that no undisturbed synchronisation followed

fvars == <<plan, mine, made, boards, known, th, turns, doubt>>

Filter == [on : BOOLEAN, text : {"old", "new"}]
FilterId == 1..MaxFilters
Changes == {"delete", "toggle", "edit", "pick", "drop", "click"}
Asks == {"create", "show"}  \* they begin with the plan of the member

NoCall == [pc |-> "idle", op |-> "create", id |-> 0, limit |-> 0, view |-> <<>>, msg |-> 0,
           alone |-> TRUE]

MembersInit ==
  /\ plan \in [name : DOMAIN Limits, active : BOOLEAN]
  /\ mine = <<>> /\ made = 0 /\ boards = <<>> /\ known = 0
  /\ th = [t \in Thread |-> NoCall] /\ turns = 0 /\ doubt = FALSE

BusyThreads == {t \in Thread : th[t].pc # "idle"}
Spent == turns < MaxTurns /\ turns' = turns + 1

\* No thread can say of itself any more that it ran alone.
Disturbed == [t \in Thread |-> [th[t] EXCEPT !.alone = FALSE]]

\* A thread that has changed something ends; shown: on the dashboard that is known.
Ends(t, shown) ==
  /\ th' = [th EXCEPT ![t] = NoCall]
  /\ doubt' = ~(shown /\ th[t].alone)

\* A thread that has changed nothing ends.
Refused(t) == th' = [th EXCEPT ![t] = NoCall] /\ UNCHANGED doubt

Goes(t, pc) == th' = [th EXCEPT ![t].pc = pc] /\ UNCHANGED doubt

-----------------------------------------------------------------------------

\* dispatch_interaction: a click is on any dashboard that was ever sent.
Arrives(t) ==
  /\ th[t].pc = "idle" /\ Spent
  /\ \E op \in Changes \cup Asks, i \in FilterId, b \in 0..MaxTurns :
       /\ IF op \in Asks THEN i = 1 ELSE i <= made
       /\ IF op = "click" THEN b \in DOMAIN boards ELSE b = 0
       /\ th' = [(IF BusyThreads = {} THEN th ELSE Disturbed) EXCEPT ![t] =
                  [pc |-> IF op \in Asks THEN "align" ELSE "change", op |-> op, id |-> i,
                   limit |-> 0, view |-> <<>>, msg |-> b, alone |-> BusyThreads = {}]]
  /\ UNCHANGED <<plan, mine, made, boards, known, doubt>>

\* _align_db_plan_with_roles: the plan that a role of the interaction stands
\* for; a paid role is written to the table.
PlanOfRole(role) == IF role = "none" THEN plan.name ELSE role

WithRole(role) ==
  IF \/ role = "none" \/ (role = "starter" /\ plan.active)
     \/ plan = [name |-> role, active |-> TRUE]
  THEN plan ELSE [name |-> role, active |-> TRUE]

\* _private_filters_gate_message: a subscription or a role, and a plan with filters.
Admitted(role) == (WithRole(role).active \/ role # "none") /\ Limits[PlanOfRole(role)] > 0

\* handle_filtre_creer_command, handle_alert_create_modal: the plan, then the
\* count and the insert of one transaction, which others can commit between.
\* handle_filtres_command, handle_filtre_plan_command: the plan is all they touch.
AlignPlan(t) ==
  /\ th[t].pc = "align"
  /\ \E role \in DOMAIN Limits \cup {"none"} :
       /\ plan' = WithRole(role)
       /\ IF th[t].op = "create" /\ Admitted(role)
          THEN /\ th' = [th EXCEPT ![t].pc = "count", ![t].limit = Limits[PlanOfRole(role)]]
               /\ UNCHANGED doubt
          ELSE Refused(t)
  /\ UNCHANGED <<mine, made, boards, known, turns>>

\* Mutation: the quota is not compared with the count.
CountNothing(t) ==
  /\ th[t].pc = "count" /\ Goes(t, "insert")
  /\ UNCHANGED <<plan, mine, made, boards, known, turns>>

CountFilters(t) ==
  /\ th[t].pc = "count"
  /\ IF Cardinality(DOMAIN mine) >= th[t].limit THEN Refused(t) ELSE Goes(t, "insert")
  /\ UNCHANGED <<plan, mine, made, boards, known, turns>>

InsertFilter(t) ==
  /\ th[t].pc = "insert" /\ made < MaxFilters
  /\ made' = made + 1
  /\ mine' = [i \in DOMAIN mine \cup {made'} |->
                IF i = made' THEN [on |-> TRUE, text |-> "old"] ELSE mine[i]]
  /\ Goes(t, "read")
  /\ UNCHANGED <<plan, boards, known, turns>>

-----------------------------------------------------------------------------
(* Changes of a row *)

Changed(op, i) ==
  CASE op \in {"delete", "drop"} -> Restrict(mine, DOMAIN mine \ {i})
    [] op \in {"toggle", "pick", "click"} -> [mine EXCEPT ![i].on = ~@]
    [] op = "edit" -> [mine EXCEPT ![i].text = "new"]

\* Where a handler goes on: menus and the dashboard answer before anything else.
NextPc(op) == IF op \in {"pick", "drop"} THEN "respond" ELSE IF op = "click" THEN "look" ELSE "read"

\* Mutation: a toggle command does not touch the dashboard.
ChangeUnseen(t) ==
  LET s == th[t] IN
  /\ s.pc = "change"
  /\ IF s.id \in DOMAIN mine
     THEN /\ mine' = Changed(s.op, s.id)
          /\ IF s.op = "toggle" THEN Ends(t, TRUE) ELSE Goes(t, NextPc(s.op))
     ELSE UNCHANGED mine /\ Refused(t)
  /\ UNCHANGED <<plan, made, boards, known, turns>>

\* The handlers of an existing filter: its owner's row, or nothing.
ChangeFilter(t) ==
  LET s == th[t] IN
  /\ s.pc = "change"
  /\ IF s.id \in DOMAIN mine
     THEN mine' = Changed(s.op, s.id) /\ Goes(t, NextPc(s.op))
     ELSE UNCHANGED mine /\ Refused(t)
  /\ UNCHANGED <<plan, made, boards, known, turns>>

\* handle_alert_pause_select, handle_alert_delete_select: the panel is brought
\* up to date, its plan from the roles, and only then the dashboard.
RespondPanel(t) ==
  /\ th[t].pc = "respond"
  /\ \E role \in DOMAIN Limits \cup {"none"} : plan' = WithRole(role)
  /\ Goes(t, "read")
  /\ UNCHANGED <<mine, made, boards, known, turns>>

\* handle_alert_dm_toggle: only the message that was clicked is brought up to date.
LookAtRows(t) ==
  /\ th[t].pc = "look"
  /\ th' = [th EXCEPT ![t].pc = "update", ![t].view = mine] /\ UNCHANGED doubt
  /\ UNCHANGED <<plan, mine, made, boards, known, turns>>

UpdateClicked(t) ==
  /\ th[t].pc = "update"
  /\ boards' = [boards EXCEPT ![th[t].msg] = th[t].view]
  /\ Ends(t, th[t].msg = known)
  /\ UNCHANGED <<plan, mine, made, known, turns>>

-----------------------------------------------------------------------------
(* sync_resello_filters_dm *)

ReadRows(t) ==
  /\ th[t].pc = "read"
  /\ th' = [th EXCEPT ![t].pc = IF known = 0 THEN "send" ELSE "edit",
                      ![t].view = mine, ![t].msg = known]
  /\ UNCHANGED <<plan, mine, made, boards, known, turns, doubt>>

\* An edit that fails (the message was deleted, say) is followed by a new message.
EditBoard(t) ==
  /\ th[t].pc = "edit"
  /\ \/ /\ boards' = [boards EXCEPT ![th[t].msg] = th[t].view]
        /\ Goes(t, "save") /\ UNCHANGED turns
     \/ UNCHANGED boards /\ Goes(t, "send") /\ Spent
  /\ UNCHANGED <<plan, mine, made, known>>

SendBoard(t) ==
  /\ th[t].pc = "send"
  /\ LET new == Cardinality(DOMAIN boards) + 1 IN
     /\ boards' = [b \in DOMAIN boards \cup {new} |-> IF b = new THEN th[t].view ELSE boards[b]]
     /\ th' = [th EXCEPT ![t].pc = "save", ![t].msg = new]
  /\ UNCHANGED <<plan, mine, made, known, turns, doubt>>

SaveBoard(t) ==
  /\ th[t].pc = "save"
  /\ known' = th[t].msg /\ Ends(t, TRUE)
  /\ UNCHANGED <<plan, mine, made, boards, turns>>

\* A transaction or a request fails: the thread ends with what it did so far.
CallFails(t) ==
  /\ th[t].pc # "idle" /\ Spent
  /\ IF th[t].pc \in {"align", "count", "insert", "change"} THEN Refused(t) ELSE Ends(t, FALSE)
  /\ UNCHANGED <<plan, mine, made, boards, known>>

-----------------------------------------------------------------------------

\* deactivate_all_user_filters, after an admin's /set-plan or the end of the
\* subscription at Whop: the dashboard is not told.
PauseAll ==
  /\ Spent
  /\ \/ \E p \in DOMAIN Limits :
          /\ plan' = [name |-> p, active |-> TRUE]
          /\ mine' = IF Limits[p] <= 0 THEN [i \in DOMAIN mine |-> [mine[i] EXCEPT !.on = FALSE]] ELSE mine
     \/ /\ plan' = [plan EXCEPT !.active = FALSE]
        /\ mine' = [i \in DOMAIN mine |-> [mine[i] EXCEPT !.on = FALSE]]
  /\ doubt' = (doubt \/ mine' # mine)
  /\ th' = Disturbed
  /\ UNCHANGED <<made, boards, known>>

ThreadStep(t) ==
  \/ Arrives(t) \/ AlignPlan(t) \/ CountFilters(t) \/ InsertFilter(t) \/ ChangeFilter(t)
  \/ RespondPanel(t) \/ LookAtRows(t) \/ UpdateClicked(t)
  \/ ReadRows(t) \/ EditBoard(t) \/ SendBoard(t) \/ SaveBoard(t) \/ CallFails(t)

MembersNext == (\E t \in Thread : ThreadStep(t)) \/ PauseAll

MembersSpec == MembersInit /\ [][MembersNext]_fvars

-----------------------------------------------------------------------------

MembersTypeOK ==
  /\ plan \in [name : DOMAIN Limits, active : BOOLEAN]
  /\ made \in 0..MaxFilters /\ DOMAIN mine \subseteq 1..made /\ \A i \in DOMAIN mine : mine[i] \in Filter
  /\ known \in {0} \cup DOMAIN boards /\ turns \in 0..MaxTurns /\ doubt \in BOOLEAN

\* The quota of the largest plan is only passed by creations that counted at
\* the same time: by one filter less than there are threads, however the plan
\* changes and whatever is deleted meanwhile.
QuotaKept ==
  \E p \in DOMAIN Limits :
    Cardinality(DOMAIN mine) <= Limits[p] + Cardinality(Thread) - 1

\* When nobody is at work, and the last change was followed by a
\* synchronisation that ran alone and did not fail, the dashboard that the
\* table knows shows the filters as they are, after replacements of the
\* message and clicks on old copies too.
DashboardCurrent ==
  BusyThreads = {} /\ ~doubt /\ known # 0 => boards[known] = mine

=============================================================================
