------------------------- MODULE WhopSubscriptions -------------------------
(***************************************************************************)
(* The members' subscriptions: Whop announces payments and their end to a  *)
(* threading HTTP server, members claim payments and make filters through  *)
(* Discord interactions, each in a thread of its own; the plans are kept   *)
(* in Postgres and mirrored to roles on Discord.  One action is one        *)
(* database transaction, one Discord request or one read of the process's  *)
(* memory.                                                                 *)
(***************************************************************************)
EXTENDS Integers, FiniteSets

CONSTANTS
  Member,        \* Discord accounts
  Membership,    \* Whop memberships (mem_...)
  NoMember,      \* no account (yet)
  NoMembership,  \* whop_membership_id is NULL
  Plan,          \* plans with a Discord role of their own
  PlanOf,        \* [Membership -> Plan]: the plan of the product bought
  Buyer,         \* [Membership -> Member]: the account of who pays
  Linked,        \* memberships whose event or Whop profile names the buyer's account
  Handler,       \* threads of the HTTP server and of the interactions
  Budget         \* bound: interactions, failures, restarts and repeated events together

ASSUME PlanAssumption == "starter" \in Plan /\ Plan \subseteq {"starter", "premium", "elite"}
ASSUME MembershipAssumption ==
  /\ PlanOf \in [Membership -> Plan] /\ Buyer \in [Membership -> Member]
  /\ Linked \subseteq Membership
  /\ NoMember \notin Member /\ NoMembership \notin Membership
ASSUME BoundAssumption == Budget \in Nat

Event == {"activated", "deactivated"} \X Membership
Row == [plan : Plan, active : BOOLEAN, mem : Membership \cup {NoMembership}]
ClaimRow == [st : {"none", "open", "used"}, by : Member \cup {NoMember}]
Op == {"on", "auto", "off", "claim", "set", "filter"}
Pc == {"idle", "store", "intents", "rules", "byIntent", "byRules", "activate", "lookup", "deactivate",
       "find", "fetch", "persist", "sync", "restore", "mark", "align", "create"}
\* roles: those a sync has still to remove, or those the interaction came with.
Local == [pc : Pc, op : Op, mem : Membership \cup {NoMembership}, who : Member \cup {NoMember},
          plan : Plan, cand : SUBSET Member, roles : SUBSET Plan]

VARIABLES
  whop,       \* state of each membership at Whop
  events,     \* webhook events not (successfully) delivered yet
  member,     \* discord_member_plans
  claim,      \* whop_pending_claims
  filters,    \* whether a member has an active filter, only paused ones, or none
  roles,      \* subscription roles of each member on Discord
  intent,     \* _checkout_intents of the last 30 minutes: a plan, or "none"
  rules,      \* _recent_reglement: accepted the rules in the last 30 minutes
  h,          \* local state of each handler
  faults,     \* failures so far
  restarts,   \* process restarts so far
  calls,      \* interactions so far
  activated,  \* history: <<m, x>> when the plan of m was once activated for membership x
  granted,    \* history: members an admin gave a plan
  mess        \* history: members whose last role sync failed or did not run alone

tables == <<member, claim, filters>>
memory == <<intent, rules>>
bounds == <<faults, restarts, calls>>
hist == <<activated, granted, mess>>
vars == <<whop, events, tables, roles, memory, h, bounds, hist>>

Idle == [pc |-> "idle", op |-> "on", mem |-> NoMembership, who |-> NoMember,
         plan |-> "starter", cand |-> {}, roles |-> {}]
NoRow == [plan |-> "starter", active |-> FALSE, mem |-> NoMembership]
Unclaimed == [st |-> "none", by |-> NoMember]

\* roles_for_plan: one role for an active plan; the other roles are to be removed.
RolesFor(row) == IF row.active THEN {row.plan} ELSE {}

Affordable == faults + restarts + calls < Budget
Fault == Affordable /\ faults' = faults + 1 /\ UNCHANGED <<restarts, calls>>
Call == Affordable /\ calls' = calls + 1 /\ UNCHANGED <<faults, restarts>>

\* Another handler is in the middle of the role sync of m.
Syncing(m, t) == \E o \in Handler \ {t} : h[o].who = m /\ h[o].pc = "sync"

Init ==
  /\ whop = [x \in Membership |-> "none"] /\ events = {}
  /\ member = [m \in Member |-> NoRow]
  /\ claim = [x \in Membership |-> Unclaimed]
  /\ filters = [m \in Member |-> "none"]
  /\ roles = [m \in Member |-> {}]
  /\ intent = [m \in Member |-> "none"] /\ rules = {}
  /\ h = [t \in Handler |-> Idle]
  /\ faults = 0 /\ restarts = 0 /\ calls = 0
  /\ activated = {} /\ granted = {} /\ mess = {}

----------------------------------------------------------------------------
(* Whop *)

Pay(x) ==
  /\ whop[x] = "none"
  /\ whop' = [whop EXCEPT ![x] = "valid"]
  /\ events' = events \cup {<<"activated", x>>}
  /\ UNCHANGED <<tables, roles, memory, h, bounds, hist>>

End(x) ==
  /\ whop[x] = "valid"
  /\ whop' = [whop EXCEPT ![x] = "ended"]
  /\ events' = events \cup {<<"deactivated", x>>}
  /\ UNCHANGED <<tables, roles, memory, h, bounds, hist>>

\* The event a handler works for, if any.
EventOf(s) ==
  IF s.pc = "idle" THEN {}
  ELSE IF s.op \in {"on", "auto"} THEN {<<"activated", s.mem>>}
  ELSE IF s.op = "off" THEN {<<"deactivated", s.mem>>} ELSE {}

\* The answer takes too long and the event is sent again.
Resend(t) ==
  /\ EventOf(h[t]) # {} /\ Fault
  /\ events' = events \cup EventOf(h[t])
  /\ UNCHANGED <<whop, tables, roles, memory, h, hist>>

----------------------------------------------------------------------------
(* Activation events: handle_whop_event *)

\* The buyer's account is named by the event or by Whop's API (which may fail).
ReceiveActivated(t, x) ==
  /\ h[t].pc = "idle" /\ <<"activated", x>> \in events
  /\ events' = events \ {<<"activated", x>>}
  /\ \/ /\ x \in Linked
        /\ h' = [h EXCEPT ![t] = [Idle EXCEPT !.pc = "activate", !.mem = x, !.plan = PlanOf[x],
                                              !.who = Buyer[x]]]
        /\ UNCHANGED bounds
     \/ /\ IF x \in Linked THEN Fault ELSE UNCHANGED bounds
        /\ h' = [h EXCEPT ![t] = [Idle EXCEPT !.pc = "store", !.mem = x, !.plan = PlanOf[x]]]
  /\ UNCHANGED <<whop, tables, roles, memory, hist>>

\* Mutation: the claim is kept in memory only.
StoreInMemory(t, failed) ==
  /\ h[t].pc \in {"store", "restore", "persist"}
  /\ UNCHANGED claim
  /\ IF failed THEN Fault ELSE UNCHANGED bounds
  /\ h' = [h EXCEPT ![t].pc = CASE @ = "store" -> "intents" [] @ = "restore" -> "mark" [] OTHER -> "activate"]
  /\ UNCHANGED <<whop, events, member, filters, roles, memory, hist>>

\* store_pending_claim opens the claim (again); a failure of the database is
\* swallowed.  (The copy in _pending_claims is never read.)
Store(t, failed) ==
  /\ h[t].pc \in {"store", "restore", "persist"}
  /\ IF failed THEN Fault /\ UNCHANGED claim
     ELSE claim' = [claim EXCEPT ![h[t].mem] = [st |-> "open", by |-> NoMember]] /\ UNCHANGED bounds
  /\ h' = [h EXCEPT ![t].pc = CASE @ = "store" -> "intents" [] @ = "restore" -> "mark" [] OTHER -> "activate"]
  /\ UNCHANGED <<whop, events, member, filters, roles, memory, hist>>

\* recent_checkout_intent_candidates, then recent_reglement_candidates.
ReadIntents(t) ==
  /\ h[t].pc = "intents"
  /\ LET cand == {m \in Member : intent[m] = h[t].plan}
     IN  h' = [h EXCEPT ![t] = [@ EXCEPT !.pc = IF cand = {} THEN "rules" ELSE "byIntent", !.cand = cand]]
  /\ UNCHANGED <<whop, events, tables, roles, memory, bounds, hist>>

ReadRules(t) ==
  /\ h[t].pc = "rules"
  /\ h' = [h EXCEPT ![t] = IF rules = {} THEN Idle ELSE [@ EXCEPT !.pc = "byRules", !.cand = rules]]
  /\ UNCHANGED <<whop, events, tables, roles, memory, bounds, hist>>

\* A payment goes to the only candidate without an active subscription; when the
\* database fails, every candidate counts.
Elect(t, failed) ==
  /\ h[t].pc \in {"byIntent", "byRules"}
  /\ IF failed THEN Fault ELSE UNCHANGED bounds
  /\ LET eligible == {m \in h[t].cand : failed \/ ~member[m].active}
     IN  h' = [h EXCEPT ![t] =
           IF Cardinality(eligible) = 1
           THEN [@ EXCEPT !.pc = "activate", !.op = "auto", !.cand = {},
                          !.who = CHOOSE m \in eligible : TRUE]
           ELSE IF @.pc = "byIntent" THEN [@ EXCEPT !.pc = "rules", !.cand = {}] ELSE Idle]
  /\ UNCHANGED <<whop, events, tables, roles, memory, hist>>

----------------------------------------------------------------------------
(* activate_subscription, deactivate_subscription, sync_subscription_roles *)

\* The role sync of m begins.
BeginSync(t, m) == mess' = IF Syncing(m, t) THEN mess \cup {m} ELSE mess \ {m}

\* Mutation: the new role is added to the old ones.
ActivateOnTop(t) ==
  LET m == h[t].who
  IN  /\ h[t].pc = "activate"
      /\ member' = [member EXCEPT ![m] = [plan |-> h[t].plan, active |-> TRUE, mem |-> h[t].mem]]
      /\ h' = [h EXCEPT ![t].pc = "sync"]
      /\ activated' = activated \cup {<<m, h[t].mem>>}
      /\ BeginSync(t, m)
      /\ UNCHANGED <<whop, events, claim, filters, roles, memory, bounds, granted>>

Activate(t) ==
  LET m == h[t].who
  IN  /\ h[t].pc = "activate"
      /\ member' = [member EXCEPT ![m] = [plan |-> h[t].plan, active |-> TRUE, mem |-> h[t].mem]]
      /\ h' = [h EXCEPT ![t] = [@ EXCEPT !.pc = "sync", !.roles = Plan \ {h[t].plan}]]
      /\ activated' = activated \cup {<<m, h[t].mem>>}
      /\ BeginSync(t, m)
      /\ UNCHANGED <<whop, events, claim, filters, roles, memory, bounds, granted>>

\* The member falls back to an inactive starter plan and all filters are paused.
Deactivate(t) ==
  LET m == h[t].who
  IN  /\ h[t].pc = "deactivate"
      /\ member' = [member EXCEPT ![m] = [plan |-> "starter", active |-> FALSE, mem |-> h[t].mem]]
      /\ filters' = [filters EXCEPT ![m] = IF @ = "on" THEN "paused" ELSE @]
      /\ h' = [h EXCEPT ![t] = [@ EXCEPT !.pc = "sync", !.roles = Plan]]
      /\ BeginSync(t, m)
      /\ UNCHANGED <<whop, events, claim, roles, memory, bounds, activated, granted>>

\* What a handler does once the roles are set.
AfterSync(s) ==
  IF s.op = "auto" THEN [s EXCEPT !.pc = "restore"]
  ELSE IF s.op = "claim" THEN [s EXCEPT !.pc = "mark"] ELSE Idle

\* Without a role left to remove or to add the handler is done.
AfterDrop(s, p) == IF s.op = "off" /\ s.roles = {p} THEN Idle ELSE [s EXCEPT !.roles = @ \ {p}]

\* First the other roles are removed, one request for each; the error of one does not
\* stop the others.
DropRole(t, p, failed) ==
  /\ h[t].pc = "sync" /\ p \in h[t].roles
  /\ IF failed THEN Fault /\ mess' = mess \cup {h[t].who} /\ UNCHANGED roles
     ELSE roles' = [roles EXCEPT ![h[t].who] = @ \ {p}] /\ UNCHANGED <<bounds, mess>>
  /\ h' = [h EXCEPT ![t] = AfterDrop(@, p)]
  /\ UNCHANGED <<whop, events, tables, memory, activated, granted>>

\* Then the role of an active plan is added.
AddRole(t, failed) ==
  /\ h[t].pc = "sync" /\ h[t].roles = {}
  /\ IF failed THEN Fault /\ mess' = mess \cup {h[t].who} /\ UNCHANGED roles
     ELSE roles' = [roles EXCEPT ![h[t].who] = @ \cup {h[t].plan}] /\ UNCHANGED <<bounds, mess>>
  /\ h' = [h EXCEPT ![t] = AfterSync(@)]
  /\ UNCHANGED <<whop, events, tables, memory, activated, granted>>

\* mark_claim_used (failures are swallowed); an automatic claim, which has stored the
\* claim again before, also takes the member's intent away.
MarkUsed(t, failed) ==
  /\ h[t].pc = "mark"
  /\ IF failed THEN Fault ELSE UNCHANGED bounds
  /\ claim' = IF failed \/ claim[h[t].mem].st = "none" THEN claim
              ELSE [claim EXCEPT ![h[t].mem] = [st |-> "used", by |-> h[t].who]]
  /\ intent' = IF h[t].op = "auto" THEN [intent EXCEPT ![h[t].who] = "none"] ELSE intent
  /\ h' = [h EXCEPT ![t] = Idle]
  /\ UNCHANGED <<whop, events, member, filters, roles, rules, hist>>

----------------------------------------------------------------------------
(* Deactivation events *)

ReceiveDeactivated(t, x) ==
  /\ h[t].pc = "idle" /\ <<"deactivated", x>> \in events
  /\ events' = events \ {<<"deactivated", x>>}
  /\ h' = [h EXCEPT ![t] = [Idle EXCEPT !.pc = "lookup", !.op = "off", !.mem = x]]
  /\ UNCHANGED <<whop, tables, roles, memory, bounds, hist>>

\* One transaction looks for the member: by membership, else by the account the event
\* names; a member who has another membership by now is left alone.
Lookup(t, m) ==
  LET x == h[t].mem
      holders == {a \in Member : member[a].mem = x}
  IN  /\ h[t].pc = "lookup"
      /\ IF holders # {} THEN m \in holders
         ELSE m = NoMember \/ (x \in Linked /\ m = Buyer[x])
      /\ h' = [h EXCEPT ![t] =
           IF m = NoMember \/ member[m].mem \notin {x, NoMembership} THEN Idle
           ELSE [@ EXCEPT !.pc = "deactivate", !.who = m]]
      /\ UNCHANGED <<whop, events, tables, roles, memory, bounds, hist>>

----------------------------------------------------------------------------
(* Interactions of the members and the admin *)

ClickCheckout(m, p) ==
  /\ Call
  /\ intent' = [intent EXCEPT ![m] = p]
  /\ UNCHANGED <<whop, events, tables, roles, rules, h, hist>>

AcceptRules(m) ==
  /\ Call
  /\ rules' = rules \cup {m}
  /\ UNCHANGED <<whop, events, tables, roles, intent, h, hist>>

\* Thirty minutes later.
Forget(m) ==
  /\ \/ intent[m] # "none" /\ intent' = [intent EXCEPT ![m] = "none"] /\ UNCHANGED rules
     \/ m \in rules /\ rules' = rules \ {m} /\ UNCHANGED intent
  /\ UNCHANGED <<whop, events, tables, roles, h, bounds, hist>>

\* claim_whop_access, by whoever gives a reference: the id of the membership x (byId),
\* the license key of x or the e-mail of the payment.
StartClaim(t, m, x, byId) ==
  /\ h[t].pc = "idle" /\ whop[x] # "none" /\ Call
  /\ h' = [h EXCEPT ![t] = [Idle EXCEPT !.pc = "find", !.op = "claim", !.mem = x, !.who = m,
                                        !.plan = PlanOf[x], !.cand = IF byId THEN {m} ELSE {}]]
  /\ UNCHANGED <<whop, events, tables, roles, memory, hist>>

\* Mutation: the claim is marked in the transaction that finds it.
FindAndMark(t) ==
  /\ h[t].pc = "find"
  /\ h' = [h EXCEPT ![t] =
       IF claim[@.mem].st = "open" THEN [@ EXCEPT !.pc = "activate", !.cand = {}]
       ELSE IF @.cand # {} THEN [@ EXCEPT !.pc = "fetch"] ELSE Idle]
  /\ claim' = IF claim[h[t].mem].st = "open"
              THEN [claim EXCEPT ![h[t].mem] = [st |-> "used", by |-> h[t].who]] ELSE claim
  /\ UNCHANGED <<whop, events, member, filters, roles, memory, bounds, hist>>

\* find_open_claim; only the id of a membership leads on to Whop's API.
Find(t) ==
  /\ h[t].pc = "find"
  /\ h' = [h EXCEPT ![t] =
       IF claim[@.mem].st = "open" THEN [@ EXCEPT !.pc = "activate", !.cand = {}]
       ELSE IF @.cand # {} THEN [@ EXCEPT !.pc = "fetch"] ELSE Idle]
  /\ UNCHANGED <<whop, events, tables, roles, memory, bounds, hist>>

\* fetch_whop_membership answers, or not.
Fetch(t, failed) ==
  /\ h[t].pc = "fetch"
  /\ IF failed THEN Fault ELSE UNCHANGED bounds
  /\ h' = [h EXCEPT ![t] = IF failed THEN Idle ELSE [@ EXCEPT !.pc = "persist", !.cand = {}]]
  /\ UNCHANGED <<whop, events, tables, roles, memory, hist>>

\* handle_set_plan: the plan is active whatever Whop says; a plan without filters
\* pauses them.
SetPlan(t, m, p) ==
  /\ h[t].pc = "idle" /\ Call
  /\ member' = [member EXCEPT ![m] = [@ EXCEPT !.plan = p, !.active = TRUE]]
  /\ filters' = [filters EXCEPT ![m] = IF p = "starter" /\ @ = "on" THEN "paused" ELSE @]
  /\ h' = [h EXCEPT ![t] = [Idle EXCEPT !.pc = "sync", !.op = "set", !.who = m, !.plan = p,
                                        !.roles = Plan \ {p}]]
  /\ granted' = granted \cup {m}
  /\ BeginSync(t, m)
  /\ UNCHANGED <<whop, events, claim, roles, memory, activated>>

\* A member asks for a new filter; the interaction carries the roles of this moment.
AskFilter(t, m) ==
  /\ h[t].pc = "idle" /\ Call
  /\ h' = [h EXCEPT ![t] = [Idle EXCEPT !.pc = "align", !.op = "filter", !.who = m, !.roles = roles[m]]]
  /\ UNCHANGED <<whop, events, tables, roles, memory, hist>>

\* Mutation: a member without any role counts as a starter.
PlanFromRolesOrStarter(R) ==
  IF "elite" \in R THEN "elite" ELSE IF "premium" \in R THEN "premium" ELSE "starter"

\* _plan_from_discord_roles
PlanFromRoles(R) ==
  IF "elite" \in R THEN "elite"
  ELSE IF "premium" \in R THEN "premium"
  ELSE IF "starter" \in R THEN "starter" ELSE "none"

\* _align_db_plan_with_roles believes the roles: an active subscription and, above the
\* starter plan, the plan are written to the table.
Aligned(row, p) ==
  IF p \in {"none", "starter"} /\ (p = "none" \/ row.active) THEN row
  ELSE [row EXCEPT !.plan = p, !.active = TRUE]

\* Then the gate, with the aligned plan: active or some role, and a plan with filters.
Align(t) ==
  LET m == h[t].who
      p == PlanFromRoles(h[t].roles)
      row == Aligned(member[m], p)
      plan == IF p = "none" THEN row.plan ELSE p
  IN  /\ h[t].pc = "align"
      /\ member' = [member EXCEPT ![m] = row]
      /\ mess' = IF row # member[m] /\ (Syncing(m, t) \/ roles[m] # h[t].roles)
                 THEN mess \cup {m} ELSE mess
      /\ h' = [h EXCEPT ![t] = IF row.active /\ plan # "starter"
                               THEN [@ EXCEPT !.pc = "create"] ELSE Idle]
      /\ UNCHANGED <<whop, events, claim, filters, roles, memory, bounds, activated, granted>>

CreateFilter(t) ==
  /\ h[t].pc = "create"
  /\ filters' = [filters EXCEPT ![h[t].who] = "on"]
  /\ h' = [h EXCEPT ![t] = Idle]
  /\ UNCHANGED <<whop, events, member, claim, roles, memory, bounds, hist>>

\* A member pauses or resumes a filter; nothing else is looked at.
ToggleFilter(m) ==
  /\ Call /\ filters[m] # "none"
  /\ filters' = [filters EXCEPT ![m] = IF @ = "on" THEN "paused" ELSE "on"]
  /\ UNCHANGED <<whop, events, member, claim, roles, memory, h, hist>>

----------------------------------------------------------------------------
(* Failures *)

\* A transaction that is not protected fails: the handler ends, and an event is
\* answered with 200 all the same.
TransactionFails(t) ==
  /\ h[t].pc \in {"activate", "deactivate", "lookup", "find", "align", "create"} /\ Fault
  /\ h' = [h EXCEPT ![t] = Idle]
  /\ UNCHANGED <<whop, events, tables, roles, memory, hist>>

\* Redeploy or crash: events without an answer are sent again.
Restart ==
  /\ Affordable /\ restarts' = restarts + 1
  /\ events' = events \cup UNION {EventOf(h[t]) : t \in Handler}
  /\ mess' = mess \cup {m \in Member : \E t \in Handler : h[t].who = m /\ h[t].pc = "sync"}
  /\ h' = [t \in Handler |-> Idle]
  /\ intent' = [m \in Member |-> "none"] /\ rules' = {}
  /\ UNCHANGED <<whop, tables, roles, faults, calls, activated, granted>>

----------------------------------------------------------------------------
Whop == (\E x \in Membership : Pay(x) \/ End(x)) \/ (\E t \in Handler : Resend(t))

Activation(t) ==
  \/ \E x \in Membership : ReceiveActivated(t, x)
  \/ \E failed \in BOOLEAN : Store(t, failed)
  \/ ReadIntents(t)
  \/ ReadRules(t)
  \/ \E failed \in BOOLEAN : Elect(t, failed)
  \/ Activate(t)
  \/ \E failed \in BOOLEAN : MarkUsed(t, failed)

Deactivation(t) ==
  \/ \E x \in Membership : ReceiveDeactivated(t, x)
  \/ \E m \in Member \cup {NoMember} : Lookup(t, m)
  \/ Deactivate(t)

RoleSync(t) ==
  \/ \E p \in Plan, failed \in BOOLEAN : DropRole(t, p, failed)
  \/ \E failed \in BOOLEAN : AddRole(t, failed)

Interaction(t) ==
  \/ \E m \in Member, x \in Membership, byId \in BOOLEAN : StartClaim(t, m, x, byId)
  \/ Find(t)
  \/ \E failed \in BOOLEAN : Fetch(t, failed)
  \/ \E m \in Member, p \in Plan : SetPlan(t, m, p)
  \/ \E m \in Member : AskFilter(t, m)
  \/ Align(t)
  \/ CreateFilter(t)

Memory ==
  \/ \E m \in Member, p \in Plan : ClickCheckout(m, p)
  \/ \E m \in Member : AcceptRules(m) \/ Forget(m) \/ ToggleFilter(m)

Next ==
  \/ Whop
  \/ \E t \in Handler : Activation(t) \/ Deactivation(t) \/ RoleSync(t) \/ Interaction(t)
  \/ Memory
  \/ \E t \in Handler : TransactionFails(t)
  \/ Restart

Spec == Init /\ [][Next]_vars

----------------------------------------------------------------------------
(* Properties *)

(* The types of the tables, of the roles, of the memory and of the handlers. *)
TypeOK ==
  /\ whop \in [Membership -> {"none", "valid", "ended"}]
  /\ events \subseteq Event
  /\ member \in [Member -> Row]
  /\ claim \in [Membership -> ClaimRow]
  /\ filters \in [Member -> {"none", "on", "paused"}]
  /\ roles \in [Member -> SUBSET Plan]
  /\ intent \in [Member -> Plan \cup {"none"}]
  /\ rules \subseteq Member
  /\ h \in [Handler -> Local]
  /\ faults \in 0..Budget /\ restarts \in 0..Budget /\ calls \in 0..Budget
  /\ activated \subseteq Member \X Membership
  /\ granted \subseteq Member /\ mess \subseteq Member

(* A member's roles on Discord are those of the plan in the table whenever the last  *)
(* role sync ran alone and without error: each sync repairs whatever the earlier ones *)
(* left, and believing the roles never takes the table away from them.                *)
RolesMatchPlan ==
  \A m \in Member \ mess :
    (\A t \in Handler : h[t].who = m => h[t].pc # "sync") => roles[m] = RolesFor(member[m])

(* A claim is used up only by a member whose plan was activated for it: no failure    *)
(* between the steps of a claim makes a payment vanish.                               *)
UsedClaimActivated ==
  \A x \in Membership : claim[x].st = "used" => <<claim[x].by, x>> \in activated

(* While nothing fails, a payment whose event was handled has activated a plan or can *)
(* be claimed, also when the process is restarted between any two steps.              *)
PaymentReachable ==
  faults = 0 =>
    \A x \in Membership :
      \/ whop[x] = "none"
      \/ <<"activated", x>> \in events \cup UNION {EventOf(h[t]) : t \in Handler}
      \/ claim[x].st # "none"
      \/ \E m \in Member : <<m, x>> \in activated

(* A subscription is active, and its role given, only after a purchase or by an admin *)
(* (models.py:377), although the table believes roles and the roles follow the table. *)
ActiveAfterPurchase ==
  \A m \in Member : member[m].active \/ roles[m] # {} =>
    m \in granted \/ \E x \in Membership : <<m, x>> \in activated

(* The end of an old membership does not take the subscription of a member who has a  *)
(* new one (whop_webhooks.py:1420).                                                   *)
UpgradeKept ==
  [][\A m \in Member : member[m].active /\ ~member'[m].active
       => member[m].mem \in {member'[m].mem, NoMembership}]_vars

=============================================================================
