---------------------- MODULE WhopSubscriptionsProofs ----------------------
(***************************************************************************)
(* Theorems about WhopSubscriptions for every set of members, memberships  *)
(* and handlers, every subset of the plans and every bound.                *)
(***************************************************************************)
EXTENDS WhopSubscriptions, FiniteSetTheorems, TLAPS

(* What a handler knows at each of its steps: whom it works for, and for which      *)
(* membership; a deactivation has roles to remove for as long as it syncs.          *)
Sound(s) ==
  /\ s.pc \notin {"idle", "store", "intents", "rules", "byIntent", "byRules", "lookup"} => s.who \in Member
  /\ s.pc # "idle" /\ s.op \notin {"set", "filter"} => s.mem \in Membership
  /\ s.op = "set" => s.pc = "sync"
  /\ s.op = "filter" => s.pc \in {"align", "create"}
  /\ s.op = "off" => s.pc \in {"lookup", "deactivate", "sync"}
  /\ s.pc \in {"lookup", "deactivate"} => s.op = "off"
  /\ s.op = "off" /\ s.pc = "sync" => s.roles # {}

Handlers == \A t \in Handler : Sound(h[t])

TypeInv == TypeOK /\ Handlers

----------------------------------------------------------------------------
(* Local states *)

(* A state of a handler given field by field.                                       *)
LEMMA LocalFields ==
  ASSUME NEW pc \in Pc, NEW op \in Op, NEW mem \in Membership \cup {NoMembership},
         NEW who \in Member \cup {NoMember}, NEW plan \in Plan,
         NEW cand \in SUBSET Member, NEW R \in SUBSET Plan
  PROVE  [pc |-> pc, op |-> op, mem |-> mem, who |-> who, plan |-> plan,
          cand |-> cand, roles |-> R] \in Local
BY DEF Local

LEMMA LocalParts ==
  ASSUME NEW s \in Local
  PROVE  /\ s.pc \in Pc /\ s.op \in Op /\ s.mem \in Membership \cup {NoMembership}
         /\ s.who \in Member \cup {NoMember} /\ s.plan \in Plan
         /\ s.cand \in SUBSET Member /\ s.roles \in SUBSET Plan
         /\ s = [pc |-> s.pc, op |-> s.op, mem |-> s.mem, who |-> s.who, plan |-> s.plan,
                 cand |-> s.cand, roles |-> s.roles]
BY DEF Local

(* Changing some fields of a handler's state.                                       *)
LEMMA SetPc ==
  ASSUME NEW s \in Local, NEW v
  PROVE  [s EXCEPT !.pc = v]
           = [pc |-> v, op |-> s.op, mem |-> s.mem, who |-> s.who,
              plan |-> s.plan, cand |-> s.cand, roles |-> s.roles]
<1>1. [s EXCEPT !.pc = v]
        = [x \in {"pc", "op", "mem", "who", "plan", "cand", "roles"} |->
             CASE x = "pc" -> v [] OTHER -> s[x]]
  BY DEF Local
<1> QED
  BY <1>1

LEMMA SetPcCand ==
  ASSUME NEW s \in Local, NEW v, NEW C
  PROVE  [s EXCEPT !.pc = v, !.cand = C]
           = [pc |-> v, op |-> s.op, mem |-> s.mem, who |-> s.who,
              plan |-> s.plan, cand |-> C, roles |-> s.roles]
<1>1. [s EXCEPT !.pc = v, !.cand = C]
        = [x \in {"pc", "op", "mem", "who", "plan", "cand", "roles"} |->
             CASE x = "pc" -> v [] x = "cand" -> C [] OTHER -> s[x]]
  BY DEF Local
<1> QED
  BY <1>1

LEMMA SetPcRoles ==
  ASSUME NEW s \in Local, NEW R
  PROVE  [s EXCEPT !.pc = "sync", !.roles = R]
           = [pc |-> "sync", op |-> s.op, mem |-> s.mem, who |-> s.who,
              plan |-> s.plan, cand |-> s.cand, roles |-> R]
<1>1. [s EXCEPT !.pc = "sync", !.roles = R]
        = [x \in {"pc", "op", "mem", "who", "plan", "cand", "roles"} |->
             CASE x = "pc" -> "sync" [] x = "roles" -> R [] OTHER -> s[x]]
  BY DEF Local
<1> QED
  BY <1>1

LEMMA SetElected ==
  ASSUME NEW s \in Local, NEW m
  PROVE  [s EXCEPT !.pc = "activate", !.op = "auto", !.cand = {}, !.who = m]
           = [pc |-> "activate", op |-> "auto", mem |-> s.mem, who |-> m,
              plan |-> s.plan, cand |-> {}, roles |-> s.roles]
<1>1. [s EXCEPT !.pc = "activate", !.op = "auto", !.cand = {}, !.who = m]
        = [x \in {"pc", "op", "mem", "who", "plan", "cand", "roles"} |->
             CASE x = "pc" -> "activate" [] x = "op" -> "auto" [] x = "cand" -> {}
               [] x = "who" -> m [] OTHER -> s[x]]
  BY DEF Local
<1> QED
  BY <1>1

LEMMA IdleLocal == Idle \in Local /\ Sound(Idle)
BY PlanAssumption DEF Idle, Local, Sound, Pc, Op

(* One handler moves to a sound state: all of them are typed and sound.             *)
LEMMA OneMoves ==
  ASSUME TypeInv, NEW t \in Handler, NEW s \in Local, Sound(s), h' = [h EXCEPT ![t] = s]
  PROVE  h' \in [Handler -> Local] /\ Handlers'
<1>1. h' \in [Handler -> Local]
  BY DEF TypeInv, TypeOK
<1>2. ASSUME NEW u \in Handler PROVE Sound(h'[u])
  BY <1>2, h'[u] = IF u = t THEN s ELSE h[u] DEF TypeInv, TypeOK, Handlers
<1> QED
  BY <1>1, <1>2 DEF Handlers

(* The bounds stay within the budget.                                               *)
LEMMA BoundsType ==
  ASSUME TypeInv, Fault \/ Call \/ UNCHANGED bounds
  PROVE  faults' \in 0..Budget /\ restarts' \in 0..Budget /\ calls' \in 0..Budget
BY BoundAssumption DEF TypeInv, TypeOK, Fault, Call, Affordable, bounds

----------------------------------------------------------------------------
(* Type correctness *)

LEMMA WhopType ==
  ASSUME TypeInv, Whop
  PROVE  TypeInv'
<1>1. CASE \E x \in Membership : Pay(x) \/ End(x)
  <2>1. PICK x \in Membership : Pay(x) \/ End(x)
    BY <1>1
  <2>2. /\ whop' \in [Membership -> {"none", "valid", "ended"}]
        /\ events' \subseteq Event
    BY <2>1 DEF TypeInv, TypeOK, Event, Pay, End
  <2>3. UNCHANGED <<tables, roles, memory, h, bounds, hist>>
    BY <2>1 DEF Pay, End
  <2> QED
    BY <2>2, <2>3 DEF TypeInv, TypeOK, Handlers, tables, memory, bounds, hist
<1>2. CASE \E t \in Handler : Resend(t)
  <2>1. PICK t \in Handler : Resend(t)
    BY <1>2
  <2>2. h[t] \in Local /\ Sound(h[t])
    BY DEF TypeInv, TypeOK, Handlers
  <2>3. EventOf(h[t]) \subseteq Event
    BY <2>2 DEF EventOf, Event, Sound
  <2>4. UNCHANGED <<whop, tables, roles, memory, h, hist>> /\ events' \subseteq Event
    BY <2>1, <2>3 DEF Resend, TypeInv, TypeOK
  <2>5. faults' \in 0..Budget /\ restarts' \in 0..Budget /\ calls' \in 0..Budget
    BY <2>1, BoundsType DEF Resend
  <2> QED
    BY <2>4, <2>5 DEF TypeInv, TypeOK, Handlers, tables, memory, bounds, hist
<1> QED
  BY <1>1, <1>2 DEF Whop

(* What an action on one handler and some tables has to show.                       *)
LEMMA HandlerStepType ==
  ASSUME TypeInv, NEW t \in Handler, NEW s \in Local, Sound(s), h' = [h EXCEPT ![t] = s],
         whop' \in [Membership -> {"none", "valid", "ended"}], events' \subseteq Event,
         member' \in [Member -> Row], claim' \in [Membership -> ClaimRow],
         filters' \in [Member -> {"none", "on", "paused"}], roles' \in [Member -> SUBSET Plan],
         intent' \in [Member -> Plan \cup {"none"}], UNCHANGED rules,
         Fault \/ Call \/ UNCHANGED bounds,
         activated' \subseteq Member \X Membership, granted' \subseteq Member, mess' \subseteq Member
  PROVE  TypeInv'
<1>1. h' \in [Handler -> Local] /\ Handlers'
  BY OneMoves
<1>2. faults' \in 0..Budget /\ restarts' \in 0..Budget /\ calls' \in 0..Budget
  BY BoundsType
<1> QED
  BY <1>1, <1>2 DEF TypeInv, TypeOK

LEMMA ReceiveActivatedType ==
  ASSUME TypeInv, NEW t \in Handler, NEW x \in Membership, ReceiveActivated(t, x)
  PROVE  TypeInv'
<1> DEFINE s == [pc |-> "activate", op |-> "on", mem |-> x, who |-> Buyer[x], plan |-> PlanOf[x],
                 cand |-> {}, roles |-> {}]
           u == [pc |-> "store", op |-> "on", mem |-> x, who |-> NoMember, plan |-> PlanOf[x],
                 cand |-> {}, roles |-> {}]
<1>1. PlanOf[x] \in Plan /\ Buyer[x] \in Member
  BY MembershipAssumption
<1>2. s \in Local /\ u \in Local /\ Sound(s) /\ Sound(u)
  BY <1>1, LocalFields DEF Sound, Pc, Op
<1>3. h' = [h EXCEPT ![t] = s] \/ h' = [h EXCEPT ![t] = u]
  BY DEF ReceiveActivated, Idle
<1>4. Fault \/ UNCHANGED bounds
  BY DEF ReceiveActivated
<1>5. UNCHANGED <<whop, tables, roles, memory, hist>> /\ events' \subseteq Event
  BY DEF ReceiveActivated, TypeInv, TypeOK
<1> HIDE DEF s, u
<1> QED
  BY <1>2, <1>3, <1>4, <1>5, HandlerStepType DEF TypeInv, TypeOK, tables, memory, hist

LEMMA StoreType ==
  ASSUME TypeInv, NEW t \in Handler, NEW failed \in BOOLEAN, Store(t, failed)
  PROVE  TypeInv'
<1> DEFINE pc == CASE h[t].pc = "store" -> "intents" [] h[t].pc = "restore" -> "mark" [] OTHER -> "activate"
           s == [pc |-> pc, op |-> h[t].op, mem |-> h[t].mem, who |-> h[t].who, plan |-> h[t].plan,
                 cand |-> h[t].cand, roles |-> h[t].roles]
<1>1. h[t] \in Local /\ Sound(h[t]) /\ h[t].pc \in {"store", "restore", "persist"}
  BY DEF TypeInv, TypeOK, Handlers, Store
<1>2. pc \in Pc
  BY DEF Pc
<1>3. s \in Local
  BY <1>1, <1>2, LocalFields, LocalParts
<1>4. Sound(s)
  BY <1>1 DEF Sound
<1>5. h' = [h EXCEPT ![t] = s]
  <2>1. h' = [h EXCEPT ![t] = [h[t] EXCEPT !.pc = pc]]
    BY DEF Store
  <2> QED
    BY <1>1, <2>1, SetPc
<1>6. claim' \in [Membership -> ClaimRow]
  BY DEF Store, TypeInv, TypeOK, ClaimRow
<1>7. Fault \/ UNCHANGED bounds
  BY DEF Store
<1>8. UNCHANGED <<whop, events, member, filters, roles, memory, hist>>
  BY DEF Store
<1> HIDE DEF s
<1> QED
  BY <1>3, <1>4, <1>5, <1>6, <1>7, <1>8, HandlerStepType DEF TypeInv, TypeOK, memory, hist

LEMMA ReadIntentsType ==
  ASSUME TypeInv, NEW t \in Handler, ReadIntents(t)
  PROVE  TypeInv'
<1> DEFINE cand == {m \in Member : intent[m] = h[t].plan}
           s == [pc |-> IF cand = {} THEN "rules" ELSE "byIntent", op |-> h[t].op, mem |-> h[t].mem,
                 who |-> h[t].who, plan |-> h[t].plan, cand |-> cand, roles |-> h[t].roles]
<1>1. h[t] \in Local /\ Sound(h[t]) /\ h[t].pc = "intents"
  BY DEF TypeInv, TypeOK, Handlers, ReadIntents
<1>2. s \in Local
  BY <1>1, LocalFields, LocalParts DEF Pc
<1>3. Sound(s)
  BY <1>1 DEF Sound
<1>4. h' = [h EXCEPT ![t] = s]
  <2>1. h' = [h EXCEPT ![t] = [h[t] EXCEPT !.pc = IF cand = {} THEN "rules" ELSE "byIntent", !.cand = cand]]
    BY DEF ReadIntents
  <2> HIDE DEF cand
  <2> QED
    BY <1>1, <2>1, SetPcCand
<1>5. UNCHANGED <<whop, events, tables, roles, memory, bounds, hist>>
  BY DEF ReadIntents
<1> HIDE DEF s
<1> QED
  BY <1>2, <1>3, <1>4, <1>5, HandlerStepType DEF TypeInv, TypeOK, tables, memory, hist

LEMMA ReadRulesType ==
  ASSUME TypeInv, NEW t \in Handler, ReadRules(t)
  PROVE  TypeInv'
<1> DEFINE s == [pc |-> "byRules", op |-> h[t].op, mem |-> h[t].mem, who |-> h[t].who,
                 plan |-> h[t].plan, cand |-> rules, roles |-> h[t].roles]
<1>1. h[t] \in Local /\ Sound(h[t]) /\ h[t].pc = "rules" /\ rules \in SUBSET Member
  BY DEF TypeInv, TypeOK, Handlers, ReadRules
<1>2. s \in Local /\ Sound(s)
  BY <1>1, LocalFields, LocalParts DEF Pc, Sound
<1>3. h' = [h EXCEPT ![t] = s] \/ h' = [h EXCEPT ![t] = Idle]
  <2>1. [h[t] EXCEPT !.pc = "byRules", !.cand = rules] = s
    BY <1>1, SetPcCand
  <2>2. h' = [h EXCEPT ![t] = IF rules = {} THEN Idle ELSE [h[t] EXCEPT !.pc = "byRules", !.cand = rules]]
    BY DEF ReadRules
  <2> HIDE DEF s
  <2> QED
    BY <2>1, <2>2
<1>4. UNCHANGED <<whop, events, tables, roles, memory, bounds, hist>>
  BY DEF ReadRules
<1> HIDE DEF s
<1> QED
  BY <1>2, <1>3, <1>4, IdleLocal, HandlerStepType DEF TypeInv, TypeOK, tables, memory, hist

(* A member is elected only if there is one.                                        *)
LEMMA OnlyOne ==
  ASSUME NEW S, Cardinality(S) = 1
  PROVE  (CHOOSE m \in S : TRUE) \in S
<1>1. S # {}
  BY FS_EmptySet
<1> QED
  BY <1>1

LEMMA ElectType ==
  ASSUME TypeInv, NEW t \in Handler, NEW failed \in BOOLEAN, Elect(t, failed)
  PROVE  TypeInv'
<1> DEFINE eligible == {m \in h[t].cand : failed \/ ~member[m].active}
           one == CHOOSE m \in eligible : TRUE
           s == [pc |-> "activate", op |-> "auto", mem |-> h[t].mem, who |-> one,
                 plan |-> h[t].plan, cand |-> {}, roles |-> h[t].roles]
           u == [pc |-> "rules", op |-> h[t].op, mem |-> h[t].mem, who |-> h[t].who,
                 plan |-> h[t].plan, cand |-> {}, roles |-> h[t].roles]
<1>1. h[t] \in Local /\ Sound(h[t]) /\ h[t].pc \in {"byIntent", "byRules"}
  BY DEF TypeInv, TypeOK, Handlers, Elect
<1>2. u \in Local /\ Sound(u)
  BY <1>1, LocalFields, LocalParts DEF Pc, Sound
<1>3. ASSUME Cardinality(eligible) = 1 PROVE s \in Local /\ Sound(s)
  <2>1. (CHOOSE m \in eligible : TRUE) \in Member
    BY <1>1, <1>3, OnlyOne, LocalParts
  <2> HIDE DEF eligible
  <2> QED
    BY <1>1, <2>1, LocalFields, LocalParts DEF Pc, Op, Sound
<1>4. \/ Cardinality(eligible) = 1 /\ h' = [h EXCEPT ![t] = s]
      \/ h' = [h EXCEPT ![t] = u]
      \/ h' = [h EXCEPT ![t] = Idle]
  <2>1. /\ [h[t] EXCEPT !.pc = "activate", !.op = "auto", !.cand = {}, !.who = CHOOSE m \in eligible : TRUE] = s
        /\ [h[t] EXCEPT !.pc = "rules", !.cand = {}] = u
    <3>1. [h[t] EXCEPT !.pc = "activate", !.op = "auto", !.cand = {}, !.who = one] = s
      <4> HIDE DEF one
      <4> QED
        BY <1>1, SetElected
    <3>2. [h[t] EXCEPT !.pc = "rules", !.cand = {}] = u
      BY <1>1, SetPcCand
    <3> QED
      BY <3>1, <3>2
  <2>2. h' = [h EXCEPT ![t] =
           IF Cardinality(eligible) = 1
           THEN [h[t] EXCEPT !.pc = "activate", !.op = "auto", !.cand = {}, !.who = CHOOSE m \in eligible : TRUE]
           ELSE IF h[t].pc = "byIntent" THEN [h[t] EXCEPT !.pc = "rules", !.cand = {}] ELSE Idle]
    BY DEF Elect
  <2> HIDE DEF s, u, eligible
  <2> QED
    BY <2>1, <2>2
<1>5. Fault \/ UNCHANGED bounds
  BY DEF Elect
<1>6. UNCHANGED <<whop, events, tables, roles, memory, hist>>
  BY DEF Elect
<1> HIDE DEF s, u, eligible
<1>7. PICK v \in {s, u, Idle} : v \in Local /\ Sound(v) /\ h' = [h EXCEPT ![t] = v]
  BY <1>2, <1>3, <1>4, IdleLocal
<1> QED
  BY <1>5, <1>6, <1>7, HandlerStepType DEF TypeInv, TypeOK, tables, memory, hist

(* The role sync of a member begins.                                                *)
LEMMA BeginSyncType ==
  ASSUME TypeInv, NEW t, NEW m \in Member, BeginSync(t, m)
  PROVE  mess' \subseteq Member
BY DEF BeginSync, TypeInv, TypeOK

LEMMA ActivateType ==
  ASSUME TypeInv, NEW t \in Handler, Activate(t)
  PROVE  TypeInv'
<1> DEFINE m == h[t].who
           row == [plan |-> h[t].plan, active |-> TRUE, mem |-> h[t].mem]
           s == [pc |-> "sync", op |-> h[t].op, mem |-> h[t].mem, who |-> h[t].who,
                 plan |-> h[t].plan, cand |-> h[t].cand, roles |-> Plan \ {h[t].plan}]
<1>1. h[t] \in Local /\ Sound(h[t]) /\ h[t].pc = "activate"
  BY DEF TypeInv, TypeOK, Handlers, Activate
<1>2. m \in Member /\ h[t].mem \in Membership /\ h[t].op \notin {"off", "set", "filter"}
  BY <1>1 DEF Sound
<1>3. s \in Local /\ Sound(s)
  BY <1>1, <1>2, LocalFields, LocalParts DEF Pc, Sound
<1>4. h' = [h EXCEPT ![t] = s]
  <2>1. h' = [h EXCEPT ![t] = [h[t] EXCEPT !.pc = "sync", !.roles = Plan \ {h[t].plan}]]
    BY DEF Activate
  <2> QED
    BY <1>1, <2>1, SetPcRoles
<1>5. row \in Row
  BY <1>1, <1>2, LocalParts DEF Row
<1>6. member' = [member EXCEPT ![m] = row]
  BY DEF Activate
<1> HIDE DEF row
<1>7. member' \in [Member -> Row]
  BY <1>5, <1>6 DEF TypeInv, TypeOK
<1>8. activated' \subseteq Member \X Membership
  BY <1>2 DEF Activate, TypeInv, TypeOK
<1>9. mess' \subseteq Member
  BY <1>2, BeginSyncType DEF Activate
<1>10. UNCHANGED <<whop, events, claim, filters, roles, memory, bounds, granted>>
  BY DEF Activate
<1> HIDE DEF m, s
<1> QED
  BY <1>3, <1>4, <1>7, <1>8, <1>9, <1>10, HandlerStepType DEF TypeInv, TypeOK, memory

LEMMA MarkUsedType ==
  ASSUME TypeInv, NEW t \in Handler, NEW failed \in BOOLEAN, MarkUsed(t, failed)
  PROVE  TypeInv'
<1>1. h[t] \in Local /\ Sound(h[t]) /\ h[t].pc = "mark" /\ h[t].who \in Member
  BY DEF TypeInv, TypeOK, Handlers, MarkUsed, Sound
<1>2. claim' \in [Membership -> ClaimRow]
  <2> DEFINE c == [st |-> "used", by |-> h[t].who]
  <2>1. c \in ClaimRow
    BY <1>1 DEF ClaimRow
  <2>2. claim' = claim \/ claim' = [claim EXCEPT ![h[t].mem] = c]
    BY DEF MarkUsed
  <2> HIDE DEF c
  <2> QED
    BY <2>1, <2>2 DEF TypeInv, TypeOK
<1>3. intent' \in [Member -> Plan \cup {"none"}]
  BY DEF MarkUsed, TypeInv, TypeOK
<1>4. h' = [h EXCEPT ![t] = Idle] /\ (Fault \/ UNCHANGED bounds)
  BY DEF MarkUsed
<1>5. UNCHANGED <<whop, events, member, filters, roles, rules, hist>>
  BY DEF MarkUsed
<1> QED
  BY <1>2, <1>3, <1>4, <1>5, IdleLocal, HandlerStepType DEF TypeInv, TypeOK, hist

LEMMA ReceiveDeactivatedType ==
  ASSUME TypeInv, NEW t \in Handler, NEW x \in Membership, ReceiveDeactivated(t, x)
  PROVE  TypeInv'
<1> DEFINE s == [pc |-> "lookup", op |-> "off", mem |-> x, who |-> NoMember, plan |-> "starter",
                 cand |-> {}, roles |-> {}]
<1>1. s \in Local /\ Sound(s)
  BY PlanAssumption, LocalFields DEF Sound, Pc, Op
<1>2. h' = [h EXCEPT ![t] = s]
  <2>1. [Idle EXCEPT !.pc = "lookup", !.op = "off", !.mem = x] = s
    <3>1. [Idle EXCEPT !.pc = "lookup", !.op = "off", !.mem = x]
            = [f \in {"pc", "op", "mem", "who", "plan", "cand", "roles"} |->
                 CASE f = "pc" -> "lookup" [] f = "op" -> "off" [] f = "mem" -> x [] OTHER -> Idle[f]]
      BY DEF Idle
    <3> QED
      BY <3>1 DEF Idle
  <2> HIDE DEF s
  <2> QED
    BY <2>1 DEF ReceiveDeactivated
<1>3. UNCHANGED <<whop, tables, roles, memory, bounds, hist>> /\ events' \subseteq Event
  BY DEF ReceiveDeactivated, TypeInv, TypeOK
<1> HIDE DEF s
<1> QED
  BY <1>1, <1>2, <1>3, HandlerStepType DEF TypeInv, TypeOK, tables, memory, hist

LEMMA SetPcWho ==
  ASSUME NEW s \in Local, NEW m
  PROVE  [s EXCEPT !.pc = "deactivate", !.who = m]
           = [pc |-> "deactivate", op |-> s.op, mem |-> s.mem, who |-> m,
              plan |-> s.plan, cand |-> s.cand, roles |-> s.roles]
<1>1. [s EXCEPT !.pc = "deactivate", !.who = m]
        = [x \in {"pc", "op", "mem", "who", "plan", "cand", "roles"} |->
             CASE x = "pc" -> "deactivate" [] x = "who" -> m [] OTHER -> s[x]]
  BY DEF Local
<1> QED
  BY <1>1

LEMMA LookupType ==
  ASSUME TypeInv, NEW t \in Handler, NEW m \in Member \cup {NoMember}, Lookup(t, m)
  PROVE  TypeInv'
<1> DEFINE s == [pc |-> "deactivate", op |-> h[t].op, mem |-> h[t].mem, who |-> m, plan |-> h[t].plan,
                 cand |-> h[t].cand, roles |-> h[t].roles]
           stop == m = NoMember \/ member[m].mem \notin {h[t].mem, NoMembership}
<1>1. h[t] \in Local /\ Sound(h[t]) /\ h[t].pc = "lookup"
  BY DEF TypeInv, TypeOK, Handlers, Lookup
<1>2. ~stop => s \in Local /\ Sound(s)
  <2>1. s \in Local
    BY <1>1, LocalFields, LocalParts DEF Pc
  <2>2. m # NoMember => Sound(s)
    BY <1>1 DEF Sound
  <2> QED
    BY <2>1, <2>2
<1>3. h' = [h EXCEPT ![t] = IF stop THEN Idle ELSE s]
  <2>1. h' = [h EXCEPT ![t] = IF stop THEN Idle ELSE [h[t] EXCEPT !.pc = "deactivate", !.who = m]]
    BY DEF Lookup
  <2>2. [h[t] EXCEPT !.pc = "deactivate", !.who = m] = s
    BY <1>1, SetPcWho
  <2> HIDE DEF stop, s
  <2> QED
    BY <2>1, <2>2
<1>4. UNCHANGED <<whop, events, tables, roles, memory, bounds, hist>>
  BY DEF Lookup
<1> HIDE DEF s, stop
<1> QED
  BY <1>2, <1>3, <1>4, IdleLocal, HandlerStepType DEF TypeInv, TypeOK, tables, memory, hist

LEMMA DeactivateType ==
  ASSUME TypeInv, NEW t \in Handler, Deactivate(t)
  PROVE  TypeInv'
<1> DEFINE m == h[t].who
           row == [plan |-> "starter", active |-> FALSE, mem |-> h[t].mem]
           s == [pc |-> "sync", op |-> h[t].op, mem |-> h[t].mem, who |-> h[t].who,
                 plan |-> h[t].plan, cand |-> h[t].cand, roles |-> Plan]
<1>1. h[t] \in Local /\ Sound(h[t]) /\ h[t].pc = "deactivate"
  BY DEF TypeInv, TypeOK, Handlers, Deactivate
<1>2. m \in Member /\ h[t].mem \in Membership /\ h[t].op = "off"
  BY <1>1 DEF Sound
<1>3. s \in Local /\ Sound(s)
  BY <1>1, <1>2, PlanAssumption, LocalFields, LocalParts DEF Pc, Sound
<1>4. h' = [h EXCEPT ![t] = s]
  <2>1. h' = [h EXCEPT ![t] = [h[t] EXCEPT !.pc = "sync", !.roles = Plan]]
    BY DEF Deactivate
  <2> QED
    BY <1>1, <2>1, SetPcRoles
<1>5. row \in Row
  BY <1>1, <1>2, PlanAssumption DEF Row
<1>6. member' = [member EXCEPT ![m] = row]
  BY DEF Deactivate
<1> HIDE DEF row
<1>7. member' \in [Member -> Row]
  BY <1>5, <1>6 DEF TypeInv, TypeOK
<1>8. filters' \in [Member -> {"none", "on", "paused"}]
  BY DEF Deactivate, TypeInv, TypeOK
<1>9. mess' \subseteq Member
  BY <1>2, BeginSyncType DEF Deactivate
<1>10. UNCHANGED <<whop, events, claim, roles, memory, bounds, activated, granted>>
  BY DEF Deactivate
<1> HIDE DEF m, s
<1> QED
  BY <1>3, <1>4, <1>7, <1>8, <1>9, <1>10, HandlerStepType DEF TypeInv, TypeOK, memory

LEMMA AfterDropType ==
  ASSUME NEW s \in Local, Sound(s), s.pc = "sync", NEW p \in s.roles
  PROVE  /\ AfterDrop(s, p) \in Local /\ Sound(AfterDrop(s, p))
         /\ \/ AfterDrop(s, p) = Idle /\ s.op = "off" /\ s.roles = {p}
            \/ AfterDrop(s, p) = [pc |-> s.pc, op |-> s.op, mem |-> s.mem, who |-> s.who, plan |-> s.plan,
                                  cand |-> s.cand, roles |-> s.roles \ {p}]
<1> DEFINE u == [pc |-> s.pc, op |-> s.op, mem |-> s.mem, who |-> s.who, plan |-> s.plan,
                 cand |-> s.cand, roles |-> s.roles \ {p}]
<1>1. u \in Local
  BY LocalFields, LocalParts
<1>2. ~(s.op = "off" /\ s.roles = {p}) => Sound(u)
  BY DEF Sound
<1>3. [s EXCEPT !.roles = @ \ {p}] = u
  BY DEF Local
<1> HIDE DEF u
<1>4. \/ AfterDrop(s, p) = Idle /\ s.op = "off" /\ s.roles = {p}
      \/ AfterDrop(s, p) = u /\ ~(s.op = "off" /\ s.roles = {p})
  BY <1>3 DEF AfterDrop
<1> USE DEF u
<1> QED
  BY <1>1, <1>2, <1>4, IdleLocal

LEMMA DropRoleType ==
  ASSUME TypeInv, NEW t \in Handler, NEW p \in Plan, NEW failed \in BOOLEAN, DropRole(t, p, failed)
  PROVE  TypeInv'
<1>1. h[t] \in Local /\ Sound(h[t]) /\ h[t].pc = "sync" /\ h[t].who \in Member /\ p \in h[t].roles
  BY DEF TypeInv, TypeOK, Handlers, DropRole, Sound
<1>2. AfterDrop(h[t], p) \in Local /\ Sound(AfterDrop(h[t], p)) /\ h' = [h EXCEPT ![t] = AfterDrop(h[t], p)]
  BY <1>1, AfterDropType DEF DropRole
<1>3. roles' \in [Member -> SUBSET Plan] /\ mess' \subseteq Member
  BY <1>1 DEF DropRole, TypeInv, TypeOK
<1>4. Fault \/ UNCHANGED bounds
  BY DEF DropRole
<1>5. UNCHANGED <<whop, events, tables, memory, activated, granted>>
  BY DEF DropRole
<1> QED
  BY <1>2, <1>3, <1>4, <1>5, HandlerStepType DEF TypeInv, TypeOK, tables, memory

(* The steps after a role sync.                                                     *)
LEMMA AfterSyncType ==
  ASSUME NEW s \in Local, Sound(s), s.pc = "sync", s.op # "off"
  PROVE  /\ AfterSync(s) \in Local /\ Sound(AfterSync(s))
         /\ AfterSync(s) = Idle \/
              /\ s.op \in {"auto", "claim"}
              /\ AfterSync(s).pc \in {"restore", "mark"}
              /\ AfterSync(s).op = s.op /\ AfterSync(s).who = s.who /\ AfterSync(s).mem = s.mem
<1> DEFINE u(pc) == [pc |-> pc, op |-> s.op, mem |-> s.mem, who |-> s.who,
                     plan |-> s.plan, cand |-> s.cand, roles |-> s.roles]
<1>1. AfterSync(s) = IF s.op = "auto" THEN u("restore") ELSE IF s.op = "claim" THEN u("mark") ELSE Idle
  BY SetPc DEF AfterSync
<1>2. u("restore") \in Local /\ u("mark") \in Local
  BY LocalFields, LocalParts DEF Pc
<1>3. s.op = "auto" => Sound(u("restore"))
  BY DEF Sound
<1>4. s.op = "claim" => Sound(u("mark"))
  BY DEF Sound
<1> QED
  BY <1>1, <1>2, <1>3, <1>4, IdleLocal

LEMMA AddRoleType ==
  ASSUME TypeInv, NEW t \in Handler, NEW failed \in BOOLEAN, AddRole(t, failed)
  PROVE  TypeInv'
<1>1. h[t] \in Local /\ Sound(h[t]) /\ h[t].pc = "sync" /\ h[t].roles = {}
  BY DEF TypeInv, TypeOK, Handlers, AddRole
<1>2. h[t].who \in Member /\ h[t].op # "off" /\ h[t].plan \in Plan
  BY <1>1, LocalParts DEF Sound
<1>3. AfterSync(h[t]) \in Local /\ Sound(AfterSync(h[t])) /\ h' = [h EXCEPT ![t] = AfterSync(h[t])]
  BY <1>1, <1>2, AfterSyncType DEF AddRole
<1>4. roles' \in [Member -> SUBSET Plan] /\ mess' \subseteq Member
  BY <1>2 DEF AddRole, TypeInv, TypeOK
<1>5. Fault \/ UNCHANGED bounds
  BY DEF AddRole
<1>6. UNCHANGED <<whop, events, tables, memory, activated, granted>>
  BY DEF AddRole
<1> QED
  BY <1>3, <1>4, <1>5, <1>6, HandlerStepType DEF TypeInv, TypeOK, tables, memory

LEMMA StartClaimType ==
  ASSUME TypeInv, NEW t \in Handler, NEW m \in Member, NEW x \in Membership, NEW byId \in BOOLEAN,
         StartClaim(t, m, x, byId)
  PROVE  TypeInv'
<1> DEFINE C == IF byId THEN {m} ELSE {}
           s == [pc |-> "find", op |-> "claim", mem |-> x, who |-> m, plan |-> PlanOf[x],
                 cand |-> C, roles |-> {}]
<1>1. s \in Local /\ Sound(s)
  <2>1. C \in SUBSET Member /\ PlanOf[x] \in Plan
    BY MembershipAssumption
  <2> HIDE DEF C
  <2> QED
    BY <2>1, LocalFields DEF Sound, Pc, Op
<1>2. h' = [h EXCEPT ![t] = s]
  <2>1. [Idle EXCEPT !.pc = "find", !.op = "claim", !.mem = x, !.who = m, !.plan = PlanOf[x], !.cand = C]
          = [f \in {"pc", "op", "mem", "who", "plan", "cand", "roles"} |->
               CASE f = "pc" -> "find" [] f = "op" -> "claim" [] f = "mem" -> x [] f = "who" -> m
                 [] f = "plan" -> PlanOf[x] [] f = "cand" -> C [] OTHER -> Idle[f]]
    <3> HIDE DEF C
    <3> QED
      BY DEF Idle
  <2>2. [Idle EXCEPT !.pc = "find", !.op = "claim", !.mem = x, !.who = m, !.plan = PlanOf[x], !.cand = C] = s
    <3> HIDE DEF C
    <3> QED
      BY <2>1 DEF Idle
  <2> HIDE DEF s
  <2> QED
    BY <2>2 DEF StartClaim
<1>3. UNCHANGED <<whop, events, tables, roles, memory, hist>> /\ Call
  BY DEF StartClaim
<1> HIDE DEF s
<1> QED
  BY <1>1, <1>2, <1>3, HandlerStepType DEF TypeInv, TypeOK, tables, memory, hist

LEMMA FindType ==
  ASSUME TypeInv, NEW t \in Handler, Find(t)
  PROVE  TypeInv'
<1> DEFINE s == [pc |-> "activate", op |-> h[t].op, mem |-> h[t].mem, who |-> h[t].who,
                 plan |-> h[t].plan, cand |-> {}, roles |-> h[t].roles]
           u == [pc |-> "fetch", op |-> h[t].op, mem |-> h[t].mem, who |-> h[t].who,
                 plan |-> h[t].plan, cand |-> h[t].cand, roles |-> h[t].roles]
<1>1. h[t] \in Local /\ Sound(h[t]) /\ h[t].pc = "find"
  BY DEF TypeInv, TypeOK, Handlers, Find
<1>2. s \in Local /\ Sound(s) /\ u \in Local /\ Sound(u)
  BY <1>1, LocalFields, LocalParts DEF Pc, Sound
<1>3. [h[t] EXCEPT !.pc = "activate", !.cand = {}] = s /\ [h[t] EXCEPT !.pc = "fetch"] = u
  BY <1>1, SetPcCand, SetPc
<1> HIDE DEF s, u
<1>4. h' = [h EXCEPT ![t] = s] \/ h' = [h EXCEPT ![t] = u] \/ h' = [h EXCEPT ![t] = Idle]
  BY <1>3 DEF Find
<1>5. UNCHANGED <<whop, events, tables, roles, memory, bounds, hist>>
  BY DEF Find
<1>6. PICK v \in {s, u, Idle} : v \in Local /\ Sound(v) /\ h' = [h EXCEPT ![t] = v]
  BY <1>2, <1>4, IdleLocal
<1> QED
  BY <1>5, <1>6, HandlerStepType DEF TypeInv, TypeOK, tables, memory, hist

LEMMA FetchType ==
  ASSUME TypeInv, NEW t \in Handler, NEW failed \in BOOLEAN, Fetch(t, failed)
  PROVE  TypeInv'
<1> DEFINE s == [pc |-> "persist", op |-> h[t].op, mem |-> h[t].mem, who |-> h[t].who,
                 plan |-> h[t].plan, cand |-> {}, roles |-> h[t].roles]
<1>1. h[t] \in Local /\ Sound(h[t]) /\ h[t].pc = "fetch"
  BY DEF TypeInv, TypeOK, Handlers, Fetch
<1>2. s \in Local /\ Sound(s)
  BY <1>1, LocalFields, LocalParts DEF Pc, Sound
<1>3. [h[t] EXCEPT !.pc = "persist", !.cand = {}] = s
  BY <1>1, SetPcCand
<1> HIDE DEF s
<1>4. h' = [h EXCEPT ![t] = s] \/ h' = [h EXCEPT ![t] = Idle]
  BY <1>3 DEF Fetch
<1>5. Fault \/ UNCHANGED bounds
  BY DEF Fetch
<1>6. UNCHANGED <<whop, events, tables, roles, memory, hist>>
  BY DEF Fetch
<1> QED
  BY <1>2, <1>4, <1>5, <1>6, IdleLocal, HandlerStepType DEF TypeInv, TypeOK, tables, memory, hist

(* A row whose plan is set is active, with that plan.                               *)
LEMMA GrantedFields ==
  ASSUME NEW row \in Row, NEW p \in Plan
  PROVE  LET new == [row EXCEPT !.plan = p, !.active = TRUE]
         IN  new \in Row /\ new.plan = p /\ new.active = TRUE /\ new.mem = row.mem
<1>1. [row EXCEPT !.plan = p, !.active = TRUE] \in Row
  BY DEF Row
<1>2. [row EXCEPT !.plan = p, !.active = TRUE].plan = p
  BY DEF Row
<1>3. [row EXCEPT !.plan = p, !.active = TRUE].active = TRUE
  BY DEF Row
<1>4. [row EXCEPT !.plan = p, !.active = TRUE].mem = row.mem
  BY DEF Row
<1> QED
  BY <1>1, <1>2, <1>3, <1>4

LEMMA SetPlanType ==
  ASSUME TypeInv, NEW t \in Handler, NEW m \in Member, NEW p \in Plan, SetPlan(t, m, p)
  PROVE  TypeInv'
<1> DEFINE s == [pc |-> "sync", op |-> "set", mem |-> NoMembership, who |-> m, plan |-> p,
                 cand |-> {}, roles |-> Plan \ {p}]
<1>1. s \in Local /\ Sound(s)
  BY LocalFields DEF Sound, Pc, Op
<1>2. h' = [h EXCEPT ![t] = s]
  <2>1. [Idle EXCEPT !.pc = "sync", !.op = "set", !.who = m, !.plan = p, !.roles = Plan \ {p}]
          = [f \in {"pc", "op", "mem", "who", "plan", "cand", "roles"} |->
               CASE f = "pc" -> "sync" [] f = "op" -> "set" [] f = "who" -> m [] f = "plan" -> p
                 [] f = "roles" -> Plan \ {p} [] OTHER -> Idle[f]]
    BY DEF Idle
  <2>2. [Idle EXCEPT !.pc = "sync", !.op = "set", !.who = m, !.plan = p, !.roles = Plan \ {p}] = s
    BY <2>1 DEF Idle
  <2> HIDE DEF s
  <2> QED
    BY <2>2 DEF SetPlan
<1>3. member' \in [Member -> Row]
  <2> DEFINE row == [member[m] EXCEPT !.plan = p, !.active = TRUE]
  <2>1. member[m] \in Row
    BY DEF TypeInv, TypeOK
  <2>2. row \in Row
    BY <2>1, GrantedFields
  <2>3. member' = [member EXCEPT ![m] = row]
    BY DEF SetPlan
  <2> HIDE DEF row
  <2> QED
    BY <2>2, <2>3 DEF TypeInv, TypeOK
<1>4. filters' \in [Member -> {"none", "on", "paused"}]
  BY DEF SetPlan, TypeInv, TypeOK
<1>5. mess' \subseteq Member
  BY BeginSyncType DEF SetPlan
<1>6. granted' \subseteq Member /\ Call
  BY DEF SetPlan, TypeInv, TypeOK
<1>7. UNCHANGED <<whop, events, claim, roles, memory, activated>>
  BY DEF SetPlan
<1> HIDE DEF s
<1> QED
  BY <1>1, <1>2, <1>3, <1>4, <1>5, <1>6, <1>7, HandlerStepType DEF TypeInv, TypeOK, memory

LEMMA AskFilterType ==
  ASSUME TypeInv, NEW t \in Handler, NEW m \in Member, AskFilter(t, m)
  PROVE  TypeInv'
<1> DEFINE s == [pc |-> "align", op |-> "filter", mem |-> NoMembership, who |-> m, plan |-> "starter",
                 cand |-> {}, roles |-> roles[m]]
<1>1. s \in Local /\ Sound(s)
  <2>1. roles[m] \in SUBSET Plan
    BY DEF TypeInv, TypeOK
  <2> QED
    BY <2>1, PlanAssumption, LocalFields DEF Sound, Pc, Op
<1>2. h' = [h EXCEPT ![t] = s]
  <2>1. [Idle EXCEPT !.pc = "align", !.op = "filter", !.who = m, !.roles = roles[m]]
          = [f \in {"pc", "op", "mem", "who", "plan", "cand", "roles"} |->
               CASE f = "pc" -> "align" [] f = "op" -> "filter" [] f = "who" -> m
                 [] f = "roles" -> roles[m] [] OTHER -> Idle[f]]
    BY DEF Idle
  <2>2. [Idle EXCEPT !.pc = "align", !.op = "filter", !.who = m, !.roles = roles[m]] = s
    BY <2>1 DEF Idle
  <2> HIDE DEF s
  <2> QED
    BY <2>2 DEF AskFilter
<1>3. UNCHANGED <<whop, events, tables, roles, memory, hist>> /\ Call
  BY DEF AskFilter
<1> HIDE DEF s
<1> QED
  BY <1>1, <1>2, <1>3, HandlerStepType DEF TypeInv, TypeOK, tables, memory, hist

(* What the roles say and what the table becomes.                                   *)
LEMMA PlanOfRoles ==
  ASSUME NEW R \in SUBSET Plan
  PROVE  /\ PlanFromRoles(R) \in R \cup {"none"}
         /\ PlanFromRoles(R) = "none" => R = {}
BY PlanAssumption DEF PlanFromRoles

LEMMA AlignedFields ==
  ASSUME NEW row \in Row, NEW p \in Plan \cup {"none"}
  PROVE  /\ Aligned(row, p) \in Row
         /\ \/ Aligned(row, p) = row
            \/ p \in Plan /\ Aligned(row, p).plan = p /\ Aligned(row, p).active = TRUE
<1> DEFINE new == [row EXCEPT !.plan = p, !.active = TRUE]
<1>1. p \in Plan => new \in Row /\ new.plan = p /\ new.active = TRUE
  BY GrantedFields
<1> HIDE DEF new
<1>2. Aligned(row, p) = row \/ (p # "none" /\ Aligned(row, p) = new)
  BY DEF Aligned, new
<1> QED
  BY <1>1, <1>2

LEMMA AlignType ==
  ASSUME TypeInv, NEW t \in Handler, Align(t)
  PROVE  TypeInv'
<1> DEFINE m == h[t].who
           p == PlanFromRoles(h[t].roles)
           row == Aligned(member[m], p)
           s == [pc |-> "create", op |-> h[t].op, mem |-> h[t].mem, who |-> h[t].who,
                 plan |-> h[t].plan, cand |-> h[t].cand, roles |-> h[t].roles]
<1>1. h[t] \in Local /\ Sound(h[t]) /\ h[t].pc = "align"
  BY DEF TypeInv, TypeOK, Handlers, Align
<1>2. m \in Member /\ member[m] \in Row
  BY <1>1 DEF Sound, TypeInv, TypeOK
<1>3. p \in Plan \cup {"none"}
  BY <1>1, PlanOfRoles, LocalParts
<1>4. s \in Local /\ Sound(s)
  BY <1>1, LocalFields, LocalParts DEF Pc, Sound
<1>5. [h[t] EXCEPT !.pc = "create"] = s
  BY <1>1, SetPc
<1> HIDE DEF s
<1>6. h' = [h EXCEPT ![t] = s] \/ h' = [h EXCEPT ![t] = Idle]
  BY <1>5 DEF Align
<1>7. row \in Row
  BY <1>2, <1>3, AlignedFields
<1>8. member' = [member EXCEPT ![m] = row] /\ mess' \in {mess, mess \cup {m}}
  BY DEF Align
<1>9. UNCHANGED <<whop, events, claim, filters, roles, memory, bounds, activated, granted>>
  BY DEF Align
<1> HIDE DEF row, p
<1>10. member' \in [Member -> Row] /\ mess' \subseteq Member
  BY <1>2, <1>7, <1>8 DEF TypeInv, TypeOK
<1>11. PICK v \in {s, Idle} : v \in Local /\ Sound(v) /\ h' = [h EXCEPT ![t] = v]
  BY <1>4, <1>6, IdleLocal
<1> QED
  BY <1>9, <1>10, <1>11, HandlerStepType DEF TypeInv, TypeOK, memory

LEMMA CreateFilterType ==
  ASSUME TypeInv, NEW t \in Handler, CreateFilter(t)
  PROVE  TypeInv'
<1>1. h' = [h EXCEPT ![t] = Idle] /\ filters' \in [Member -> {"none", "on", "paused"}]
  BY DEF CreateFilter, TypeInv, TypeOK
<1>2. UNCHANGED <<whop, events, member, claim, roles, memory, bounds, hist>>
  BY DEF CreateFilter
<1> QED
  BY <1>1, <1>2, IdleLocal, HandlerStepType DEF TypeInv, TypeOK, memory, hist

LEMMA TransactionFailsType ==
  ASSUME TypeInv, NEW t \in Handler, TransactionFails(t)
  PROVE  TypeInv'
<1>1. h' = [h EXCEPT ![t] = Idle] /\ Fault
  BY DEF TransactionFails
<1>2. UNCHANGED <<whop, events, tables, roles, memory, hist>>
  BY DEF TransactionFails
<1> QED
  BY <1>1, <1>2, IdleLocal, HandlerStepType DEF TypeInv, TypeOK, tables, memory, hist

LEMMA MemoryType ==
  ASSUME TypeInv, Memory
  PROVE  TypeInv'
<1>1. PICK m \in Member : (\E p \in Plan : ClickCheckout(m, p)) \/ AcceptRules(m) \/ Forget(m) \/ ToggleFilter(m)
  BY DEF Memory
<1>2. intent' \in [Member -> Plan \cup {"none"}]
  BY <1>1 DEF TypeInv, TypeOK, memory, ClickCheckout, AcceptRules, Forget, ToggleFilter
<1>3. rules' \subseteq Member
  BY <1>1 DEF TypeInv, TypeOK, memory, ClickCheckout, AcceptRules, Forget, ToggleFilter
<1>4. filters' \in [Member -> {"none", "on", "paused"}]
  BY <1>1 DEF TypeInv, TypeOK, tables, ClickCheckout, AcceptRules, Forget, ToggleFilter
<1>5. Call \/ UNCHANGED bounds
  BY <1>1 DEF ClickCheckout, AcceptRules, Forget, ToggleFilter
<1>6. UNCHANGED <<whop, events, member, claim, roles, h, hist>>
  BY <1>1 DEF ClickCheckout, AcceptRules, Forget, ToggleFilter, tables
<1>7. faults' \in 0..Budget /\ restarts' \in 0..Budget /\ calls' \in 0..Budget
  BY <1>5, BoundsType
<1> QED
  BY <1>2, <1>3, <1>4, <1>6, <1>7 DEF TypeInv, TypeOK, Handlers, hist

LEMMA RestartType ==
  ASSUME TypeInv, Restart
  PROVE  TypeInv'
<1>1. h' \in [Handler -> Local] /\ Handlers'
  BY IdleLocal DEF Restart, Handlers
<1>2. \A t \in Handler : EventOf(h[t]) \subseteq Event
  BY DEF TypeInv, TypeOK, Handlers, Sound, EventOf, Event
<1>3. events' \subseteq Event /\ mess' \subseteq Member
  BY <1>2 DEF Restart, TypeInv, TypeOK
<1>4. faults' \in 0..Budget /\ restarts' \in 0..Budget /\ calls' \in 0..Budget
  BY BoundAssumption DEF Restart, Affordable, TypeInv, TypeOK
<1>5. intent' \in [Member -> Plan \cup {"none"}] /\ rules' \subseteq Member
  BY DEF Restart
<1>6. UNCHANGED <<whop, tables, roles, activated, granted>>
  BY DEF Restart
<1> QED
  BY <1>1, <1>3, <1>4, <1>5, <1>6 DEF TypeInv, TypeOK, tables

LEMMA InitType == Init => TypeInv
<1>1. Init => h \in [Handler -> Local] /\ Handlers
  BY IdleLocal DEF Init, Handlers
<1>2. NoRow \in Row
  BY PlanAssumption DEF NoRow, Row
<1>3. Unclaimed \in ClaimRow
  BY DEF Unclaimed, ClaimRow
<1>4. Init => member \in [Member -> Row] /\ claim \in [Membership -> ClaimRow]
  BY <1>2, <1>3 DEF Init
<1> QED
  BY <1>1, <1>4, BoundAssumption DEF Init, TypeInv, TypeOK

LEMMA TypeStep ==
  ASSUME TypeInv, [Next]_vars
  PROVE  TypeInv'
<1>1. CASE Whop
  BY <1>1, WhopType
<1>2. ASSUME NEW t \in Handler, Activation(t) PROVE TypeInv'
  BY <1>2, ReceiveActivatedType, StoreType, ReadIntentsType, ReadRulesType, ElectType, ActivateType,
     MarkUsedType DEF Activation
<1>3. ASSUME NEW t \in Handler, Deactivation(t) PROVE TypeInv'
  BY <1>3, ReceiveDeactivatedType, LookupType, DeactivateType DEF Deactivation
<1>4. ASSUME NEW t \in Handler, RoleSync(t) PROVE TypeInv'
  BY <1>4, DropRoleType, AddRoleType DEF RoleSync
<1>5. ASSUME NEW t \in Handler, Interaction(t) PROVE TypeInv'
  BY <1>5, StartClaimType, FindType, FetchType, SetPlanType, AskFilterType, AlignType,
     CreateFilterType DEF Interaction
<1>6. CASE Memory
  BY <1>6, MemoryType
<1>7. CASE Restart
  BY <1>7, RestartType
<1>8. CASE UNCHANGED vars
  BY <1>8 DEF TypeInv, TypeOK, Handlers, vars, tables, memory, bounds, hist
<1> QED
  BY <1>1, <1>2, <1>3, <1>4, <1>5, <1>6, <1>7, <1>8, TransactionFailsType DEF Next

LEMMA TypeAlways == Spec => []TypeInv
<1>1. TypeInv /\ [Next]_vars => TypeInv'
  BY TypeStep
<1> QED
  BY <1>1, InitType, PTL DEF Spec

(* The tables, the roles, the process's memory and the handlers keep their types.    *)
THEOREM TypeCorrect == Spec => []TypeOK
<1>1. TypeInv => TypeOK
  BY DEF TypeInv
<1> QED
  BY <1>1, TypeAlways, PTL

----------------------------------------------------------------------------
(* The steps that touch neither plans nor roles nor the history *)

(* The steps of a handler before it writes a plan, and after the roles are set.      *)
Quiet(t) ==
  \/ \E x \in Membership : ReceiveActivated(t, x) \/ ReceiveDeactivated(t, x)
  \/ ReadIntents(t) \/ ReadRules(t)
  \/ \E failed \in BOOLEAN : Store(t, failed) \/ Elect(t, failed) \/ Fetch(t, failed) \/ MarkUsed(t, failed)
  \/ \E m \in Member \cup {NoMember} : Lookup(t, m)
  \/ \E m \in Member, x \in Membership, byId \in BOOLEAN : StartClaim(t, m, x, byId)
  \/ Find(t)
  \/ CreateFilter(t)
  \/ TransactionFails(t)

LEMMA QuietFrame ==
  ASSUME TypeInv, NEW t \in Handler, Quiet(t)
  PROVE  UNCHANGED <<member, roles, activated, granted, mess>>
BY DEF Quiet, ReceiveActivated, ReceiveDeactivated, ReadIntents, ReadRules, Store, Elect, Fetch, MarkUsed,
       Lookup, StartClaim, Find, CreateFilter, TransactionFails, tables, hist

(* A quiet step neither begins nor takes part in a role sync, and only storing a     *)
(* claim leads on to marking one.                                                    *)
LEMMA QuietMove ==
  ASSUME TypeInv, NEW t \in Handler, Quiet(t)
  PROVE  /\ h' = [h EXCEPT ![t] = h'[t]]
         /\ h[t].pc # "sync"
         /\ h'[t].pc \notin {"sync", "restore", "align"}
         /\ h'[t].pc = "mark" => h[t].pc = "restore" /\ h'[t].op = h[t].op
                                 /\ h'[t].who = h[t].who /\ h'[t].mem = h[t].mem
<1> DEFINE Goal == /\ h' = [h EXCEPT ![t] = h'[t]]
                   /\ h[t].pc # "sync"
                   /\ h'[t].pc \notin {"sync", "restore", "align"}
                   /\ h'[t].pc = "mark" => h[t].pc = "restore" /\ h'[t].op = h[t].op
                                           /\ h'[t].who = h[t].who /\ h'[t].mem = h[t].mem
<1>1. h \in [Handler -> Local] /\ h[t] \in Local
  BY DEF TypeInv, TypeOK
<1>2. ASSUME NEW x \in Membership, ReceiveActivated(t, x) PROVE Goal
  BY <1>1, <1>2 DEF ReceiveActivated, Idle
<1>3. ASSUME NEW x \in Membership, ReceiveDeactivated(t, x) PROVE Goal
  BY <1>1, <1>3 DEF ReceiveDeactivated, Idle
<1>4. CASE ReadIntents(t)
  BY <1>1, <1>4 DEF ReadIntents, Local
<1>5. CASE ReadRules(t)
  BY <1>1, <1>5 DEF ReadRules, Local, Idle
<1>6. ASSUME NEW failed \in BOOLEAN, Store(t, failed) PROVE Goal
  BY <1>1, <1>6 DEF Store, Local
<1>7. ASSUME NEW failed \in BOOLEAN, Elect(t, failed) PROVE Goal
  BY <1>1, <1>7 DEF Elect, Local, Idle
<1>8. ASSUME NEW failed \in BOOLEAN, Fetch(t, failed) PROVE Goal
  BY <1>1, <1>8 DEF Fetch, Local, Idle
<1>9. ASSUME NEW failed \in BOOLEAN, MarkUsed(t, failed) PROVE Goal
  BY <1>1, <1>9 DEF MarkUsed, Local, Idle
<1>10. ASSUME NEW m \in Member \cup {NoMember}, Lookup(t, m) PROVE Goal
  BY <1>1, <1>10 DEF Lookup, Local, Idle
<1>11. ASSUME NEW m \in Member, NEW x \in Membership, NEW byId \in BOOLEAN, StartClaim(t, m, x, byId) PROVE Goal
  BY <1>1, <1>11 DEF StartClaim, Idle
<1>12. CASE Find(t)
  BY <1>1, <1>12 DEF Find, Local, Idle
<1>13. CASE CreateFilter(t) \/ TransactionFails(t)
  BY <1>1, <1>13 DEF CreateFilter, TransactionFails, Idle
<1> QED
  BY <1>2, <1>3, <1>4, <1>5, <1>6, <1>7, <1>8, <1>9, <1>10, <1>11, <1>12, <1>13 DEF Quiet

(* The steps that write a plan begin a role sync.                                    *)
LEMMA ActivateMove ==
  ASSUME TypeInv, NEW t \in Handler, Activate(t)
  PROVE  /\ h' = [h EXCEPT ![t] = h'[t]] /\ h[t].pc = "activate"
         /\ h'[t].pc = "sync" /\ h'[t].op = h[t].op /\ h'[t].op \notin {"off", "set", "filter"}
         /\ h'[t].who = h[t].who /\ h'[t].mem = h[t].mem /\ h'[t].plan = h[t].plan
         /\ h'[t].roles = Plan \ {h[t].plan}
         /\ h[t].who \in Member /\ h[t].mem \in Membership
<1>1. h \in [Handler -> Local] /\ h[t] \in Local /\ Sound(h[t]) /\ h[t].pc = "activate"
  BY DEF TypeInv, TypeOK, Handlers, Activate
<1>2. h' = [h EXCEPT ![t] = [h[t] EXCEPT !.pc = "sync", !.roles = Plan \ {h[t].plan}]]
  BY DEF Activate
<1>3. h[t].op \notin {"off", "set", "filter"} /\ h[t].who \in Member /\ h[t].mem \in Membership
  BY <1>1 DEF Sound
<1> QED
  BY <1>1, <1>2, <1>3 DEF Local

LEMMA DeactivateMove ==
  ASSUME TypeInv, NEW t \in Handler, Deactivate(t)
  PROVE  /\ h' = [h EXCEPT ![t] = h'[t]] /\ h[t].pc = "deactivate"
         /\ h'[t].pc = "sync" /\ h'[t].op = "off" /\ h'[t].who = h[t].who
         /\ h'[t].roles = Plan
         /\ h[t].who \in Member
<1>1. h \in [Handler -> Local] /\ h[t] \in Local /\ Sound(h[t]) /\ h[t].pc = "deactivate"
  BY DEF TypeInv, TypeOK, Handlers, Deactivate
<1>2. h' = [h EXCEPT ![t] = [h[t] EXCEPT !.pc = "sync", !.roles = Plan]]
  BY DEF Deactivate
<1>3. h[t].op = "off" /\ h[t].who \in Member
  BY <1>1 DEF Sound
<1> QED
  BY <1>1, <1>2, <1>3 DEF Local

LEMMA SetPlanMove ==
  ASSUME TypeInv, NEW t \in Handler, NEW m \in Member, NEW p \in Plan, SetPlan(t, m, p)
  PROVE  /\ h' = [h EXCEPT ![t] = h'[t]] /\ h[t].pc = "idle"
         /\ h'[t].pc = "sync" /\ h'[t].op = "set" /\ h'[t].who = m /\ h'[t].plan = p
         /\ h'[t].roles = Plan \ {p}
         /\ \A n \in Member \ {m} : member'[n] = member[n]
         /\ RolesFor(member'[m]) = {p}
<1>1. h' = [h EXCEPT ![t] = [Idle EXCEPT !.pc = "sync", !.op = "set", !.who = m, !.plan = p,
                                         !.roles = Plan \ {p}]]
  BY DEF SetPlan
<1>2. h \in [Handler -> Local] /\ h[t].pc = "idle"
  BY DEF SetPlan, TypeInv, TypeOK
<1>3. /\ h' = [h EXCEPT ![t] = h'[t]]
      /\ h'[t].pc = "sync" /\ h'[t].op = "set" /\ h'[t].who = m /\ h'[t].plan = p
      /\ h'[t].roles = Plan \ {p}
  BY <1>1, <1>2 DEF Idle
<1> DEFINE row == [member[m] EXCEPT !.plan = p, !.active = TRUE]
<1>4. row.plan = p /\ row.active = TRUE
  BY GrantedFields DEF TypeInv, TypeOK
<1>5. member' = [member EXCEPT ![m] = row]
  BY DEF SetPlan
<1> HIDE DEF row
<1>6. member'[m].plan = p /\ member'[m].active = TRUE
  BY <1>4, <1>5 DEF TypeInv, TypeOK
<1>7. \A n \in Member \ {m} : member'[n] = member[n]
  BY <1>5 DEF TypeInv, TypeOK
<1>8. RolesFor(member'[m]) = {p}
  BY <1>6 DEF RolesFor
<1> QED
  BY <1>2, <1>3, <1>7, <1>8

(* The steps of a role sync.                                                         *)
LEMMA DropRoleMove ==
  ASSUME TypeInv, NEW t \in Handler, NEW p \in Plan, NEW failed \in BOOLEAN, DropRole(t, p, failed)
  PROVE  /\ h' = [h EXCEPT ![t] = h'[t]] /\ h[t].pc = "sync" /\ h[t].who \in Member
         /\ \/ h'[t] = Idle /\ h[t].op = "off" /\ h[t].roles = {p}
            \/ /\ h'[t].pc = "sync" /\ h'[t].op = h[t].op /\ h'[t].who = h[t].who
               /\ h'[t].mem = h[t].mem /\ h'[t].plan = h[t].plan /\ h'[t].roles = h[t].roles \ {p}
<1>1. h \in [Handler -> Local] /\ h[t] \in Local /\ Sound(h[t]) /\ h[t].pc = "sync" /\ p \in h[t].roles
  BY DEF TypeInv, TypeOK, Handlers, DropRole
<1>2. h[t].who \in Member
  BY <1>1 DEF Sound
<1>3. h' = [h EXCEPT ![t] = AfterDrop(h[t], p)]
  BY DEF DropRole
<1> QED
  BY <1>1, <1>2, <1>3, AfterDropType

LEMMA AddRoleMove ==
  ASSUME TypeInv, NEW t \in Handler, NEW failed \in BOOLEAN, AddRole(t, failed)
  PROVE  /\ h' = [h EXCEPT ![t] = h'[t]] /\ h[t].pc = "sync" /\ h[t].roles = {}
         /\ h[t].who \in Member /\ h[t].op # "off"
         /\ \/ h'[t] = Idle
            \/ /\ h[t].op \in {"auto", "claim"} /\ h'[t].pc \in {"restore", "mark"}
               /\ h'[t].op = h[t].op /\ h'[t].who = h[t].who /\ h'[t].mem = h[t].mem
         /\ h[t].op \in {"on", "auto"} => h'[t] = Idle \/ h'[t].op = "auto"
<1>1. h \in [Handler -> Local] /\ h[t] \in Local /\ Sound(h[t]) /\ h[t].pc = "sync" /\ h[t].roles = {}
  BY DEF TypeInv, TypeOK, Handlers, AddRole
<1>2. h[t].who \in Member /\ h[t].op # "off"
  BY <1>1 DEF Sound
<1>3. h' = [h EXCEPT ![t] = AfterSync(h[t])]
  BY DEF AddRole
<1>4. h'[t] = AfterSync(h[t]) /\ h' = [h EXCEPT ![t] = h'[t]]
  BY <1>1, <1>3
<1> QED
  BY <1>1, <1>2, <1>4, AfterSyncType

(* The steps of a new filter.                                                        *)
LEMMA AskFilterMove ==
  ASSUME TypeInv, NEW t \in Handler, NEW m \in Member, AskFilter(t, m)
  PROVE  /\ h' = [h EXCEPT ![t] = h'[t]] /\ h[t].pc = "idle"
         /\ h'[t].pc = "align" /\ h'[t].op = "filter" /\ h'[t].who = m /\ h'[t].roles = roles[m]
<1>1. h' = [h EXCEPT ![t] = [Idle EXCEPT !.pc = "align", !.op = "filter", !.who = m, !.roles = roles[m]]]
  BY DEF AskFilter
<1> QED
  BY <1>1 DEF AskFilter, Idle, TypeInv, TypeOK

LEMMA AlignMove ==
  ASSUME TypeInv, NEW t \in Handler, Align(t)
  PROVE  /\ h' = [h EXCEPT ![t] = h'[t]] /\ h[t].pc = "align" /\ h[t].who \in Member
         /\ h'[t].pc \in {"create", "idle"}
         /\ h'[t].pc = "create" => h'[t].op = h[t].op /\ h'[t].mem = h[t].mem
         /\ member' = [member EXCEPT ![h[t].who] = Aligned(@, PlanFromRoles(h[t].roles))]
<1>1. h \in [Handler -> Local] /\ h[t] \in Local /\ Sound(h[t]) /\ h[t].pc = "align"
  BY DEF TypeInv, TypeOK, Handlers, Align
<1>2. h[t].who \in Member
  BY <1>1 DEF Sound
<1>3. h' = [h EXCEPT ![t] = [h[t] EXCEPT !.pc = "create"]] \/ h' = [h EXCEPT ![t] = Idle]
  BY DEF Align
<1>4. /\ h' = [h EXCEPT ![t] = h'[t]] /\ h'[t].pc \in {"create", "idle"}
      /\ h'[t].pc = "create" => h'[t].op = h[t].op /\ h'[t].mem = h[t].mem
  BY <1>1, <1>3 DEF Local, Idle
<1>5. member' = [member EXCEPT ![h[t].who] = Aligned(@, PlanFromRoles(h[t].roles))]
  BY DEF Align
<1> QED
  BY <1>1, <1>2, <1>4, <1>5

----------------------------------------------------------------------------
(* Plans, roles and used claims come from purchases *)

(* G are the members an admin gave a plan, A the activations.                        *)
Paid(m, A, G) == m \in G \/ \E x \in Membership : <<m, x>> \in A

(* A handler that syncs roles or finishes a claim has activated the plan before, and *)
(* roles an interaction came with were given.                                        *)
Purchased(s, A, G) ==
  /\ s.pc \in {"sync", "restore", "mark"} /\ s.op \notin {"set", "off"} => <<s.who, s.mem>> \in A
  /\ s.pc = "sync" /\ s.op = "set" => s.who \in G
  /\ s.pc = "align" /\ s.roles # {} => Paid(s.who, A, G)

PurchaseInv ==
  /\ UsedClaimActivated
  /\ ActiveAfterPurchase
  /\ \A t \in Handler : Purchased(h[t], activated, granted)

LEMMA PaidGrows ==
  ASSUME NEW A, NEW B, NEW G, NEW H, A \subseteq B, G \subseteq H
  PROVE  /\ \A m : Paid(m, A, G) => Paid(m, B, H)
         /\ \A s : Purchased(s, A, G) => Purchased(s, B, H)
BY DEF Paid, Purchased

LEMMA PurchasedMoves ==
  ASSUME TypeInv, PurchaseInv, NEW t \in Handler, h' = [h EXCEPT ![t] = h'[t]],
         activated \subseteq activated', granted \subseteq granted', Purchased(h'[t], activated', granted')
  PROVE  \A u \in Handler : Purchased(h'[u], activated', granted')
<1>1. TAKE u \in Handler
<1>2. Purchased(h[u], activated', granted')
  BY PaidGrows DEF PurchaseInv
<1>3. CASE u = t
  BY <1>3
<1>4. CASE u # t
  <2>1. h'[u] = h[u]
    BY <1>4 DEF TypeInv, TypeOK
  <2> QED
    BY <1>2, <2>1
<1> QED
  BY <1>3, <1>4

LEMMA UsedFrame ==
  ASSUME UsedClaimActivated, UNCHANGED claim, activated \subseteq activated'
  PROVE  UsedClaimActivated'
BY DEF UsedClaimActivated

(* The member m excepted, active plans and roles are those of before.                *)
LEMMA ActiveFrame ==
  ASSUME ActiveAfterPurchase, activated \subseteq activated', granted \subseteq granted', NEW m,
         \A n \in Member \ {m} : member'[n] = member[n] /\ roles'[n] \subseteq roles[n],
         m \in Member /\ (member'[m].active \/ roles'[m] # {}) => Paid(m, activated', granted')
  PROVE  ActiveAfterPurchase'
<1>1. SUFFICES ASSUME NEW n \in Member, member'[n].active \/ roles'[n] # {}
               PROVE  Paid(n, activated', granted')
  BY DEF ActiveAfterPurchase, Paid
<1>2. CASE n = m
  BY <1>1, <1>2
<1>3. CASE n # m
  <2>1. member'[n] = member[n] /\ roles'[n] \subseteq roles[n]
    BY <1>3
  <2>2. Paid(n, activated, granted)
    BY <1>1, <2>1 DEF ActiveAfterPurchase, Paid
  <2> QED
    BY <2>2, PaidGrows
<1> QED
  BY <1>2, <1>3

LEMMA QuietPurchase ==
  ASSUME TypeInv, PurchaseInv, NEW t \in Handler, Quiet(t)
  PROVE  PurchaseInv'
<1>1. UNCHANGED <<member, roles, activated, granted, mess>>
  BY QuietFrame
<1>2. h[t] \in Local /\ Sound(h[t]) /\ Purchased(h[t], activated, granted)
  BY DEF TypeInv, TypeOK, Handlers, PurchaseInv
<1>3. Purchased(h'[t], activated', granted')
  <2>1. h'[t].pc = "mark" => Purchased(h'[t], activated', granted')
    BY <1>1, <1>2, QuietMove DEF Purchased
  <2>2. h'[t].pc # "mark" => Purchased(h'[t], activated', granted')
    BY QuietMove DEF Purchased
  <2> QED
    BY <2>1, <2>2
<1>4. \A u \in Handler : Purchased(h'[u], activated', granted')
  BY <1>1, <1>3, QuietMove, PurchasedMoves
<1>5. ActiveAfterPurchase'
  BY <1>1 DEF PurchaseInv, ActiveAfterPurchase
<1>6. \A x \in Membership : claim'[x].st = "used" =>
        claim'[x] = claim[x] \/ (claim'[x].by = h[t].who /\ x = h[t].mem /\ h[t].pc = "mark")
  <2>1. CASE UNCHANGED claim
    BY <2>1
  <2>2. ASSUME NEW failed \in BOOLEAN, Store(t, failed)
        PROVE  \A x \in Membership : claim'[x].st = "used" => claim'[x] = claim[x]
    BY <2>2 DEF Store, TypeInv, TypeOK
  <2>3. ASSUME NEW failed \in BOOLEAN, MarkUsed(t, failed)
        PROVE  \A x \in Membership : claim'[x].st = "used" =>
                 claim'[x] = claim[x] \/ (claim'[x].by = h[t].who /\ x = h[t].mem /\ h[t].pc = "mark")
    BY <2>3 DEF MarkUsed, TypeInv, TypeOK
  <2>4. (\E failed \in BOOLEAN : Store(t, failed) \/ MarkUsed(t, failed)) \/ UNCHANGED claim
    BY DEF Quiet, ReceiveActivated, ReceiveDeactivated, ReadIntents, ReadRules, Elect, Fetch,
           Lookup, StartClaim, Find, CreateFilter, TransactionFails, tables
  <2> QED
    BY <2>1, <2>2, <2>3, <2>4
<1>7. h[t].pc = "mark" => <<h[t].who, h[t].mem>> \in activated
  BY <1>2 DEF Sound, Purchased
<1>8. UsedClaimActivated'
  BY <1>1, <1>6, <1>7 DEF UsedClaimActivated, PurchaseInv
<1> QED
  BY <1>4, <1>5, <1>8 DEF PurchaseInv

LEMMA ActivatePurchase ==
  ASSUME TypeInv, PurchaseInv, NEW t \in Handler, Activate(t)
  PROVE  PurchaseInv'
<1> DEFINE m == h[t].who
<1>1. /\ activated' = activated \cup {<<m, h[t].mem>>} /\ UNCHANGED <<claim, roles, granted>>
      /\ \A n \in Member \ {m} : member'[n] = member[n]
  BY DEF Activate, TypeInv, TypeOK
<1>2. m \in Member /\ h[t].mem \in Membership
  BY ActivateMove
<1>3. Purchased(h'[t], activated', granted')
  BY <1>1, ActivateMove DEF Purchased
<1>4. \A u \in Handler : Purchased(h'[u], activated', granted')
  BY <1>1, <1>3, ActivateMove, PurchasedMoves
<1>5. Paid(m, activated', granted')
  BY <1>1, <1>2 DEF Paid
<1> HIDE DEF m
<1>6. ActiveAfterPurchase'
  BY <1>1, <1>5, ActiveFrame DEF PurchaseInv
<1> QED
  BY <1>1, <1>4, <1>6, UsedFrame DEF PurchaseInv

LEMMA DeactivatePurchase ==
  ASSUME TypeInv, PurchaseInv, NEW t \in Handler, Deactivate(t)
  PROVE  PurchaseInv'
<1> DEFINE m == h[t].who
<1>1. /\ UNCHANGED <<claim, roles, activated, granted>>
      /\ \A n \in Member \ {m} : member'[n] = member[n]
  BY DEF Deactivate, TypeInv, TypeOK
<1>2. m \in Member
  BY DeactivateMove
<1>3. member'[m].active = FALSE
  BY <1>2 DEF Deactivate, TypeInv, TypeOK
<1>4. Purchased(h'[t], activated', granted')
  BY DeactivateMove DEF Purchased
<1>5. \A u \in Handler : Purchased(h'[u], activated', granted')
  BY <1>1, <1>4, DeactivateMove, PurchasedMoves
<1>6. roles'[m] # {} => Paid(m, activated', granted')
  BY <1>1, <1>2 DEF PurchaseInv, ActiveAfterPurchase, Paid
<1> HIDE DEF m
<1>7. ActiveAfterPurchase'
  BY <1>1, <1>3, <1>6, ActiveFrame DEF PurchaseInv
<1> QED
  BY <1>1, <1>5, <1>7, UsedFrame DEF PurchaseInv

LEMMA SetPlanPurchase ==
  ASSUME TypeInv, PurchaseInv, NEW t \in Handler, NEW m \in Member, NEW p \in Plan, SetPlan(t, m, p)
  PROVE  PurchaseInv'
<1>1. UNCHANGED <<claim, roles, activated>> /\ granted' = granted \cup {m}
  BY DEF SetPlan
<1>2. \A n \in Member \ {m} : member'[n] = member[n]
  BY DEF SetPlan, TypeInv, TypeOK
<1>3. Purchased(h'[t], activated', granted')
  BY <1>1, SetPlanMove DEF Purchased
<1>4. \A u \in Handler : Purchased(h'[u], activated', granted')
  BY <1>1, <1>3, SetPlanMove, PurchasedMoves
<1>5. ActiveAfterPurchase'
  BY <1>1, <1>2, ActiveFrame DEF PurchaseInv, Paid
<1> QED
  BY <1>1, <1>4, <1>5, UsedFrame DEF PurchaseInv

LEMMA DropRolePurchase ==
  ASSUME TypeInv, PurchaseInv, NEW t \in Handler, NEW p \in Plan, NEW failed \in BOOLEAN, DropRole(t, p, failed)
  PROVE  PurchaseInv'
<1>1. UNCHANGED <<member, claim, activated, granted>>
  BY DEF DropRole, tables
<1>2. \A n \in Member : roles'[n] \subseteq roles[n]
  BY DEF DropRole, TypeInv, TypeOK
<1>3. Purchased(h[t], activated, granted)
  BY DEF PurchaseInv
<1>4. Purchased(h'[t], activated', granted')
  BY <1>1, <1>3, DropRoleMove DEF Purchased, Idle
<1>5. \A u \in Handler : Purchased(h'[u], activated', granted')
  BY <1>1, <1>4, DropRoleMove, PurchasedMoves
<1>6. ActiveAfterPurchase'
  <2>1. SUFFICES ASSUME NEW n \in Member, member'[n].active \/ roles'[n] # {}
                 PROVE  Paid(n, activated', granted')
    BY DEF ActiveAfterPurchase, Paid
  <2>2. member[n].active \/ roles[n] # {}
    BY <1>1, <1>2, <2>1
  <2> QED
    BY <1>1, <2>2 DEF PurchaseInv, ActiveAfterPurchase, Paid
<1> QED
  BY <1>1, <1>5, <1>6, UsedFrame DEF PurchaseInv

LEMMA AddRolePurchase ==
  ASSUME TypeInv, PurchaseInv, NEW t \in Handler, NEW failed \in BOOLEAN, AddRole(t, failed)
  PROVE  PurchaseInv'
<1> DEFINE m == h[t].who
<1>1. UNCHANGED <<member, claim, activated, granted>>
  BY DEF AddRole, tables
<1>2. \A n \in Member \ {m} : roles'[n] = roles[n]
  BY DEF AddRole, TypeInv, TypeOK
<1>3. Purchased(h[t], activated, granted) /\ h[t] \in Local /\ Sound(h[t])
  BY DEF PurchaseInv, TypeInv, TypeOK, Handlers
<1>4. Purchased(h'[t], activated', granted')
  BY <1>1, <1>3, AddRoleMove DEF Purchased, Idle
<1>5. \A u \in Handler : Purchased(h'[u], activated', granted')
  BY <1>1, <1>4, AddRoleMove, PurchasedMoves
<1>6. Paid(m, activated', granted')
  BY <1>1, <1>3, AddRoleMove DEF Purchased, Paid, Sound
<1> HIDE DEF m
<1>7. ActiveAfterPurchase'
  BY <1>1, <1>2, <1>6, ActiveFrame DEF PurchaseInv
<1> QED
  BY <1>1, <1>5, <1>7, UsedFrame DEF PurchaseInv

LEMMA AskFilterPurchase ==
  ASSUME TypeInv, PurchaseInv, NEW t \in Handler, NEW m \in Member, AskFilter(t, m)
  PROVE  PurchaseInv'
<1>1. UNCHANGED <<member, claim, roles, activated, granted>>
  BY DEF AskFilter, tables, hist
<1>2. roles[m] # {} => Paid(m, activated, granted)
  BY DEF PurchaseInv, ActiveAfterPurchase, Paid
<1>3. Purchased(h'[t], activated', granted')
  BY <1>1, <1>2, AskFilterMove DEF Purchased
<1>4. \A u \in Handler : Purchased(h'[u], activated', granted')
  BY <1>1, <1>3, AskFilterMove, PurchasedMoves
<1> QED
  BY <1>1, <1>4, UsedFrame DEF PurchaseInv, ActiveAfterPurchase

LEMMA AlignPurchase ==
  ASSUME TypeInv, PurchaseInv, NEW t \in Handler, Align(t)
  PROVE  PurchaseInv'
<1> DEFINE m == h[t].who
           p == PlanFromRoles(h[t].roles)
<1>1. UNCHANGED <<claim, roles, activated, granted>>
  BY DEF Align
<1>2. Purchased(h[t], activated, granted) /\ h[t] \in Local
  BY DEF PurchaseInv, TypeInv, TypeOK
<1>3. Purchased(h'[t], activated', granted')
  BY AlignMove DEF Purchased
<1>4. \A u \in Handler : Purchased(h'[u], activated', granted')
  BY <1>1, <1>3, AlignMove, PurchasedMoves
<1>5. m \in Member /\ \A n \in Member \ {m} : member'[n] = member[n]
  BY AlignMove DEF TypeInv, TypeOK
<1>6. member'[m] = Aligned(member[m], p)
  BY <1>5, AlignMove DEF TypeInv, TypeOK
<1>7. p \in Plan \cup {"none"} /\ (p \in Plan => h[t].roles # {})
  BY <1>2, PlanAssumption, PlanOfRoles, LocalParts
<1>8. member'[m] = member[m] \/ Paid(m, activated, granted)
  <2>1. p \in Plan => Paid(m, activated, granted)
    BY <1>2, <1>7, AlignMove DEF Purchased
  <2>2. p \notin Plan => member'[m] = member[m]
    BY <1>6, <1>7 DEF Aligned
  <2> QED
    BY <2>1, <2>2
<1>9. member'[m].active \/ roles'[m] # {} => Paid(m, activated', granted')
  BY <1>1, <1>5, <1>8 DEF PurchaseInv, ActiveAfterPurchase, Paid
<1> HIDE DEF m
<1>10. ActiveAfterPurchase'
  BY <1>1, <1>5, <1>9, ActiveFrame DEF PurchaseInv
<1> QED
  BY <1>1, <1>4, <1>10, UsedFrame DEF PurchaseInv

(* Whatever leaves the handlers alone, or ends them all.                             *)
LEMMA OtherPurchase ==
  ASSUME TypeInv, PurchaseInv, Whop \/ Memory \/ Restart \/ UNCHANGED vars
  PROVE  PurchaseInv'
<1>1. UNCHANGED <<member, claim, roles, activated, granted>>
  BY DEF Whop, Pay, End, Resend, Memory, ClickCheckout, AcceptRules, Forget, ToggleFilter, Restart,
         vars, tables, hist
<1>2. UNCHANGED h \/ h' = [t \in Handler |-> Idle]
  BY DEF Whop, Pay, End, Resend, Memory, ClickCheckout, AcceptRules, Forget, ToggleFilter, Restart, vars
<1>3. Purchased(Idle, activated, granted)
  BY DEF Purchased, Idle
<1>4. \A t \in Handler : Purchased(h'[t], activated', granted')
  BY <1>1, <1>2, <1>3 DEF PurchaseInv
<1> QED
  BY <1>1, <1>4 DEF PurchaseInv, UsedClaimActivated, ActiveAfterPurchase

(* The actions of a handler.                                                         *)
LEMMA HandlerActions ==
  ASSUME NEW t \in Handler,
         Activation(t) \/ Deactivation(t) \/ RoleSync(t) \/ Interaction(t) \/ TransactionFails(t)
  PROVE  \/ Quiet(t)
         \/ Activate(t) \/ Deactivate(t)
         \/ \E m \in Member, p \in Plan : SetPlan(t, m, p)
         \/ \E p \in Plan, failed \in BOOLEAN : DropRole(t, p, failed)
         \/ \E failed \in BOOLEAN : AddRole(t, failed)
         \/ \E m \in Member : AskFilter(t, m)
         \/ Align(t)
BY DEF Activation, Deactivation, RoleSync, Interaction, Quiet

LEMMA PurchaseStep ==
  ASSUME TypeInv, PurchaseInv, [Next]_vars
  PROVE  PurchaseInv'
<1>1. CASE Whop \/ Memory \/ Restart \/ UNCHANGED vars
  BY <1>1, OtherPurchase
<1>2. ASSUME NEW t \in Handler,
             Activation(t) \/ Deactivation(t) \/ RoleSync(t) \/ Interaction(t) \/ TransactionFails(t)
      PROVE  PurchaseInv'
  BY <1>2, HandlerActions, QuietPurchase, ActivatePurchase, DeactivatePurchase, SetPlanPurchase,
     DropRolePurchase, AddRolePurchase, AskFilterPurchase, AlignPurchase
<1> QED
  BY <1>1, <1>2 DEF Next

LEMMA PurchaseAlways == Spec => []PurchaseInv
<1>1. Init => PurchaseInv
  BY DEF Init, PurchaseInv, UsedClaimActivated, ActiveAfterPurchase, Purchased, Idle, NoRow, Unclaimed
<1>2. TypeInv /\ PurchaseInv /\ [Next]_vars => PurchaseInv'
  BY PurchaseStep
<1> QED
  BY <1>1, <1>2, TypeAlways, PTL DEF Spec

(* A subscription is active, and its role given, only after a purchase or by an      *)
(* admin.                                                                            *)
THEOREM ActiveAfterPurchaseAlways == Spec => []ActiveAfterPurchase
<1>1. PurchaseInv => ActiveAfterPurchase
  BY DEF PurchaseInv
<1> QED
  BY <1>1, PurchaseAlways, PTL

(* A claim is used up only by a member whose plan was activated for it.              *)
THEOREM UsedClaimActivatedAlways == Spec => []UsedClaimActivated
<1>1. PurchaseInv => UsedClaimActivated
  BY DEF PurchaseInv
<1> QED
  BY <1>1, PurchaseAlways, PTL

----------------------------------------------------------------------------
(* No payment is lost without a failure *)

(* The payment of x can be claimed, or has activated a plan.                         *)
Handled(x, C, A) == C[x].st # "none" \/ \E m \in Member : <<m, x>> \in A

(* A handler of an activation that is past its first write has handled the payment.  *)
Seen(s, C, A) ==
  /\ s.op \in {"on", "auto"} /\ s.pc \notin {"idle", "store", "activate"} => Handled(s.mem, C, A)
  /\ s.pc \in {"store", "intents", "rules", "byIntent", "byRules"} => s.op = "on"

PayInv ==
  faults = 0 =>
    /\ \A x \in Membership :
         \/ whop[x] = "none"
         \/ <<"activated", x>> \in events
         \/ \E t \in Handler : <<"activated", x>> \in EventOf(h[t])
         \/ Handled(x, claim, activated)
    /\ \A t \in Handler : Seen(h[t], claim, activated)

LEMMA PayInvReachable == PayInv => PaymentReachable
BY DEF PayInv, PaymentReachable, Handled

(* A step of one handler may drop an event only when the payment is handled.         *)
LEMMA PayMoves ==
  ASSUME TypeInv, PayInv, faults = 0, NEW t \in Handler, h' = [h EXCEPT ![t] = h'[t]], UNCHANGED whop,
         \A x \in Membership : Handled(x, claim, activated) => Handled(x, claim', activated'),
         \A x \in Membership : <<"activated", x>> \in events \cup EventOf(h[t]) =>
           <<"activated", x>> \in events' \cup EventOf(h'[t]) \/ Handled(x, claim', activated'),
         Seen(h'[t], claim', activated')
  PROVE  PayInv'
<1>1. ASSUME NEW x \in Membership
      PROVE  \/ whop'[x] = "none"
             \/ <<"activated", x>> \in events'
             \/ \E u \in Handler : <<"activated", x>> \in EventOf(h'[u])
             \/ Handled(x, claim', activated')
  <2>1. CASE whop[x] = "none" \/ Handled(x, claim, activated)
    BY <2>1
  <2>2. CASE <<"activated", x>> \in events
    BY <2>2
  <2>3. ASSUME NEW u \in Handler, <<"activated", x>> \in EventOf(h[u])
        PROVE  \/ <<"activated", x>> \in events'
               \/ \E v \in Handler : <<"activated", x>> \in EventOf(h'[v])
               \/ Handled(x, claim', activated')
    <3>1. CASE u = t
      BY <2>3, <3>1
    <3>2. CASE u # t
      <4>1. h'[u] = h[u]
        BY <3>2 DEF TypeInv, TypeOK
      <4> QED
        BY <2>3, <4>1
    <3> QED
      BY <3>1, <3>2
  <2> QED
    BY <2>1, <2>2, <2>3 DEF PayInv
<1>2. ASSUME NEW u \in Handler
      PROVE  Seen(h'[u], claim', activated')
  <2>1. CASE u = t
    BY <2>1
  <2>2. CASE u # t
    <3>1. h'[u] = h[u] /\ Sound(h[u]) /\ Seen(h[u], claim, activated)
      BY <2>2 DEF TypeInv, TypeOK, Handlers, PayInv
    <3> QED
      BY <3>1 DEF Seen, Sound
  <2> QED
    BY <2>1, <2>2
<1> QED
  BY <1>1, <1>2 DEF PayInv

(* The step of a handler that goes on with the event it has, or drops it when it has *)
(* written the payment down.                                                         *)
LEMMA PayGoesOn ==
  ASSUME TypeInv, PayInv, faults = 0, NEW t \in Handler, h' = [h EXCEPT ![t] = h'[t]], UNCHANGED <<whop, events>>,
         \A x \in Membership : Handled(x, claim, activated) => Handled(x, claim', activated'),
         h[t].pc \notin {"store", "activate"},
         \/ h'[t].pc = "idle"
         \/ /\ h'[t].op = h[t].op /\ h'[t].mem = h[t].mem
            /\ h'[t].pc \in {"intents", "rules", "byIntent", "byRules"} =>
                 h[t].pc \in {"intents", "rules", "byIntent", "byRules"}
            /\ h'[t].pc # "store" /\ h[t].pc # "idle"
         \/ h'[t].op \notin {"on", "auto"} /\ h'[t].pc \notin {"store", "intents", "rules", "byIntent", "byRules"}
  PROVE  PayInv'
<1>1. h[t] \in Local /\ Sound(h[t]) /\ Seen(h[t], claim, activated)
  BY DEF TypeInv, TypeOK, Handlers, PayInv
<1>2. ASSUME NEW x \in Membership, <<"activated", x>> \in EventOf(h[t])
      PROVE  Handled(x, claim', activated')
  BY <1>1, <1>2 DEF EventOf, Seen
<1>3. h[t].op \in {"on", "auto"} /\ h[t].pc # "idle" => Handled(h[t].mem, claim', activated')
  BY <1>1 DEF Seen, Sound
<1>4. Seen(h'[t], claim', activated')
  BY <1>1, <1>3 DEF Seen
<1> QED
  BY <1>2, <1>4, PayMoves

LEMMA QuietPay ==
  ASSUME TypeInv, PayInv, faults = 0, ~Fault, NEW t \in Handler, Quiet(t)
  PROVE  PayInv'
<1> DEFINE Mono == \A x \in Membership : Handled(x, claim, activated) => Handled(x, claim', activated')
<1>1. h \in [Handler -> Local] /\ h[t] \in Local /\ Sound(h[t]) /\ Seen(h[t], claim, activated)
  BY DEF TypeInv, TypeOK, Handlers, PayInv
<1>2. h' = [h EXCEPT ![t] = h'[t]] /\ UNCHANGED activated
  BY QuietMove, QuietFrame
<1>3. UNCHANGED claim => Mono
  BY <1>2
<1>4. ASSUME NEW x \in Membership, ReceiveActivated(t, x) PROVE PayInv'
  <2>1. UNCHANGED <<whop, claim>> /\ events' = events \ {<<"activated", x>>} /\ h[t].pc = "idle"
    BY <1>4 DEF ReceiveActivated, tables
  <2>2. h'[t].op = "on" /\ h'[t].mem = x /\ h'[t].pc \in {"store", "activate"}
    BY <1>1, <1>4 DEF ReceiveActivated, Idle
  <2>3. EventOf(h'[t]) = {<<"activated", x>>} /\ EventOf(h[t]) = {} /\ Seen(h'[t], claim', activated')
    BY <2>1, <2>2 DEF EventOf, Seen
  <2> QED
    BY <1>2, <1>3, <2>1, <2>3, PayMoves
<1>5. ASSUME NEW x \in Membership, ReceiveDeactivated(t, x) PROVE PayInv'
  <2>1. UNCHANGED <<whop, claim>> /\ events' = events \ {<<"deactivated", x>>} /\ h[t].pc = "idle"
    BY <1>5 DEF ReceiveDeactivated, tables
  <2>2. h'[t].op = "off" /\ h'[t].pc = "lookup"
    BY <1>1, <1>5 DEF ReceiveDeactivated, Idle
  <2>3. EventOf(h[t]) = {} /\ Seen(h'[t], claim', activated')
    BY <2>1, <2>2 DEF EventOf, Seen
  <2> QED
    BY <1>2, <1>3, <2>1, <2>3, PayMoves
<1>6. ASSUME NEW failed \in BOOLEAN, Store(t, failed) PROVE PayInv'
  <2>1. /\ UNCHANGED <<whop, events>> /\ h[t].pc \in {"store", "restore", "persist"}
        /\ claim' = [claim EXCEPT ![h[t].mem] = [st |-> "open", by |-> NoMember]]
    BY <1>6 DEF Store
  <2>2. /\ h'[t].op = h[t].op /\ h'[t].mem = h[t].mem
        /\ h'[t].pc = CASE h[t].pc = "store" -> "intents" [] h[t].pc = "restore" -> "mark" [] OTHER -> "activate"
    BY <1>1, <1>6 DEF Store, Local
  <2>3. h[t].op \in {"on", "auto"} => h[t].mem \in Membership
    BY <1>1, <2>1 DEF Sound
  <2>4. Mono
    BY <1>2, <2>1 DEF Handled, TypeInv, TypeOK
  <2>5. h[t].op \in {"on", "auto"} => Handled(h[t].mem, claim', activated')
    BY <2>1, <2>3 DEF Handled, TypeInv, TypeOK
  <2>6. Seen(h'[t], claim', activated')
    BY <1>1, <2>1, <2>2, <2>5 DEF Seen
  <2>7. EventOf(h'[t]) = EventOf(h[t])
    BY <2>1, <2>2 DEF EventOf
  <2> QED
    BY <1>2, <2>1, <2>4, <2>6, <2>7, PayMoves
<1>7. ASSUME NEW failed \in BOOLEAN, Elect(t, failed) PROVE PayInv'
  <2>1. UNCHANGED <<whop, events, claim>> /\ h[t].pc \in {"byIntent", "byRules"}
    BY <1>7 DEF Elect, tables
  <2>2. \/ h'[t].pc = "activate" /\ h'[t].op = "auto" /\ h'[t].mem = h[t].mem
        \/ h'[t].pc = "rules" /\ h'[t].op = h[t].op /\ h'[t].mem = h[t].mem
        \/ h'[t].pc = "idle"
    BY <1>1, <1>7 DEF Elect, Local, Idle
  <2>3. h[t].op = "on" /\ Handled(h[t].mem, claim, activated) /\ h[t].mem \in Membership
    BY <1>1, <2>1 DEF Seen, Sound
  <2>4. Seen(h'[t], claim', activated')
    BY <1>2, <2>1, <2>2, <2>3 DEF Seen
  <2>5. EventOf(h[t]) = {<<"activated", h[t].mem>>}
    BY <2>1, <2>3 DEF EventOf
  <2> QED
    BY <1>2, <1>3, <2>1, <2>3, <2>4, <2>5, PayMoves
<1>8. CASE ReadIntents(t)
  <2>1. UNCHANGED <<whop, events, claim>> /\ h[t].pc = "intents"
    BY <1>8 DEF ReadIntents, tables
  <2>2. h'[t].op = h[t].op /\ h'[t].mem = h[t].mem /\ h'[t].pc \in {"rules", "byIntent"}
    BY <1>1, <1>8 DEF ReadIntents, Local
  <2> QED
    BY <1>2, <1>3, <2>1, <2>2, PayGoesOn
<1>9. CASE ReadRules(t)
  <2>1. UNCHANGED <<whop, events, claim>> /\ h[t].pc = "rules"
    BY <1>9 DEF ReadRules, tables
  <2>2. h'[t].pc = "idle" \/ (h'[t].op = h[t].op /\ h'[t].mem = h[t].mem /\ h'[t].pc = "byRules")
    <3>1. h' = [h EXCEPT ![t] = Idle] \/ h' = [h EXCEPT ![t] = [h[t] EXCEPT !.pc = "byRules", !.cand = rules]]
      BY <1>9 DEF ReadRules
    <3>2. CASE h' = [h EXCEPT ![t] = Idle]
      BY <1>1, <3>2 DEF Idle
    <3>3. CASE h' = [h EXCEPT ![t] = [h[t] EXCEPT !.pc = "byRules", !.cand = rules]]
      BY <1>1, <3>3 DEF Local
    <3> QED
      BY <3>1, <3>2, <3>3
  <2> QED
    BY <1>2, <1>3, <2>1, <2>2, PayGoesOn
<1>10. ASSUME NEW failed \in BOOLEAN, Fetch(t, failed) PROVE PayInv'
  <2>1. UNCHANGED <<whop, events, claim>> /\ h[t].pc = "fetch"
    BY <1>10 DEF Fetch, tables
  <2>2. h'[t].pc = "idle" \/ (h'[t].op = h[t].op /\ h'[t].mem = h[t].mem /\ h'[t].pc = "persist")
    BY <1>1, <1>10 DEF Fetch, Local, Idle
  <2> QED
    BY <1>2, <1>3, <2>1, <2>2, PayGoesOn
<1>11. ASSUME NEW failed \in BOOLEAN, MarkUsed(t, failed) PROVE PayInv'
  <2>1. UNCHANGED <<whop, events>> /\ h[t].pc = "mark" /\ h'[t].pc = "idle"
    BY <1>1, <1>11 DEF MarkUsed, Idle
  <2>2. Mono
    BY <1>2, <1>11 DEF MarkUsed, Handled, TypeInv, TypeOK
  <2> QED
    BY <1>2, <2>1, <2>2, PayGoesOn
<1>12. ASSUME NEW m \in Member \cup {NoMember}, Lookup(t, m) PROVE PayInv'
  <2>1. UNCHANGED <<whop, events, claim>> /\ h[t].pc = "lookup"
    BY <1>12 DEF Lookup, tables
  <2>2. h'[t].pc = "idle" \/ (h'[t].op = h[t].op /\ h'[t].mem = h[t].mem /\ h'[t].pc = "deactivate")
    <3>1. h' = [h EXCEPT ![t] = Idle] \/ h' = [h EXCEPT ![t] = [h[t] EXCEPT !.pc = "deactivate", !.who = m]]
      BY <1>12 DEF Lookup
    <3>2. CASE h' = [h EXCEPT ![t] = Idle]
      BY <1>1, <3>2 DEF Idle
    <3>3. CASE h' = [h EXCEPT ![t] = [h[t] EXCEPT !.pc = "deactivate", !.who = m]]
      BY <1>1, <3>3 DEF Local
    <3> QED
      BY <3>1, <3>2, <3>3
  <2> QED
    BY <1>2, <1>3, <2>1, <2>2, PayGoesOn
<1>13. ASSUME NEW m \in Member, NEW x \in Membership, NEW byId \in BOOLEAN, StartClaim(t, m, x, byId) PROVE PayInv'
  <2>1. UNCHANGED <<whop, events, claim>> /\ h[t].pc = "idle"
    BY <1>13 DEF StartClaim, tables
  <2>2. h'[t].op = "claim" /\ h'[t].pc = "find"
    BY <1>1, <1>13 DEF StartClaim, Idle
  <2> QED
    BY <1>2, <1>3, <2>1, <2>2, PayGoesOn
<1>14. CASE Find(t)
  <2>1. UNCHANGED <<whop, events, claim>> /\ h[t].pc = "find"
    BY <1>14 DEF Find, tables
  <2>2. h'[t].pc = "idle" \/ (h'[t].op = h[t].op /\ h'[t].mem = h[t].mem /\ h'[t].pc \in {"activate", "fetch"})
    <3>1. h' = [h EXCEPT ![t] = Idle] \/ h' = [h EXCEPT ![t] = [h[t] EXCEPT !.pc = "activate", !.cand = {}]] \/ h' = [h EXCEPT ![t] = [h[t] EXCEPT !.pc = "fetch"]]
      BY <1>14 DEF Find
    <3>2. CASE h' = [h EXCEPT ![t] = Idle]
      BY <1>1, <3>2 DEF Idle
    <3>3. CASE h' = [h EXCEPT ![t] = [h[t] EXCEPT !.pc = "activate", !.cand = {}]]
      BY <1>1, <3>3 DEF Local
    <3>4. CASE h' = [h EXCEPT ![t] = [h[t] EXCEPT !.pc = "fetch"]]
      BY <1>1, <3>4 DEF Local
    <3> QED
      BY <3>1, <3>2, <3>3, <3>4
  <2> QED
    BY <1>2, <1>3, <2>1, <2>2, PayGoesOn
<1>15. CASE CreateFilter(t)
  <2>1. UNCHANGED <<whop, events, claim>> /\ h[t].pc = "create" /\ h'[t].pc = "idle"
    BY <1>1, <1>15 DEF CreateFilter, Idle
  <2> QED
    BY <1>2, <1>3, <2>1, PayGoesOn
<1>16. ~TransactionFails(t)
  BY DEF TransactionFails
<1> QED
  BY <1>4, <1>5, <1>6, <1>7, <1>8, <1>9, <1>10, <1>11, <1>12, <1>13, <1>14, <1>15, <1>16 DEF Quiet

LEMMA ActivatePay ==
  ASSUME TypeInv, PayInv, faults = 0, NEW t \in Handler, Activate(t)
  PROVE  PayInv'
<1>1. UNCHANGED <<whop, events, claim>> /\ activated' = activated \cup {<<h[t].who, h[t].mem>>}
  BY DEF Activate
<1>2. Handled(h[t].mem, claim', activated')
  BY <1>1, ActivateMove DEF Handled
<1>3. \A x \in Membership : Handled(x, claim, activated) => Handled(x, claim', activated')
  BY <1>1 DEF Handled
<1>4. Seen(h'[t], claim', activated')
  BY <1>2, ActivateMove DEF Seen
<1>5. \A x \in Membership : <<"activated", x>> \in EventOf(h[t]) => Handled(x, claim', activated')
  BY <1>2, ActivateMove DEF EventOf
<1> QED
  BY <1>1, <1>3, <1>4, <1>5, ActivateMove, PayMoves

(* The other steps that are not quiet write no claim and no activation.              *)
LEMMA SyncPay ==
  ASSUME TypeInv, PayInv, faults = 0, NEW t \in Handler,
         \/ Deactivate(t)
         \/ \E m \in Member, p \in Plan : SetPlan(t, m, p)
         \/ \E p \in Plan, failed \in BOOLEAN : DropRole(t, p, failed)
         \/ \E failed \in BOOLEAN : AddRole(t, failed)
         \/ \E m \in Member : AskFilter(t, m)
         \/ Align(t)
  PROVE  PayInv'
<1>1. UNCHANGED <<whop, events, claim, activated>>
  BY DEF Deactivate, SetPlan, DropRole, AddRole, AskFilter, Align, tables, hist
<1>2. \A x \in Membership : Handled(x, claim, activated) => Handled(x, claim', activated')
  BY <1>1
<1>3. CASE Deactivate(t)
  BY <1>1, <1>2, <1>3, DeactivateMove, PayGoesOn
<1>4. ASSUME NEW m \in Member, NEW p \in Plan, SetPlan(t, m, p) PROVE PayInv'
  BY <1>1, <1>2, <1>4, SetPlanMove, PayGoesOn
<1>5. ASSUME NEW p \in Plan, NEW failed \in BOOLEAN, DropRole(t, p, failed) PROVE PayInv'
  <2>1. \/ h'[t].pc = "idle"
        \/ h'[t].op = h[t].op /\ h'[t].mem = h[t].mem /\ h'[t].pc = "sync"
    BY <1>5, DropRoleMove DEF Idle
  <2>2. h' = [h EXCEPT ![t] = h'[t]] /\ h[t].pc = "sync"
    BY <1>5, DropRoleMove
  <2> QED
    BY <1>1, <1>2, <2>1, <2>2, PayGoesOn
<1>6. ASSUME NEW failed \in BOOLEAN, AddRole(t, failed) PROVE PayInv'
  <2>1. \/ h'[t].pc = "idle"
        \/ h'[t].op = h[t].op /\ h'[t].mem = h[t].mem /\ h'[t].pc \in {"restore", "mark"}
    BY <1>6, AddRoleMove DEF Idle
  <2>2. h' = [h EXCEPT ![t] = h'[t]] /\ h[t].pc = "sync"
    BY <1>6, AddRoleMove
  <2> QED
    BY <1>1, <1>2, <2>1, <2>2, PayGoesOn
<1>7. ASSUME NEW m \in Member, AskFilter(t, m) PROVE PayInv'
  BY <1>1, <1>2, <1>7, AskFilterMove, PayGoesOn
<1>8. CASE Align(t)
  BY <1>1, <1>2, <1>8, AlignMove, PayGoesOn
<1> QED
  BY <1>3, <1>4, <1>5, <1>6, <1>7, <1>8

(* Whop, the members and the process.                                                *)
LEMMA OtherPay ==
  ASSUME TypeInv, PayInv, faults = 0, ~Fault, Whop \/ Memory \/ Restart \/ UNCHANGED vars
  PROVE  PayInv'
<1>1. ASSUME NEW x \in Membership, Pay(x) \/ End(x) PROVE PayInv'
  <2>1. UNCHANGED <<claim, activated, h>> /\ events \subseteq events'
    BY <1>1 DEF Pay, End, tables, hist
  <2>2. \A y \in Membership : whop'[y] = "none" => whop[y] = "none"
    BY <1>1 DEF Pay, End, TypeInv, TypeOK
  <2>3. \A y \in Membership : whop[y] = "none" => whop'[y] = "none" \/ <<"activated", y>> \in events'
    BY <1>1 DEF Pay, End, TypeInv, TypeOK
  <2> QED
    BY <2>1, <2>2, <2>3 DEF PayInv
<1>2. \A t \in Handler : ~Resend(t)
  BY DEF Resend
<1>3. CASE Memory \/ UNCHANGED vars
  <2>1. UNCHANGED <<whop, events, claim, activated, h>>
    BY <1>3 DEF Memory, ClickCheckout, AcceptRules, Forget, ToggleFilter, vars, tables, hist
  <2> QED
    BY <2>1 DEF PayInv
<1>4. CASE Restart
  <2>1. UNCHANGED <<whop, claim, activated>> /\ h' = [t \in Handler |-> Idle]
    BY <1>4 DEF Restart, tables
  <2>2. events' = events \cup UNION {EventOf(h[t]) : t \in Handler}
    BY <1>4 DEF Restart
  <2>3. \A t \in Handler : Seen(h'[t], claim', activated')
    BY <2>1 DEF Seen, Idle
  <2> QED
    BY <2>1, <2>2, <2>3 DEF PayInv
<1> QED
  BY <1>1, <1>2, <1>3, <1>4 DEF Whop

LEMMA PayStep ==
  ASSUME TypeInv, PayInv, [Next]_vars
  PROVE  PayInv'
<1>1. SUFFICES ASSUME faults' = 0 PROVE PayInv'
  BY DEF PayInv
<1>2. ~Fault
  BY <1>1, BoundAssumption DEF Fault, TypeInv, TypeOK
<1>3. faults = 0
  <2>1. UNCHANGED faults \/ Fault
    <3>1. CASE Whop \/ Memory \/ Restart \/ UNCHANGED vars
      BY <3>1 DEF Whop, Pay, End, Resend, Memory, ClickCheckout, AcceptRules, Forget, ToggleFilter, Restart,
                  vars, bounds, Call
    <3>2. ASSUME NEW t \in Handler, Quiet(t) PROVE UNCHANGED faults \/ Fault
      BY <3>2 DEF Quiet, ReceiveActivated, ReceiveDeactivated, ReadIntents, ReadRules, Store, Elect, Fetch,
                  MarkUsed, Lookup, StartClaim, Find, CreateFilter, TransactionFails, bounds, Call
    <3>3. ASSUME NEW t \in Handler, Activate(t) \/ Deactivate(t) \/ Align(t) PROVE UNCHANGED faults
      BY <3>3 DEF Activate, Deactivate, Align, bounds
    <3>4. ASSUME NEW t \in Handler, NEW m \in Member, (\E p \in Plan : SetPlan(t, m, p)) \/ AskFilter(t, m)
          PROVE  UNCHANGED faults
      BY <3>4 DEF SetPlan, AskFilter, Call
    <3>5. ASSUME NEW t \in Handler, NEW failed \in BOOLEAN,
                 (\E p \in Plan : DropRole(t, p, failed)) \/ AddRole(t, failed)
          PROVE  UNCHANGED faults \/ Fault
      BY <3>5 DEF DropRole, AddRole, bounds
    <3> QED
      BY <3>1, <3>2, <3>3, <3>4, <3>5, HandlerActions DEF Next
  <2> QED
    BY <1>1, <1>2, <2>1
<1>4. CASE Whop \/ Memory \/ Restart \/ UNCHANGED vars
  BY <1>2, <1>3, <1>4, OtherPay
<1>5. ASSUME NEW t \in Handler,
             Activation(t) \/ Deactivation(t) \/ RoleSync(t) \/ Interaction(t) \/ TransactionFails(t)
      PROVE  PayInv'
  BY <1>2, <1>3, <1>5, HandlerActions, QuietPay, ActivatePay, SyncPay
<1> QED
  BY <1>4, <1>5 DEF Next

(* While nothing fails, a payment whose event was handled has activated a plan or can *)
(* be claimed, also when the process is restarted between any two steps.              *)
THEOREM PaymentReachableAlways == Spec => []PaymentReachable
<1>1. Init => PayInv
  BY DEF Init, PayInv, Seen, Idle
<1>2. TypeInv /\ PayInv /\ [Next]_vars => PayInv'
  BY PayStep
<1> QED
  BY <1>1, <1>2, PayInvReachable, TypeAlways, PTL DEF Spec

----------------------------------------------------------------------------
(* The roles follow the table *)

Syncs(s, m) == s.pc = "sync" /\ s.who = m

(* The roles a sync leaves when it is done.                                          *)
Target(s) == IF s.op = "off" THEN {} ELSE {s.plan}

(* A sync that runs alone works for the plan in the table, and has only those roles  *)
(* to remove that it is going to remove.                                             *)
SyncOf(s, row, R) == RolesFor(row) = Target(s) /\ R \subseteq s.roles \cup Target(s)

RolesInv ==
  /\ \A m \in Member \ mess : \A t, u \in Handler : Syncs(h[t], m) /\ Syncs(h[u], m) => t = u
  /\ \A m \in Member \ mess : \A t \in Handler : Syncs(h[t], m) => SyncOf(h[t], member[m], roles[m])
  /\ RolesMatchPlan

(* Steps outside the syncs.                                                          *)
LEMMA NoSyncRoles ==
  ASSUME TypeInv, RolesInv, NEW t \in Handler, h' = [h EXCEPT ![t] = h'[t]],
         h[t].pc # "sync", h'[t].pc # "sync", UNCHANGED <<member, roles, mess>>
  PROVE  RolesInv'
<1>1. \A u \in Handler : \A m \in Member : Syncs(h'[u], m) <=> Syncs(h[u], m)
  BY DEF Syncs, TypeInv, TypeOK
<1>2. \A u \in Handler : h'[u].pc = "sync" => h'[u] = h[u]
  BY DEF TypeInv, TypeOK
<1>3. \A m \in Member \ mess' : \A u, v \in Handler : Syncs(h'[u], m) /\ Syncs(h'[v], m) => u = v
  BY <1>1 DEF RolesInv
<1>4. \A m \in Member \ mess' : \A u \in Handler : Syncs(h'[u], m) => SyncOf(h'[u], member'[m], roles'[m])
  BY <1>1, <1>2 DEF RolesInv, Syncs
<1>5. RolesMatchPlan'
  BY <1>1 DEF RolesInv, RolesMatchPlan, Syncs
<1> QED
  BY <1>3, <1>4, <1>5 DEF RolesInv

(* A step of the sync of m, which leaves the other members alone.                    *)
LEMMA SyncMoves ==
  ASSUME TypeInv, RolesInv, NEW t \in Handler, NEW m \in Member, h' = [h EXCEPT ![t] = h'[t]],
         h[t].pc = "sync" => h[t].who = m,
         h'[t].pc = "sync" => h'[t].who = m,
         \A n \in Member \ {m} : member'[n] = member[n] /\ roles'[n] = roles[n] /\ (n \in mess' <=> n \in mess),
         m \notin mess' => \A u \in Handler \ {t} : ~Syncs(h[u], m),
         m \notin mess' /\ h'[t].pc = "sync" => SyncOf(h'[t], member'[m], roles'[m]),
         m \notin mess' /\ h'[t].pc # "sync" => roles'[m] = RolesFor(member'[m])
  PROVE  RolesInv'
<1>1. \A u \in Handler \ {t} : h'[u] = h[u]
  BY DEF TypeInv, TypeOK
<1>2. ASSUME NEW n \in Member \ {m}, NEW u \in Handler
      PROVE  (Syncs(h'[u], n) <=> Syncs(h[u], n)) /\ (Syncs(h'[u], n) => h'[u] = h[u])
  <2>1. CASE u = t
    BY <1>2, <2>1 DEF Syncs
  <2>2. CASE u # t
    BY <1>1, <2>2
  <2> QED
    BY <2>1, <2>2
<1>3. m \notin mess' => \A u \in Handler : Syncs(h'[u], m) => u = t
  BY <1>1
<1>4. ASSUME NEW n \in Member \ mess', NEW u \in Handler, NEW v \in Handler, Syncs(h'[u], n), Syncs(h'[v], n)
      PROVE  u = v
  <2>1. CASE n = m
    BY <1>3, <1>4, <2>1
  <2>2. CASE n # m
    BY <1>2, <1>4, <2>2 DEF RolesInv
  <2> QED
    BY <2>1, <2>2
<1>5. ASSUME NEW n \in Member \ mess', NEW u \in Handler, Syncs(h'[u], n)
      PROVE  SyncOf(h'[u], member'[n], roles'[n])
  <2>1. CASE n = m
    BY <1>3, <1>5, <2>1 DEF Syncs
  <2>2. CASE n # m
    BY <1>2, <1>5, <2>2 DEF RolesInv
  <2> QED
    BY <2>1, <2>2
<1>6. ASSUME NEW n \in Member \ mess', \A u \in Handler : ~Syncs(h'[u], n)
      PROVE  roles'[n] = RolesFor(member'[n])
  <2>1. CASE n = m
    BY <1>6, <2>1 DEF Syncs
  <2>2. CASE n # m
    <3>1. \A u \in Handler : ~Syncs(h[u], n)
      BY <1>2, <1>6, <2>2
    <3>2. roles[n] = RolesFor(member[n])
      BY <2>2, <3>1 DEF RolesInv, RolesMatchPlan, Syncs
    <3> QED
      BY <2>2, <3>2 DEF RolesFor
  <2> QED
    BY <2>1, <2>2
<1>7. RolesMatchPlan'
  BY <1>6 DEF RolesMatchPlan, Syncs
<1> QED
  BY <1>4, <1>5, <1>7 DEF RolesInv

(* The start of a sync.                                                              *)
LEMMA BeginSyncAlone ==
  ASSUME TypeInv, NEW t \in Handler, NEW m \in Member, BeginSync(t, m)
  PROVE  /\ m \notin mess' => \A u \in Handler \ {t} : ~Syncs(h[u], m)
         /\ \A n \in Member \ {m} : n \in mess' <=> n \in mess
BY DEF BeginSync, Syncing, Syncs

LEMMA ActivateRoles ==
  ASSUME TypeInv, RolesInv, NEW t \in Handler, Activate(t)
  PROVE  RolesInv'
<1> DEFINE m == h[t].who
<1>1. m \in Member /\ h[t] \in Local /\ roles[m] \in SUBSET Plan
  BY ActivateMove DEF TypeInv, TypeOK
<1>2. BeginSync(t, m) /\ UNCHANGED roles
  BY DEF Activate
<1>3. \A n \in Member \ {m} : member'[n] = member[n]
  BY DEF Activate, TypeInv, TypeOK
<1>4. RolesFor(member'[m]) = {h[t].plan}
  BY <1>1 DEF Activate, TypeInv, TypeOK, RolesFor
<1>5. SyncOf(h'[t], member'[m], roles'[m])
  BY <1>1, <1>2, <1>4, ActivateMove DEF SyncOf, Target
<1> HIDE DEF m
<1>6. h'[t].pc = "sync" /\ h'[t].who = m /\ h[t].pc # "sync" /\ h' = [h EXCEPT ![t] = h'[t]]
  BY ActivateMove DEF m
<1> QED
  BY <1>1, <1>2, <1>3, <1>5, <1>6, BeginSyncAlone, SyncMoves

LEMMA DeactivateRoles ==
  ASSUME TypeInv, RolesInv, NEW t \in Handler, Deactivate(t)
  PROVE  RolesInv'
<1> DEFINE m == h[t].who
<1>1. m \in Member /\ h[t] \in Local /\ roles[m] \in SUBSET Plan
  BY DeactivateMove DEF TypeInv, TypeOK
<1>2. BeginSync(t, m) /\ UNCHANGED roles
  BY DEF Deactivate
<1>3. \A n \in Member \ {m} : member'[n] = member[n]
  BY DEF Deactivate, TypeInv, TypeOK
<1>4. RolesFor(member'[m]) = {}
  BY <1>1 DEF Deactivate, TypeInv, TypeOK, RolesFor
<1>5. SyncOf(h'[t], member'[m], roles'[m])
  BY <1>1, <1>2, <1>4, DeactivateMove DEF SyncOf, Target
<1> HIDE DEF m
<1>6. h'[t].pc = "sync" /\ h'[t].who = m /\ h[t].pc # "sync" /\ h' = [h EXCEPT ![t] = h'[t]]
  BY DeactivateMove DEF m
<1> QED
  BY <1>1, <1>2, <1>3, <1>5, <1>6, BeginSyncAlone, SyncMoves

LEMMA SetPlanRoles ==
  ASSUME TypeInv, RolesInv, NEW t \in Handler, NEW m \in Member, NEW p \in Plan, SetPlan(t, m, p)
  PROVE  RolesInv'
<1>1. /\ h' = [h EXCEPT ![t] = h'[t]] /\ h[t].pc = "idle"
      /\ h'[t].pc = "sync" /\ h'[t].op = "set" /\ h'[t].who = m /\ h'[t].plan = p
      /\ h'[t].roles = Plan \ {p}
  BY SetPlanMove
<1>2. RolesFor(member'[m]) = {p} /\ \A n \in Member \ {m} : member'[n] = member[n]
  BY SetPlanMove
<1>3. BeginSync(t, m) /\ UNCHANGED roles /\ roles[m] \in SUBSET Plan
  BY DEF SetPlan, TypeInv, TypeOK
<1>4. SyncOf(h'[t], member'[m], roles'[m])
  BY <1>1, <1>2, <1>3 DEF SyncOf, Target
<1> QED
  BY <1>1, <1>2, <1>3, <1>4, BeginSyncAlone, SyncMoves

(* A sync that goes on was alone and right before.                                   *)
LEMMA SyncBefore ==
  ASSUME RolesInv, NEW t \in Handler, NEW m \in Member \ mess, Syncs(h[t], m)
  PROVE  /\ \A u \in Handler \ {t} : ~Syncs(h[u], m)
         /\ SyncOf(h[t], member[m], roles[m])
BY DEF RolesInv

LEMMA DropRoleRoles ==
  ASSUME TypeInv, RolesInv, NEW t \in Handler, NEW p \in Plan, NEW failed \in BOOLEAN, DropRole(t, p, failed)
  PROVE  RolesInv'
<1>1. PICK m \in Member : m = h[t].who
  BY DropRoleMove
<1>2. Syncs(h[t], m) /\ UNCHANGED member
  BY <1>1, DropRoleMove DEF Syncs, DropRole, tables
<1>3. /\ \A n \in Member \ {m} : roles'[n] = roles[n] /\ (n \in mess' <=> n \in mess)
      /\ m \notin mess' => m \notin mess /\ roles'[m] = roles[m] \ {p}
  BY <1>1 DEF DropRole, TypeInv, TypeOK
<1>4. m \notin mess' => \A u \in Handler \ {t} : ~Syncs(h[u], m)
  BY <1>2, <1>3, SyncBefore
<1>5. m \notin mess' => RolesFor(member[m]) = Target(h[t]) /\ roles[m] \subseteq h[t].roles \cup Target(h[t])
  BY <1>2, <1>3, SyncBefore DEF SyncOf
<1>6. \/ h'[t] = Idle /\ h[t].op = "off" /\ h[t].roles = {p}
      \/ /\ h'[t].pc = "sync" /\ h'[t].op = h[t].op /\ h'[t].who = h[t].who
         /\ h'[t].plan = h[t].plan /\ h'[t].roles = h[t].roles \ {p}
  BY DropRoleMove
<1>7. m \notin mess' /\ h'[t].pc = "sync" => SyncOf(h'[t], member'[m], roles'[m])
  <2>1. SUFFICES ASSUME m \notin mess', h'[t].pc = "sync"
                 PROVE  SyncOf(h'[t], member'[m], roles'[m])
    OBVIOUS
  <2>2. Target(h'[t]) = Target(h[t]) /\ h'[t].roles = h[t].roles \ {p}
    BY <1>6, <2>1 DEF Target, Idle
  <2> QED
    BY <1>2, <1>3, <1>5, <2>1, <2>2 DEF SyncOf
<1>8. m \notin mess' /\ h'[t].pc # "sync" => roles'[m] = RolesFor(member'[m])
  BY <1>2, <1>3, <1>5, <1>6 DEF Target
<1>9. h' = [h EXCEPT ![t] = h'[t]] /\ (h'[t].pc = "sync" => h'[t].who = m)
  BY <1>1, DropRoleMove DEF Idle
<1> QED
  BY <1>1, <1>2, <1>3, <1>4, <1>7, <1>8, <1>9, SyncMoves

LEMMA AddRoleRoles ==
  ASSUME TypeInv, RolesInv, NEW t \in Handler, NEW failed \in BOOLEAN, AddRole(t, failed)
  PROVE  RolesInv'
<1>1. PICK m \in Member : m = h[t].who
  BY AddRoleMove
<1>2. Syncs(h[t], m) /\ UNCHANGED member
  BY <1>1, AddRoleMove DEF Syncs, AddRole, tables
<1>3. /\ \A n \in Member \ {m} : roles'[n] = roles[n] /\ (n \in mess' <=> n \in mess)
      /\ m \notin mess' => m \notin mess /\ roles'[m] = roles[m] \cup {h[t].plan}
  BY <1>1 DEF AddRole, TypeInv, TypeOK
<1>4. m \notin mess' => \A u \in Handler \ {t} : ~Syncs(h[u], m)
  BY <1>2, <1>3, SyncBefore
<1>5. m \notin mess' => RolesFor(member[m]) = Target(h[t]) /\ roles[m] \subseteq h[t].roles \cup Target(h[t])
  BY <1>2, <1>3, SyncBefore DEF SyncOf
<1>6. m \notin mess' => roles'[m] = RolesFor(member'[m])
  BY <1>2, <1>3, <1>5, AddRoleMove DEF Target
<1>7. h' = [h EXCEPT ![t] = h'[t]] /\ h'[t].pc # "sync"
  BY AddRoleMove DEF Idle
<1> QED
  BY <1>1, <1>2, <1>3, <1>4, <1>6, <1>7, SyncMoves

(* Roles that are right tell the plan that is in the table.                          *)
LEMMA AlignedSame ==
  ASSUME NEW row \in Row
  PROVE  Aligned(row, PlanFromRoles(RolesFor(row))) = row
<1>1. CASE row.active = TRUE
  <2>1. PlanFromRoles(RolesFor(row)) = row.plan
    BY <1>1, PlanAssumption DEF RolesFor, PlanFromRoles, Row
  <2>2. [row EXCEPT !.plan = row.plan, !.active = TRUE] = row
    <3>1. [row EXCEPT !.plan = row.plan] = row
      BY DEF Row
    <3>2. [row EXCEPT !.active = TRUE] = row
      BY <1>1 DEF Row
    <3>3. [row EXCEPT !.plan = row.plan, !.active = TRUE] = [[row EXCEPT !.plan = row.plan] EXCEPT !.active = TRUE]
      OBVIOUS
    <3> QED
      BY <3>1, <3>2, <3>3
  <2>3. \/ Aligned(row, row.plan) = row
        \/ Aligned(row, row.plan) = [row EXCEPT !.plan = row.plan, !.active = TRUE]
    BY DEF Aligned
  <2> QED
    BY <2>1, <2>2, <2>3
<1>2. CASE row.active = FALSE
  BY <1>2 DEF RolesFor, PlanFromRoles, Aligned
<1> QED
  BY <1>1, <1>2 DEF Row

LEMMA AlignRoles ==
  ASSUME TypeInv, RolesInv, NEW t \in Handler, Align(t)
  PROVE  RolesInv'
<1> DEFINE m == h[t].who
           row == Aligned(member[m], PlanFromRoles(h[t].roles))
<1>1. m \in Member /\ member[m] \in Row /\ UNCHANGED roles
  BY AlignMove DEF Align, TypeInv, TypeOK
<1>2. member' = [member EXCEPT ![m] = row]
  BY AlignMove
<1>3. mess' = IF row # member[m] /\ (Syncing(m, t) \/ roles[m] # h[t].roles) THEN mess \cup {m} ELSE mess
  BY DEF Align
<1>4. h' = [h EXCEPT ![t] = h'[t]] /\ h[t].pc # "sync" /\ h'[t].pc # "sync"
  BY AlignMove
<1>5. CASE row = member[m]
  <2>1. UNCHANGED <<member, roles, mess>>
    BY <1>1, <1>2, <1>3, <1>5 DEF TypeInv, TypeOK
  <2> QED
    BY <1>4, <2>1, NoSyncRoles
<1>6. CASE row # member[m]
  <2>1. m \in mess'
    <3>1. SUFFICES ASSUME m \notin mess, ~Syncing(m, t), roles[m] = h[t].roles
                   PROVE  FALSE
      BY <1>3, <1>6
    <3>2. \A u \in Handler : ~Syncs(h[u], m)
      BY <1>4, <3>1 DEF Syncing, Syncs
    <3>3. roles[m] = RolesFor(member[m])
      BY <1>1, <3>1, <3>2 DEF RolesInv, RolesMatchPlan, Syncs
    <3> QED
      BY <1>1, <1>6, <3>1, <3>3, AlignedSame
  <2>2. \A n \in Member \ {m} : member'[n] = member[n] /\ (n \in mess' <=> n \in mess)
    BY <1>2, <1>3 DEF TypeInv, TypeOK
  <2> HIDE DEF m
  <2> QED
    BY <1>1, <1>4, <2>1, <2>2, SyncMoves
<1> QED
  BY <1>5, <1>6

LEMMA OtherRoles ==
  ASSUME TypeInv, RolesInv, Whop \/ Memory \/ Restart \/ UNCHANGED vars
  PROVE  RolesInv'
<1>1. CASE Whop \/ Memory \/ UNCHANGED vars
  <2>1. UNCHANGED <<member, roles, mess, h>>
    BY <1>1 DEF Whop, Pay, End, Resend, Memory, ClickCheckout, AcceptRules, Forget, ToggleFilter,
                vars, tables, hist
  <2> QED
    BY <2>1 DEF RolesInv, RolesMatchPlan
<1>2. CASE Restart
  <2>1. /\ UNCHANGED <<member, roles>> /\ h' = [t \in Handler |-> Idle]
        /\ mess' = mess \cup {m \in Member : \E t \in Handler : h[t].who = m /\ h[t].pc = "sync"}
    BY <1>2 DEF Restart, tables
  <2>2. \A t \in Handler, m \in Member : ~Syncs(h'[t], m)
    BY <2>1 DEF Syncs, Idle
  <2>3. ASSUME NEW m \in Member \ mess' PROVE roles'[m] = RolesFor(member'[m])
    BY <2>1, <2>3 DEF RolesInv, RolesMatchPlan
  <2> QED
    BY <2>2, <2>3 DEF RolesInv, RolesMatchPlan
<1> QED
  BY <1>1, <1>2

LEMMA RolesStep ==
  ASSUME TypeInv, RolesInv, [Next]_vars
  PROVE  RolesInv'
<1>1. CASE Whop \/ Memory \/ Restart \/ UNCHANGED vars
  BY <1>1, OtherRoles
<1>2. ASSUME NEW t \in Handler, Quiet(t) PROVE RolesInv'
  BY <1>2, QuietFrame, QuietMove, NoSyncRoles
<1>3. ASSUME NEW t \in Handler, NEW m \in Member, AskFilter(t, m) PROVE RolesInv'
  <2>1. UNCHANGED <<member, roles, mess>>
    BY <1>3 DEF AskFilter, tables, hist
  <2> QED
    BY <1>3, <2>1, AskFilterMove, NoSyncRoles
<1>4. ASSUME NEW t \in Handler,
             Activation(t) \/ Deactivation(t) \/ RoleSync(t) \/ Interaction(t) \/ TransactionFails(t)
      PROVE  RolesInv'
  BY <1>2, <1>3, <1>4, HandlerActions, ActivateRoles, DeactivateRoles, SetPlanRoles, DropRoleRoles,
     AddRoleRoles, AlignRoles
<1> QED
  BY <1>1, <1>4 DEF Next

(* A member's roles on Discord are those of the plan in the table whenever the last  *)
(* role sync ran alone and without error.                                            *)
THEOREM RolesMatchPlanAlways == Spec => []RolesMatchPlan
<1>1. Init => RolesInv
  BY DEF Init, RolesInv, RolesMatchPlan, Syncs, Idle, RolesFor, NoRow
<1>2. TypeInv /\ RolesInv /\ [Next]_vars => RolesInv'
  BY RolesStep
<1>3. RolesInv => RolesMatchPlan
  BY DEF RolesInv
<1> QED
  BY <1>1, <1>2, <1>3, TypeAlways, PTL DEF Spec

=============================================================================
