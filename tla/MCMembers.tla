------------------------------ MODULE MCMembers ------------------------------
(***************************************************************************)
(* Small instances of what serves the members: subscriptions, filters with *)
(* their dashboard and their searches, tickets and the access to channels. *)
(* They share no state in the models, so one run checks them side by side: *)
(* a behaviour is one of a single part, and the variables of the others    *)
(* are parked in an initial state.                                         *)
(***************************************************************************)
EXTENDS MCWhopSubscriptions, MemberFilters, Tickets, MCRulesGate, FilterSearch

VARIABLE part  \* the part a behaviour is about

MCLimits == [p \in {"starter", "premium"} |-> IF p = "starter" THEN 0 ELSE 1]

-----------------------------------------------------------------------------
(* Two articles, one of which the catalogue gives no date of; a wish that two *)
(* members share, one that asks for another price, and one for what nobody    *)
(* sells.                                                                     *)

MCOf ==
  [a \in Item |-> [brand |-> "nike", words |-> {"tn", "basket"}, kind |-> "shoes",
                   price |-> IF a = "pair" THEN 50 ELSE 80, dated |-> a = "pair"]]

MCWish(category, low, high) ==
  [brand |-> "nike", words |-> {"tn"}, category |-> category, low |-> low, high |-> high]

MCWants ==
  <<MCWish("chaussure", Nothing, 70), MCWish("chaussure", Nothing, 70),
    MCWish("basket", 60, Nothing), MCWish("basket", 90, Nothing)>>

\* With three targets the batches do not divide the round.
MCBatchSize == [n \in 1 .. MaxTargets |-> IF n < 2 THEN 1 ELSE 2]

MCAliases == [c \in {"chaussure", "basket"} |-> {"basket"}]

MCFeed ==
  {[label |-> "nike", ids |-> {"nike"}, text |-> {}, kind |-> "shoes", low |-> Nothing,
    high |-> Nothing, own |-> FALSE]}

\* Bounds: one thing goes wrong or changes, and from then on one worker at a time
\* is at work.
OneSlip ==
  /\ slips' + toggles' <= 1
  /\ slips' + toggles' = 1
        => Cardinality({s \in Scraper : batch'[s] # <<>> \/ work'[s] # NoWork}) <= 1

-----------------------------------------------------------------------------

GateParked ==
  /\ ow = <<>> /\ copies = {} /\ job = <<>> /\ accept = <<>> /\ has = <<>> /\ told = {}
  /\ gateRole = "" /\ clean = {} /\ forPro = {} /\ mishaps = 0

ServesInit ==
  /\ part \in {"whop", "filters", "tickets", "gate", "searches"}
  /\ Init /\ TicketsInit /\ SearchInit
  /\ MembersInit /\ (part # "filters" => plan = [name |-> "starter", active |-> FALSE])
  /\ IF part = "gate" THEN GateInit /\ copies = {} ELSE GateParked

\* A bound: once the budget is used up, one handler at a time.
OneByOne ==
  calls' + faults' + restarts' = 2 => Cardinality({t \in Handler : h'[t].pc # "idle"}) <= 1

\* Bounds: beside the gate, one of those that touch different roles at a time; and no
\* two commands at a time once there was a failure, an edit or a repetition.
FewAtOnce ==
  LET commands == {j \in Command : job'[j].pc # "idle"}
      members == {m \in Accepting : accept'[m].pc # "idle"}
  IN  /\ Cardinality(commands \ {"gate"}) + Cardinality(members) <= 1
      /\ mishaps' > 0 => Cardinality(commands) <= 1

\* Bound: one channel at a time has more than a page of messages.
OneLongTalk ==
  Cardinality({c \in DOMAIN channel' : channel'[c].messages > Page}) <= 1

ServesNext ==
  /\ UNCHANGED part
  /\ \/ part = "whop" /\ Next /\ OneByOne /\ UNCHANGED <<fvars, tvars, gvars, qvars>>
     \/ part = "filters" /\ MembersNext /\ UNCHANGED <<vars, tvars, gvars, qvars>>
     \/ part = "tickets" /\ TicketsNext /\ OneLongTalk /\ UNCHANGED <<vars, fvars, gvars, qvars>>
     \/ part = "gate" /\ GateNext /\ FewAtOnce /\ UNCHANGED <<vars, fvars, tvars, qvars>>
     \/ part = "searches" /\ SearchNext /\ OneSlip /\ UNCHANGED <<vars, fvars, tvars, gvars>>

ServesSpec == ServesInit /\ [][ServesNext]_<<part, vars, fvars, tvars, gvars, qvars>>

=============================================================================
