------------------------------ MODULE RulesGate ------------------------------
(***************************************************************************)
(* Who sees which channel.  A command of the operator closes the channels  *)
(* to those who have not accepted the rules and to those without a         *)
(* subscription, two others copy what Pro sees to Starter and to Pro+, and *)
(* members who accept the rules receive the role Membre.  All of them are  *)
(* processes of their own whose only state is on Discord: the permission   *)
(* overwrites of the channels, which the first command reads and writes    *)
(* back as a whole.  One action is one Discord request.                    *)
(***************************************************************************)
EXTENDS Integers, FiniteSets

CONSTANTS
  Category,         \* category channels
  Text,             \* text and voice channels
  Parent,           \* [Text -> category, or NoParent]
  NoParent,         \* the channel is at the root
  Place,            \* [Channel -> Nat]: place in the list that Discord gives
  Public,           \* resolve_public_channel_ids: bienvenue, reglement, presentation
  PreviewCategory,  \* resolve_preview_category_ids
  PreviewListed,    \* preview channels that are named in the settings
  PrivateTools,     \* discord_category_private_tools
  StartOverwrites,  \* overwrites there may be before any command
  Accepting,        \* members who accept the rules
  Edited,           \* bound: channels whose overwrite for Pro an admin changes
  MaxMishaps        \* bound: failed requests, edits by an admin and commands run again

Channel == Category \cup Text
Copy == {"membre", "membre2"}  \* roles named Membre: two that race make one each
GuildRole == Copy \cup {"everyone", "starter", "pro", "proplus", "bot"}
View == {"absent", "neutral", "allow", "deny"}  \* what an overwrite says of VIEW_CHANNEL
Command == {"gate", "starter", "proplus"}

ASSUME GuildAssumption ==
  /\ Category \cap Text = {} /\ Parent \in [Text -> Category \cup {NoParent}] /\ NoParent \notin Category
  /\ Public \subseteq Text /\ PreviewCategory \subseteq Category /\ PreviewListed \subseteq Text
  /\ PrivateTools \in Category \ PreviewCategory /\ MaxMishaps \in Nat
  /\ Place \in [Channel -> Nat] /\ Edited \subseteq Channel
  /\ \A start \in StartOverwrites : start \in [Channel -> [GuildRole -> View]]

VARIABLES
  ow,        \* permission overwrites: [Channel -> [GuildRole -> View]]
  copies,    \* the roles named Membre that exist
  job,       \* the commands that run
  accept,    \* members: where their click on "accept" is, and for which role
  has,       \* copies of Membre that a member has
  told,      \* members who were told that they have access
  gateRole,  \* history: the copy that the last complete gate command gave access
  clean,     \* history: commands whose last run was complete and is not undone
  forPro,   \* history: channels that an admin opened for Pro, not lost since
  mishaps    \* failed requests, edits and repetitions so far

gvars == <<ow, copies, job, accept, has, told, gateRole, clean, forPro, mishaps>>
people == <<accept, has, told>>
history == <<gateRole, clean, forPro>>

Blank == [r \in GuildRole |-> "absent"]
NoJob == [pc |-> "idle", role |-> "", bot |-> TRUE, todo |-> {}, at |-> "", seen |-> Blank, ok |-> TRUE]
NoClick == [pc |-> "idle", role |-> ""]

Children(cat) == {c \in Text : Parent[c] = cat}

GateInit ==
  /\ ow \in StartOverwrites
  /\ copies \in {{}, {"membre"}}
  /\ job = [j \in Command |-> NoJob]
  /\ accept = [m \in Accepting |-> NoClick] /\ has = [m \in Accepting |-> {}]
  /\ told = {} /\ gateRole = "" /\ clean = {} /\ mishaps = 0
  /\ forPro = {c \in Channel : ow[c]["pro"] = "allow"}

Mishap == mishaps < MaxMishaps /\ mishaps' = mishaps + 1
OrMishap(fine) == IF fine THEN UNCHANGED mishaps ELSE Mishap

\* The next channel of a loop over the list.
IsNext(c, todo) == c \in todo /\ \A d \in todo : Place[c] <= Place[d]

\* A member with these roles sees a channel: a role that is allowed wins over
\* roles that are denied, and these over @everyone.
Sees(held, c) ==
  \/ \E r \in held : ow[c][r] = "allow"
  \/ (\A r \in held : ow[c][r] # "deny") /\ ow[c]["everyone"] # "deny"

-----------------------------------------------------------------------------
(* ensure_membre_role: a role of that name, or a new one *)

Found == IF copies = {} THEN {""} ELSE copies
CreateRole(r) == r = (IF copies = {} THEN "membre" ELSE "membre2") /\ copies' = copies \cup {r}

-----------------------------------------------------------------------------
(* cmd_setup_reglement_gates, apply_reglement_gates *)

\* The command asks for the preview without the list of the channels: it is
\* the categories themselves and the channels that the settings name.
Preview == PreviewCategory \cup PreviewListed \cup Public

\* Categories that hold a public channel are left alone.
GatedChannels == Text \cup {c \in Category : Children(c) \cap Public = {}}

\* Mutation: the overwrites of other roles are not sent back.
GatedAlone(c, seen, s) ==
  [Blank EXCEPT !["everyone"] = IF c \in Public THEN "allow" ELSE "deny",
                ![s.role] = IF c \in Preview THEN "allow" ELSE "deny",
                !["bot"] = IF s.bot THEN "allow" ELSE seen["bot"]]

\* build_gated_overwrites, merge_view_channel_overwrite
GatedView(c, seen, s) ==
  [seen EXCEPT !["everyone"] = IF c \in Public THEN "allow" ELSE "deny",
               ![s.role] = IF c \in Preview THEN "allow" ELSE "deny",
               !["bot"] = IF s.bot THEN "allow" ELSE @]

StartGate ==
  /\ job["gate"].pc = "idle" /\ OrMishap("gate" \notin clean)
  /\ \E r \in Found :
       job' = [job EXCEPT !["gate"] = [@ EXCEPT !.pc = IF r = "" THEN "create" ELSE "begin", !.role = r]]
  /\ UNCHANGED <<ow, copies, people, history>>

CreateRoleForGate ==
  /\ job["gate"].pc = "create"
  /\ \E r \in Copy : CreateRole(r) /\ job' = [job EXCEPT !["gate"] = [@ EXCEPT !.pc = "begin", !.role = r]]
  /\ UNCHANGED <<ow, people, history, mishaps>>

\* find_bot_role_ids and the list of channels; without an answer the bot's own
\* roles are not protected.
BeginGate ==
  /\ job["gate"].pc = "begin"
  /\ \E bot \in BOOLEAN :
       /\ OrMishap(bot)
       /\ job' = [job EXCEPT !["gate"] = [@ EXCEPT !.pc = "read", !.bot = bot, !.todo = GatedChannels, !.ok = bot]]
  /\ UNCHANGED <<ow, copies, people, history>>

\* Categories come first.  A channel that may not be read counts as empty, one
\* that cannot be read otherwise is skipped.
ReadChannel(c) ==
  LET s == job["gate"] IN
  /\ s.pc = "read" /\ IsNext(c, IF s.todo \cap Category = {} THEN s.todo ELSE s.todo \cap Category)
  /\ \/ job' = [job EXCEPT !["gate"] = [s EXCEPT !.pc = "write", !.at = c, !.seen = ow[c]]] /\ UNCHANGED mishaps
     \/ job' = [job EXCEPT !["gate"] = [s EXCEPT !.pc = "write", !.at = c, !.seen = Blank, !.ok = FALSE]] /\ Mishap
     \/ job' = [job EXCEPT !["gate"] = [s EXCEPT !.todo = @ \ {c}, !.ok = FALSE]] /\ Mishap
  /\ UNCHANGED <<ow, copies, people, history>>

\* Something else came in between, so that the run of the command is not clean.
Spoilt(j) == IF job[j].pc = "idle" THEN job[j] ELSE [job[j] EXCEPT !.ok = FALSE]

\* All overwrites of the channel are replaced: what changed since the read, or
\* could not be read, is lost, and with it the result of the other commands.
WriteChannel ==
  LET s == job["gate"]
      c == s.at
      lost == s.seen # ow[c]
      next == [s EXCEPT !.pc = "read", !.todo = @ \ {c}, !.at = "", !.seen = Blank] IN
  /\ s.pc = "write"
  /\ \/ /\ ow' = [ow EXCEPT ![c] = GatedView(c, s.seen, s)]
        /\ job' = [j \in Command |-> IF j = "gate" THEN next
                                     ELSE IF lost THEN Spoilt(j) ELSE job[j]]
        /\ clean' = IF lost THEN {} ELSE clean
        /\ forPro' = IF lost THEN forPro \ {c} ELSE forPro
        /\ UNCHANGED mishaps
     \/ /\ Mishap /\ job' = [job EXCEPT !["gate"] = [next EXCEPT !.ok = FALSE]]
        /\ UNCHANGED <<ow, clean, forPro>>
  /\ UNCHANGED <<copies, people, gateRole>>

\* A command ends: it is clean when nothing went wrong.
EndJob(j) == /\ job' = [job EXCEPT ![j] = NoJob]
             /\ clean' = IF job[j].ok THEN clean \cup {j} ELSE clean \ {j}

EndGate ==
  /\ job["gate"].pc = "read" /\ job["gate"].todo = {}
  /\ EndJob("gate") /\ gateRole' = job["gate"].role
  /\ UNCHANGED <<ow, copies, people, forPro, mishaps>>

-----------------------------------------------------------------------------
(* sync_starter_perms_from_pro, sync_proplus_perms_from_pro *)

\* channel_ids_in_category: Starter gets nothing of the private tools.
Excluded(j) == IF j = "starter" THEN {PrivateTools} \cup Children(PrivateTools) ELSE {}

\* _normalize_overwrite_bits: what Pro is denied is not passed on.
Normalized(v) == IF v = "allow" THEN "allow" ELSE "neutral"

\* The overwrites to put: <<channel, view>>.
CopiesOf(j) ==
  {<<c, Normalized(ow[c]["pro"])>> : c \in {d \in Channel \ Excluded(j) : ow[d]["pro"] # "absent"}}
DenialsOf(j) == Excluded(j) \X {"deny"}
Missing(j, puts) == {p \in puts : ow[p[1]][j] # p[2]}

\* copy_role_overwrites, from one list of the channels: those with an
\* overwrite of Pro that the other role does not have.
StartSync(j) ==
  /\ job[j].pc = "idle" /\ OrMishap(j \notin clean)
  /\ job' = [job EXCEPT ![j] = [@ EXCEPT !.pc = "copy", !.todo = Missing(j, CopiesOf(j))]]
  /\ UNCHANGED <<ow, copies, people, history>>

\* Each request is for one role of one channel; a failure is only counted.
PutView(j) ==
  /\ job[j].pc \in {"copy", "deny"}
  /\ \E put \in job[j].todo :
       /\ IsNext(put[1], {p[1] : p \in job[j].todo})
       /\ \/ ow' = [ow EXCEPT ![put[1]][j] = put[2]] /\ job' = [job EXCEPT ![j].todo = @ \ {put}] /\ UNCHANGED mishaps
          \/ Mishap /\ job' = [job EXCEPT ![j] = [job[j] EXCEPT !.todo = @ \ {put}, !.ok = FALSE]] /\ UNCHANGED ow
  /\ UNCHANGED <<copies, people, history>>

\* deny_role_view_on_channels, from a new list.
StartDeny(j) ==
  /\ job[j].pc = "copy" /\ job[j].todo = {}
  /\ job' = [job EXCEPT ![j] = [@ EXCEPT !.pc = "deny", !.todo = Missing(j, DenialsOf(j))]]
  /\ UNCHANGED <<ow, copies, people, history, mishaps>>

EndSync(j) ==
  /\ job[j].pc = "deny" /\ job[j].todo = {} /\ EndJob(j)
  /\ UNCHANGED <<ow, copies, people, gateRole, forPro, mishaps>>

\* An admin opens a channel for Pro, or takes it back.
AdminEdit(c, v) ==
  /\ Mishap /\ ow[c]["pro"] # v
  /\ ow' = [ow EXCEPT ![c]["pro"] = v]
  /\ forPro' = IF v = "allow" THEN forPro \cup {c} ELSE forPro \ {c}
  /\ clean' = clean \cap {"gate"}
  /\ job' = [j \in Command |-> IF j = "gate" THEN job[j] ELSE Spoilt(j)]
  /\ UNCHANGED <<copies, people, gateRole>>

-----------------------------------------------------------------------------
(* handle_reglement_accept *)

\* A member who has the role already is only told so.
ClickAccept(m) ==
  /\ accept[m].pc = "idle"
  /\ \E r \in Found :
       IF r \in has[m] THEN told' = told \cup {m} /\ UNCHANGED accept
       ELSE accept' = [accept EXCEPT ![m] = [pc |-> IF r = "" THEN "create" ELSE "add", role |-> r]] /\ UNCHANGED told
  /\ UNCHANGED <<ow, copies, job, has, history, mishaps>>

CreateRoleForMember(m) ==
  /\ accept[m].pc = "create"
  /\ \E r \in Copy : CreateRole(r) /\ accept' = [accept EXCEPT ![m] = [pc |-> "add", role |-> r]]
  /\ UNCHANGED <<ow, job, has, told, history, mishaps>>

\* Mutation: the member is welcomed although the role was refused.
WelcomeAnyway(m) ==
  /\ accept[m].pc = "add"
  /\ \/ has' = [has EXCEPT ![m] = @ \cup {accept[m].role}] /\ UNCHANGED mishaps
     \/ Mishap /\ UNCHANGED has
  /\ told' = told \cup {m} /\ accept' = [accept EXCEPT ![m] = NoClick]
  /\ UNCHANGED <<ow, copies, job, history>>

AddMemberRole(m) ==
  /\ accept[m].pc = "add"
  /\ \/ has' = [has EXCEPT ![m] = @ \cup {accept[m].role}] /\ told' = told \cup {m} /\ UNCHANGED mishaps
     \/ Mishap /\ UNCHANGED <<has, told>>
  /\ accept' = [accept EXCEPT ![m] = NoClick]
  /\ UNCHANGED <<ow, copies, job, history>>

-----------------------------------------------------------------------------

GateCommand == StartGate \/ CreateRoleForGate \/ BeginGate \/ (\E c \in Channel : ReadChannel(c)) \/ WriteChannel \/ EndGate

SyncCommand(j) == StartSync(j) \/ PutView(j) \/ StartDeny(j) \/ EndSync(j)

GateNext ==
  \/ GateCommand
  \/ \E j \in {"starter", "proplus"} : SyncCommand(j)
  \/ \E c \in Edited, v \in {"allow", "absent"} : AdminEdit(c, v)
  \/ \E m \in Accepting : ClickAccept(m) \/ CreateRoleForMember(m) \/ AddMemberRole(m)

GateSpec == GateInit /\ [][GateNext]_gvars

-----------------------------------------------------------------------------

GateTypeOK ==
  /\ ow \in [Channel -> [GuildRole -> View]] /\ copies \subseteq Copy
  /\ has \in [Accepting -> SUBSET Copy] /\ told \subseteq Accepting
  /\ clean \subseteq Command /\ forPro \subseteq Channel /\ mishaps \in 0..MaxMishaps

\* After a complete run of each of the three commands, in any order and side
\* by side, the channels are open as planned: to Membre the public ones and
\* the preview and no other; to Pro what an admin opened for it; to Starter
\* the same outside the private tools, and nothing more than to Membre inside;
\* to Pro+ all that Pro sees; and to the bot everything.
AccessAsPlanned ==
  clean = Command =>
    \A c \in Text :
      /\ Sees({gateRole}, c) <=> c \in Preview
      /\ c \in forPro => Sees({gateRole, "pro"}, c)
      /\ Sees({gateRole, "pro"}, c) => Sees({gateRole, "proplus"}, c)
      /\ IF c \in Excluded("starter") THEN Sees({gateRole, "starter"}, c) => Sees({gateRole}, c)
         ELSE Sees({gateRole, "pro"}, c) => Sees({gateRole, "starter"}, c)
      /\ Sees({"bot"}, c)

\* A member who was told that the rules are accepted sees the preview once the
\* gates are closed, unless two roles of the same name were made side by side.
AcceptedCanEnter ==
  "gate" \in clean /\ Cardinality(copies) <= 1 =>
    \A m \in told, c \in Text \cap Preview : Sees(has[m], c)

\* "Membre (règlement OK, pas encore Whop) : Accueil + Rejoindre + Support +
\* Avant-goût" (reglement_gates.py:5): after a complete run of the command the
\* channels in these categories are open to Membre.
PreviewIsOpen ==
  "gate" \in clean => \A c \in Text : Parent[c] \in PreviewCategory => Sees({gateRole}, c)

=============================================================================
