------------------------------- MODULE Tickets -------------------------------
(***************************************************************************)
(* Tickets of recruitment and of support.  A member opens a channel of his *)
(* own with a button; he or the staff closes it: the messages are read     *)
(* page by page, sent to him as a transcript, and the channel is deleted.  *)
(* Every button is handled in a thread of its own, the only state is on    *)
(* Discord, and members write to the channel all the while.  One action is *)
(* one Discord request.                                                    *)
(***************************************************************************)
EXTENDS Integers, FiniteSets, Functions

CONSTANTS
  Opener,       \* members
  Staff,        \* members with a staff role, or in DISCORD_FILTER_ADMIN_IDS
  Kind,         \* "recrutement" and "aide"
  Closer,       \* threads of asyncio.to_thread
  Page,         \* messages that a request returns at most: 100
  MaxPages,     \* requests of one transcript: 20
  MaxChannels,  \* bound: ticket channels ever made
  MaxMessages,  \* bound: messages of a channel
  MaxTrouble    \* bound: requests that fail

ASSUME PageAssumption ==
  /\ Page \in Nat \ {0} /\ MaxPages \in Nat \ {0}
  /\ MaxChannels \in Nat /\ MaxMessages \in Nat /\ MaxTrouble \in Nat

VARIABLES
  channel,   \* the ticket channels there are, by id
  opened,    \* ids given so far
  desk,      \* the threads
  trouble,   \* failed requests so far
  raced      \* history: <<member, kind>> of creations that ran side by side

tvars == <<channel, opened, desk, trouble, raced>>

\* The opener and the kind are in the topic, the messages are numbered from 1.
Ticket == [owner : Opener, kind : Kind, inCategory : BOOLEAN, button : BOOLEAN,
           messages : 0..MaxMessages]

NoDesk == [pc |-> "idle", who |-> "", kind |-> "", id |-> 0, first |-> 0, before |-> 0,
           read |-> {}, pages |-> 0]

TicketsInit ==
  /\ channel = <<>> /\ opened = 0
  /\ desk = [t \in Closer |-> NoDesk]
  /\ trouble = 0 /\ raced = {}

Ended(t) == desk' = [desk EXCEPT ![t] = NoDesk]
Trouble == trouble < MaxTrouble /\ trouble' = trouble + 1

\* Any request can fail: the handler tells the member and ends.
RequestFails(t) ==
  /\ desk[t].pc \in {"list", "create", "post", "get", "page", "delete"}
  /\ Trouble /\ Ended(t)
  /\ UNCHANGED <<channel, opened, raced>>

-----------------------------------------------------------------------------
(* handle_recruit_open, handle_support_open *)

PressOpen(t) ==
  /\ desk[t].pc = "idle"
  /\ \E m \in Opener, k \in Kind :
       desk' = [desk EXCEPT ![t] = [NoDesk EXCEPT !.pc = "list", !.who = m, !.kind = k]]
  /\ UNCHANGED <<channel, opened, trouble, raced>>

\* Mutation: only tickets inside the category are found.
FindInCategory(m, k) ==
  {c \in DOMAIN channel : channel[c].owner = m /\ channel[c].kind = k /\ channel[c].inCategory}

\* find_open_ticket_channel, find_open_support_ticket: by topic, wherever the
\* channel is; the category only says which one is shown.
FindOpen(m, k) == {c \in DOMAIN channel : channel[c].owner = m /\ channel[c].kind = k}

ListTickets(t) ==
  /\ desk[t].pc = "list"
  /\ IF FindOpen(desk[t].who, desk[t].kind) # {} THEN Ended(t)
     ELSE desk' = [desk EXCEPT ![t].pc = "create"]
  /\ UNCHANGED <<channel, opened, trouble, raced>>

\* create_ticket_channel: in the category, or at the root when that is forbidden.
CreateTicket(t) ==
  LET s == desk[t] IN
  /\ s.pc = "create" /\ opened < MaxChannels
  /\ opened' = opened + 1
  /\ \E inside \in BOOLEAN :
       /\ IF inside THEN UNCHANGED trouble ELSE Trouble
       /\ channel' = [c \in DOMAIN channel \cup {opened'} |->
            IF c # opened' THEN channel[c]
            ELSE [owner |-> s.who, kind |-> s.kind, inCategory |-> inside, button |-> FALSE,
                  messages |-> 0]]
  /\ desk' = [desk EXCEPT ![t].pc = "post", ![t].id = opened']
  /\ raced' = IF \E o \in Closer \ {t} : desk[o].pc = "create" /\ desk[o].who = s.who /\ desk[o].kind = s.kind
              THEN raced \cup {<<s.who, s.kind>>} ELSE raced

\* The first message has the button that closes the ticket.  A channel that
\* was deleted by hand is not modelled.
PostButton(t) ==
  LET c == desk[t].id IN
  /\ desk[t].pc = "post" /\ c \in DOMAIN channel /\ channel[c].messages < MaxMessages
  /\ channel' = [channel EXCEPT ![c].button = TRUE, ![c].messages = @ + 1]
  /\ Ended(t)
  /\ UNCHANGED <<opened, trouble, raced>>

\* The opener and the staff write.
WriteMessage(c) ==
  /\ channel[c].messages < MaxMessages
  /\ channel' = [channel EXCEPT ![c].messages = @ + 1]
  /\ UNCHANGED <<opened, desk, trouble, raced>>

-----------------------------------------------------------------------------
(* handle_recruit_close, handle_support_close, _finalize_ticket_close *)

PressClose(t) ==
  /\ desk[t].pc = "idle"
  /\ \E c \in DOMAIN channel, m \in Opener :
       /\ channel[c].button
       /\ desk' = [desk EXCEPT ![t] = [NoDesk EXCEPT !.pc = "get", !.who = m, !.id = c]]
  /\ UNCHANGED <<channel, opened, trouble, raced>>

\* A channel that another thread has deleted meanwhile ends the handler.
GetTicket(t) ==
  LET s == desk[t] IN
  /\ s.pc = "get"
  /\ IF s.id \in DOMAIN channel /\ (channel[s.id].owner = s.who \/ s.who \in Staff)
     THEN desk' = [desk EXCEPT ![t].pc = "page"]
     ELSE Ended(t)
  /\ UNCHANGED <<channel, opened, trouble, raced>>

\* list_channel_messages: the newest of those before a message, or of all.
Batch(n, before) ==
  LET top == IF before = 0 THEN n ELSE before - 1 IN
  {i \in 1..top : i > top - Page}

\* Mutation: a full page is taken for the last one.
LastPageIfFull(batch, pages) == Cardinality(batch) <= Page \/ pages = MaxPages

LastPage(batch, pages) == Cardinality(batch) < Page \/ pages = MaxPages

Oldest(batch) == CHOOSE i \in batch : \A j \in batch : i <= j

\* The desk s once it has a page of a channel with n messages.
WithPage(s, n, batch) ==
  [s EXCEPT !.first = IF s.pages = 0 THEN n ELSE s.first,
            !.before = IF batch = {} THEN s.before ELSE Oldest(batch),
            !.read = s.read \cup batch, !.pages = s.pages + 1,
            !.pc = IF LastPage(batch, s.pages + 1) THEN "dm" ELSE "page"]

ReadPage(t) ==
  LET s == desk[t] IN
  /\ s.pc = "page"
  /\ IF s.id \notin DOMAIN channel THEN Ended(t)
     ELSE LET n == channel[s.id].messages IN
          desk' = [desk EXCEPT ![t] = WithPage(s, n, Batch(n, s.before))]
  /\ UNCHANGED <<channel, opened, trouble, raced>>

\* The transcript goes to the opener; when that fails it is only logged, and
\* the answer says that it was sent all the same.
SendTranscript(t) ==
  /\ desk[t].pc = "dm"
  /\ desk' = [desk EXCEPT ![t].pc = "delete"]
  /\ UNCHANGED trouble \/ Trouble
  /\ UNCHANGED <<channel, opened, raced>>

\* delete_channel: one that is gone already is fine.
DeleteTicket(t) ==
  /\ desk[t].pc = "delete"
  /\ channel' = Restrict(channel, DOMAIN channel \ {desk[t].id})
  /\ Ended(t)
  /\ UNCHANGED <<opened, trouble, raced>>

DeskStep(t) ==
  \/ PressOpen(t) \/ ListTickets(t) \/ CreateTicket(t) \/ PostButton(t)
  \/ PressClose(t) \/ GetTicket(t) \/ ReadPage(t) \/ SendTranscript(t) \/ DeleteTicket(t)
  \/ RequestFails(t)

TicketsNext == (\E t \in Closer : DeskStep(t)) \/ (\E c \in DOMAIN channel : WriteMessage(c))

TicketsSpec == TicketsInit /\ [][TicketsNext]_tvars

-----------------------------------------------------------------------------

TicketsTypeOK ==
  /\ DOMAIN channel \subseteq 1..opened /\ \A c \in DOMAIN channel : channel[c] \in Ticket
  /\ opened \in 0..MaxChannels /\ trouble \in 0..MaxTrouble /\ raced \subseteq Opener \X Kind

\* A member has one open ticket of a kind at most, in the category or at the
\* root, with its button or without it, unless two of his creations ran side
\* by side after both had found none.
OneTicketUnlessRaced ==
  \A m \in Opener, k \in Kind :
    Cardinality({c \in DOMAIN channel : channel[c].owner = m /\ channel[c].kind = k}) <= 1
      \/ <<m, k>> \in raced

\* When the transcript is sent it has every message that was there when its
\* first page was read, or the newest MaxPages * Page of them, although new
\* messages come in between the pages.
TranscriptComplete ==
  \A t \in Closer :
    desk[t].pc = "dm" =>
      {i \in 1..desk[t].first : i > desk[t].first - MaxPages * Page} \subseteq desk[t].read

=============================================================================
