---------------------------- MODULE MembersProofs ----------------------------
(***************************************************************************)
(* What is proved of what serves the members, for any number of members,   *)
(* threads, channels, filters and articles: of the tickets, types, one     *)
(* open ticket of a kind per member unless two creations raced, and a      *)
(* transcript that is complete; of the access to the channels, types, and  *)
(* channels that are open as planned; of the filters' searches, that a     *)
(* round tells of everything that was within its reach.                    *)
(***************************************************************************)
EXTENDS Tickets, RulesGate, FilterSearch, FiniteSetTheorems, SequenceTheorems, TLAPS

-----------------------------------------------------------------------------
(* Tickets *)


Pc == {"idle", "list", "create", "post", "get", "page", "dm", "delete"}

Desk == [pc : Pc, who : Opener \cup {""}, kind : Kind \cup {""}, id : Nat, first : Nat,
         before : Nat, read : SUBSET Nat, pages : Nat]

TicketsTypeInv ==
  /\ TicketsTypeOK /\ desk \in [Closer -> Desk]
  /\ \A t \in Closer : desk[t].pc \in {"list", "create"} =>
                         desk[t].who \in Opener /\ desk[t].kind \in Kind

-----------------------------------------------------------------------------
(* Types. *)

LEMMA NoDeskType == NoDesk \in Desk /\ NoDesk.pc = "idle"
  BY DEF NoDesk, Desk, Pc

(* One thread goes on to a desk of the right type. *)
LEMMA DeskSet ==
  ASSUME TicketsTypeInv, NEW t \in Closer, NEW d \in Desk, desk' = [desk EXCEPT ![t] = d],
         d.pc \in {"list", "create"} => d.who \in Opener /\ d.kind \in Kind
  PROVE  /\ desk' \in [Closer -> Desk] /\ desk'[t] = d
         /\ \A u \in Closer \ {t} : desk'[u] = desk[u]
         /\ \A u \in Closer : desk'[u].pc \in {"list", "create"} =>
                                desk'[u].who \in Opener /\ desk'[u].kind \in Kind
<1>1. desk' \in [Closer -> Desk] /\ desk'[t] = d /\ \A u \in Closer \ {t} : desk'[u] = desk[u]
  BY DEF TicketsTypeInv
<1> QED
  BY <1>1 DEF TicketsTypeInv

\* A page of the newest messages up to number top.
IsPage(B, top) ==
  /\ B = {i \in 1 .. top : i > top - Page} /\ B \in SUBSET Nat
  /\ B = {} \/ Oldest(B) \in Nat
  /\ Cardinality(B) < Page => top < Page
  /\ ~(Cardinality(B) < Page) => B # {} /\ Oldest(B) = top - Page + 1 /\ top >= Page

LEMMA BatchFact ==
  ASSUME NEW n \in Nat, NEW before \in Nat
  PROVE  \E top \in Nat : top = (IF before = 0 THEN n ELSE before - 1) /\ IsPage(Batch(n, before), top)
<1> DEFINE B == Batch(n, before)
<1>1. PICK top \in Nat : top = IF before = 0 THEN n ELSE before - 1
  OBVIOUS
<1>2. B = {i \in 1 .. top : i > top - Page} /\ B \in SUBSET Nat
  BY <1>1 DEF Batch
<1> HIDE DEF B
<1>3. ASSUME top < Page PROVE IsPage(B, top)
  <2>1. B = 1 .. top
    BY <1>2, <1>3, PageAssumption
  <2>2. Cardinality(B) = IF 1 > top THEN 0 ELSE top
    BY <2>1, FS_Interval
  <2>3. ASSUME B # {} PROVE Oldest(B) \in Nat
    <3>1. 1 \in B /\ \A j \in B : 1 <= j
      BY <2>1, <2>3
    <3>2. \A i \in B : i \in Nat
      BY <1>2
    <3> QED
      BY <3>1, <3>2 DEF Oldest
  <2>4. Cardinality(B) < Page
    BY <1>3, <2>2, PageAssumption
  <2> QED
    BY <1>2, <1>3, <2>3, <2>4 DEF IsPage
<1>4. ASSUME top >= Page PROVE IsPage(B, top)
  <2>1. PICK a \in Nat : a = top - Page + 1
    BY <1>4, PageAssumption
  <2>2. B = a .. top /\ a <= top
    BY <1>2, <1>4, <2>1, PageAssumption
  <2>3. Cardinality(B) = Page
    BY <1>4, <2>1, <2>2, FS_Interval, PageAssumption
  <2>4. Oldest(B) = a /\ B # {}
    <3>1. a \in B /\ \A j \in B : a <= j
      BY <2>2
    <3>2. \A i \in B : (\A j \in B : i <= j) => i = a
      BY <2>2, <3>1
    <3> QED
      BY <3>1, <3>2 DEF Oldest
  <2>5. ~(Cardinality(B) < Page)
    BY <2>3, PageAssumption
  <2> QED
    BY <1>2, <1>4, <2>1, <2>4, <2>5 DEF IsPage
<1>5. IsPage(B, top)
  BY <1>3, <1>4, PageAssumption
<1> QED
  BY <1>1, <1>5 DEF B

(* What a page that was read leaves on the desk. *)
PageRead(d, s, n, part) ==
  /\ d \in Desk /\ d.pc = IF LastPage(part, s.pages + 1) THEN "dm" ELSE "page"
  /\ d.first = IF s.pages = 0 THEN n ELSE s.first
  /\ d.before = IF part = {} THEN s.before ELSE Oldest(part)
  /\ d.read = s.read \cup part /\ d.pages = s.pages + 1

LEMMA PageFact ==
  ASSUME NEW s \in Desk, NEW n \in Nat, NEW part \in SUBSET Nat,
         part = {} \/ Oldest(part) \in Nat
  PROVE  PageRead(WithPage(s, n, part), s, n, part)
<1> DEFINE d == WithPage(s, n, part)
<1>1. PICK f \in Nat : f = IF s.pages = 0 THEN n ELSE s.first
  BY DEF Desk
<1>2. PICK b \in Nat : b = IF part = {} THEN s.before ELSE Oldest(part)
  BY DEF Desk
<1>3. PICK r \in SUBSET Nat : r = s.read \cup part
  BY DEF Desk
<1>4. PICK m \in Nat : m = s.pages + 1
  <2>1. s.pages \in Nat
    BY DEF Desk
  <2> QED
    BY <2>1
<1>5. PICK p \in {"dm", "page"} : p = IF LastPage(part, s.pages + 1) THEN "dm" ELSE "page"
  OBVIOUS
<1>6. WithPage(s, n, part) =
        [s EXCEPT !.first = f, !.before = b, !.read = r, !.pages = m, !.pc = p]
  BY <1>1, <1>2, <1>3, <1>4, <1>5 DEF WithPage
<1>7. /\ d \in Desk /\ d.pc = p /\ d.first = f /\ d.before = b /\ d.read = r /\ d.pages = m
  BY <1>6 DEF Desk, Pc
<1> QED
  BY <1>1, <1>2, <1>3, <1>4, <1>5, <1>7 DEF PageRead

LEMMA ReadFact ==
  ASSUME TicketsTypeInv, NEW t \in Closer, ReadPage(t), desk[t].id \in DOMAIN channel
  PROVE  \E d \in Desk, top \in Nat, n \in Nat :
           /\ desk' = [desk EXCEPT ![t] = d] /\ d.pc \in {"page", "dm"}
           /\ d.pages = desk[t].pages + 1
           /\ d.first = IF desk[t].pages = 0 THEN n ELSE desk[t].first
           /\ top = IF desk[t].before = 0 THEN n ELSE desk[t].before - 1
           /\ d.read = desk[t].read \cup {i \in 1 .. top : i > top - Page}
           /\ d.pc = "dm" => top < Page \/ d.pages = MaxPages
           /\ d.pc = "page" => d.before = top - Page + 1 /\ top >= Page
<1>1. PICK s \in Desk : s = desk[t]
  BY DEF TicketsTypeInv
<1>2. PICK n \in Nat : n = channel[s.id].messages
  BY <1>1, PageAssumption DEF TicketsTypeInv, TicketsTypeOK, Ticket
<1>0. s.before \in Nat
  BY DEF Desk
<1>3. PICK top \in Nat :
        top = (IF s.before = 0 THEN n ELSE s.before - 1) /\ IsPage(Batch(n, s.before), top)
  BY <1>0, BatchFact
<1>4. PICK part : part = Batch(n, s.before)
  OBVIOUS
<1>5. IsPage(part, top)
  BY <1>3, <1>4
<1>6. PICK d : d = WithPage(s, n, part)
  OBVIOUS
<1>7. desk' = [desk EXCEPT ![t] = d]
  BY <1>1, <1>2, <1>4, <1>6 DEF ReadPage
<1>8. /\ d \in Desk /\ d.pc = IF LastPage(part, s.pages + 1) THEN "dm" ELSE "page"
      /\ d.first = IF s.pages = 0 THEN n ELSE s.first
      /\ d.before = IF part = {} THEN s.before ELSE Oldest(part)
      /\ d.read = s.read \cup part /\ d.pages = s.pages + 1
  <2>1. part \in SUBSET Nat
    BY <1>5 DEF IsPage
  <2>2. part = {} \/ Oldest(part) \in Nat
    BY <1>5 DEF IsPage
  <2>3. s \in Desk /\ n \in Nat
    BY <1>1, <1>2
  <2>4. PageRead(WithPage(s, n, part), s, n, part)
    BY <2>1, <2>2, <2>3, PageFact
  <2>5. PageRead(d, s, n, part)
    BY <1>6, <2>4
  <2> QED
    BY <2>5 DEF PageRead
<1>9. /\ d.pc \in {"page", "dm"}
      /\ d.pc = "dm" => top < Page \/ d.pages = MaxPages
      /\ d.pc = "page" => d.before = top - Page + 1 /\ top >= Page
  BY <1>5, <1>8 DEF LastPage, IsPage
<1>10. part = {i \in 1 .. top : i > top - Page}
  BY <1>5 DEF IsPage
<1> QED
  BY <1>1, <1>10, <1>3, <1>5, <1>7, <1>8, <1>9

(* Each step of a thread writes such a desk. *)
LEMMA DeskStepType ==
  ASSUME TicketsTypeInv, NEW t \in Closer, DeskStep(t)
  PROVE  \E d \in Desk : /\ desk' = [desk EXCEPT ![t] = d]
                         /\ d.pc \in {"list", "create"} => d.who \in Opener /\ d.kind \in Kind
<1> USE NoDeskType DEF TicketsTypeInv
<1> DEFINE s == desk[t]
<1>1. s \in Desk
  OBVIOUS
<1>2. CASE Ended(t)
  BY <1>2 DEF Ended
<1>3. CASE PressOpen(t)
  <2>1. PICK m \in Opener, k \in Kind :
          desk' = [desk EXCEPT ![t] = [NoDesk EXCEPT !.pc = "list", !.who = m, !.kind = k]]
    BY <1>3 DEF PressOpen
  <2>2. /\ [NoDesk EXCEPT !.pc = "list", !.who = m, !.kind = k] \in Desk
        /\ [NoDesk EXCEPT !.pc = "list", !.who = m, !.kind = k].who = m
        /\ [NoDesk EXCEPT !.pc = "list", !.who = m, !.kind = k].kind = k
    BY DEF NoDesk, Desk, Pc
  <2> QED
    BY <2>1, <2>2
<1>4. CASE PressClose(t)
  <2>1. PICK c \in DOMAIN channel, m \in Opener :
          desk' = [desk EXCEPT ![t] = [NoDesk EXCEPT !.pc = "get", !.who = m, !.id = c]]
    BY <1>4 DEF PressClose
  <2>2. c \in Nat
    BY DEF TicketsTypeOK
  <2>3. /\ [NoDesk EXCEPT !.pc = "get", !.who = m, !.id = c] \in Desk
        /\ [NoDesk EXCEPT !.pc = "get", !.who = m, !.id = c].pc = "get"
    BY <2>2 DEF NoDesk, Desk, Pc
  <2> QED
    BY <2>1, <2>3
<1>5. CASE ListTickets(t) /\ ~Ended(t)
  <2>1. /\ desk' = [desk EXCEPT ![t] = [s EXCEPT !.pc = "create"]] /\ s.pc = "list"
    BY <1>5 DEF ListTickets
  <2>2. /\ [s EXCEPT !.pc = "create"] \in Desk /\ [s EXCEPT !.pc = "create"].who = s.who
        /\ [s EXCEPT !.pc = "create"].kind = s.kind
    BY <1>1 DEF Desk, Pc
  <2> QED
    BY <2>1, <2>2
<1>6. CASE CreateTicket(t)
  <2>1. desk' = [desk EXCEPT ![t] = [s EXCEPT !.pc = "post", !.id = opened']]
    BY <1>6 DEF CreateTicket
  <2>3. opened' \in Nat
    BY <1>6, PageAssumption DEF CreateTicket, TicketsTypeOK
  <2>2. /\ [s EXCEPT !.pc = "post", !.id = opened'] \in Desk
        /\ [s EXCEPT !.pc = "post", !.id = opened'].pc = "post"
    BY <1>1, <2>3 DEF Desk, Pc
  <2> QED
    BY <2>1, <2>2
<1>7. CASE (GetTicket(t) /\ ~Ended(t)) \/ SendTranscript(t)
  <2>1. PICK p \in {"page", "delete"} : desk' = [desk EXCEPT ![t] = [s EXCEPT !.pc = p]]
    BY <1>7 DEF GetTicket, SendTranscript
  <2>2. [s EXCEPT !.pc = p] \in Desk /\ [s EXCEPT !.pc = p].pc = p
    BY <1>1 DEF Desk, Pc
  <2> QED
    BY <2>1, <2>2
<1>8. CASE ReadPage(t) /\ ~Ended(t)
  <2>1. desk[t].id \in DOMAIN channel
    BY <1>8 DEF ReadPage
  <2>2. PICK d \in Desk : desk' = [desk EXCEPT ![t] = d] /\ d.pc \in {"page", "dm"}
    BY <1>8, <2>1, ReadFact
  <2> QED
    BY <2>2
<1> QED
  BY <1>2, <1>3, <1>4, <1>5, <1>6, <1>7, <1>8
  DEF DeskStep, PostButton, DeleteTicket, RequestFails, GetTicket, ListTickets, ReadPage

(* What a step of a thread, and a message, do to the channels. *)
LEMMA ChannelSteps ==
  ASSUME TicketsTypeInv, TicketsNext
  PROVE  \/ UNCHANGED <<channel, opened, raced>>
         \/ /\ UNCHANGED <<opened, raced>> /\ DOMAIN channel' \subseteq DOMAIN channel
            /\ \A c \in DOMAIN channel' :
                 /\ channel'[c] \in Ticket
                 /\ channel'[c].owner = channel[c].owner /\ channel'[c].kind = channel[c].kind
         \/ \E t \in Closer : CreateTicket(t)
<1> DEFINE Kept ==
      /\ UNCHANGED <<opened, raced>> /\ DOMAIN channel' \subseteq DOMAIN channel
      /\ \A c \in DOMAIN channel' :
           /\ channel'[c] \in Ticket
           /\ channel'[c].owner = channel[c].owner /\ channel'[c].kind = channel[c].kind
<1>0. \A c \in DOMAIN channel : channel[c] \in Ticket
  BY DEF TicketsTypeInv, TicketsTypeOK
<1>1. ASSUME NEW c \in DOMAIN channel, NEW b \in BOOLEAN,
             channel' = [channel EXCEPT ![c].button = b, ![c].messages = @ + 1] \/
             channel' = [channel EXCEPT ![c].messages = @ + 1],
             channel[c].messages < MaxMessages, UNCHANGED <<opened, raced>>
      PROVE  Kept
  <2>1. channel[c] \in Ticket /\ channel[c].messages + 1 \in 0 .. MaxMessages
    BY <1>0, <1>1, PageAssumption DEF Ticket
  <2>2. /\ DOMAIN channel' = DOMAIN channel
        /\ \A d \in DOMAIN channel \ {c} : channel'[d] = channel[d]
    BY <1>1
  <2>3. /\ channel'[c] \in Ticket
        /\ channel'[c].owner = channel[c].owner /\ channel'[c].kind = channel[c].kind
    BY <1>1, <2>1 DEF Ticket
  <2> QED
    BY <1>0, <1>1, <2>2, <2>3
<1>2. ASSUME NEW t \in Closer, PostButton(t) PROVE Kept
  <2>1. PICK b \in BOOLEAN : b = TRUE
    OBVIOUS
  <2> QED
    BY <1>1, <1>2, <2>1 DEF PostButton
<1>3. ASSUME NEW c \in DOMAIN channel, WriteMessage(c) PROVE Kept
  BY <1>1, <1>3 DEF WriteMessage
<1>4. ASSUME NEW t \in Closer, DeleteTicket(t) PROVE Kept
  BY <1>0, <1>4 DEF DeleteTicket, Restrict
<1>5. ASSUME NEW t \in Closer,
             \/ PressOpen(t) \/ ListTickets(t) \/ PressClose(t) \/ GetTicket(t) \/ ReadPage(t)
             \/ SendTranscript(t) \/ RequestFails(t)
      PROVE  UNCHANGED <<channel, opened, raced>>
  BY <1>5 DEF PressOpen, ListTickets, PressClose, GetTicket, ReadPage, SendTranscript, RequestFails
<1> QED
  BY <1>2, <1>3, <1>4, <1>5 DEF TicketsNext, DeskStep

(* The new channel, of the member and the kind that the thread asked for. *)
LEMMA CreateFact ==
  ASSUME TicketsTypeInv, NEW t \in Closer, CreateTicket(t)
  PROVE  /\ opened \in Nat /\ opened' = opened + 1 /\ opened' <= MaxChannels
         /\ desk[t].pc = "create" /\ desk[t].who \in Opener /\ desk[t].kind \in Kind
         /\ DOMAIN channel' = DOMAIN channel \cup {opened'}
         /\ \A c \in DOMAIN channel' : channel'[c] \in Ticket
         /\ \A c \in DOMAIN channel' \ {opened'} : channel'[c] = channel[c]
         /\ channel'[opened'].owner = desk[t].who /\ channel'[opened'].kind = desk[t].kind
         /\ raced' = IF \E o \in Closer \ {t} : /\ desk[o].pc = "create" /\ desk[o].who = desk[t].who
                                                /\ desk[o].kind = desk[t].kind
                     THEN raced \cup {<<desk[t].who, desk[t].kind>>} ELSE raced
<1>1. /\ desk[t].pc = "create" /\ desk[t].who \in Opener /\ desk[t].kind \in Kind
  BY DEF CreateTicket, TicketsTypeInv
<1>2. opened \in Nat /\ opened' = opened + 1 /\ opened' <= MaxChannels
  BY PageAssumption DEF CreateTicket, TicketsTypeInv, TicketsTypeOK
<1>3. PICK inside \in BOOLEAN : channel' = [c \in DOMAIN channel \cup {opened'} |->
         IF c # opened' THEN channel[c]
         ELSE [owner |-> desk[t].who, kind |-> desk[t].kind, inCategory |-> inside,
               button |-> FALSE, messages |-> 0]]
  BY DEF CreateTicket
<1>4. [owner |-> desk[t].who, kind |-> desk[t].kind, inCategory |-> inside,
       button |-> FALSE, messages |-> 0] \in Ticket
  BY <1>1, PageAssumption DEF Ticket
<1>5. \A c \in DOMAIN channel : channel[c] \in Ticket
  BY DEF TicketsTypeInv, TicketsTypeOK
<1>6. /\ DOMAIN channel' = DOMAIN channel \cup {opened'}
      /\ \A c \in DOMAIN channel' : channel'[c] \in Ticket
      /\ \A c \in DOMAIN channel' \ {opened'} : channel'[c] = channel[c]
      /\ channel'[opened'].owner = desk[t].who /\ channel'[opened'].kind = desk[t].kind
  BY <1>3, <1>4, <1>5
<1>7. raced' = IF \E o \in Closer \ {t} : /\ desk[o].pc = "create" /\ desk[o].who = desk[t].who
                                         /\ desk[o].kind = desk[t].kind
              THEN raced \cup {<<desk[t].who, desk[t].kind>>} ELSE raced
  BY DEF CreateTicket
<1> QED
  BY <1>1, <1>2, <1>6, <1>7

LEMMA TicketsTypeStep ==
  ASSUME TicketsTypeInv, [TicketsNext]_tvars
  PROVE  TicketsTypeInv'
<1>1. CASE UNCHANGED tvars
  BY <1>1 DEF tvars, TicketsTypeInv, TicketsTypeOK
<1>2. CASE TicketsNext
  <2>1. /\ desk' \in [Closer -> Desk]
        /\ \A t \in Closer : desk'[t].pc \in {"list", "create"} =>
                               desk'[t].who \in Opener /\ desk'[t].kind \in Kind
    <3>1. ASSUME NEW t \in Closer, DeskStep(t)
          PROVE  /\ desk' \in [Closer -> Desk]
                 /\ \A u \in Closer : desk'[u].pc \in {"list", "create"} =>
                                        desk'[u].who \in Opener /\ desk'[u].kind \in Kind
      BY <3>1, DeskStepType, DeskSet
    <3>2. ASSUME NEW c \in DOMAIN channel, WriteMessage(c) PROVE UNCHANGED desk
      BY <3>2 DEF WriteMessage
    <3> QED
      BY <1>2, <3>1, <3>2 DEF TicketsNext, TicketsTypeInv
  <2>2. trouble' \in 0 .. MaxTrouble
    <3>1. trouble' = trouble \/ (trouble < MaxTrouble /\ trouble' = trouble + 1)
      BY <1>2
      DEF TicketsNext, DeskStep, PressOpen, ListTickets, CreateTicket, PostButton, PressClose, GetTicket,
          ReadPage, SendTranscript, DeleteTicket, RequestFails, WriteMessage, Trouble
    <3> QED
      BY <3>1, PageAssumption DEF TicketsTypeInv, TicketsTypeOK
  <2>3. /\ DOMAIN channel' \subseteq 1 .. opened' /\ \A c \in DOMAIN channel' : channel'[c] \in Ticket
        /\ opened' \in 0 .. MaxChannels /\ raced' \subseteq Opener \X Kind
    <3>1. CASE \E t \in Closer : CreateTicket(t)
      <4>1. PICK t \in Closer : CreateTicket(t)
        BY <3>1
      <4> QED
        BY <4>1, CreateFact, PageAssumption DEF TicketsTypeInv, TicketsTypeOK
    <3>2. CASE ~(\E t \in Closer : CreateTicket(t))
      BY <1>2, <3>2, ChannelSteps DEF TicketsTypeInv, TicketsTypeOK
    <3> QED
      BY <3>1, <3>2
  <2> QED
    BY <2>1, <2>2, <2>3 DEF TicketsTypeInv, TicketsTypeOK
<1> QED
  BY <1>1, <1>2

(* Every variable keeps its type; a thread that looks for a ticket, or makes one, has a *)
(* member and a kind (interactions/recruitment_panel.py, support_panel.py).             *)
THEOREM TicketsTypeAlways == TicketsSpec => []TicketsTypeInv
<1>1. TicketsInit => TicketsTypeInv
  <2> SUFFICES ASSUME TicketsInit PROVE TicketsTypeInv
    OBVIOUS
  <2>1. desk \in [Closer -> Desk] /\ \A t \in Closer : desk[t].pc = "idle"
    BY NoDeskType DEF TicketsInit
  <2>2. TicketsTypeOK
    BY PageAssumption DEF TicketsInit, TicketsTypeOK
  <2> QED
    BY <2>1, <2>2 DEF TicketsTypeInv
<1>2. TicketsTypeInv /\ [TicketsNext]_tvars => TicketsTypeInv'
  BY TicketsTypeStep
<1> QED
  BY <1>1, <1>2, PTL DEF TicketsSpec

-----------------------------------------------------------------------------
(* One open ticket of a kind. *)

Creating(t, m, k) == desk[t].pc = "create" /\ desk[t].who = m /\ desk[t].kind = k

\* Without a race a member has one ticket of the kind at most, and has none
\* while a thread is about to make one.
OneFor(m, k) ==
  /\ \A c, d \in FindOpen(m, k) : c = d
  /\ (\E t \in Closer : Creating(t, m, k)) => FindOpen(m, k) = {}

OneInv == \A m \in Opener, k \in Kind : <<m, k>> \notin raced => OneFor(m, k)

(* A thread is about to make a ticket only when it was before or when it has just found none. *)
LEMMA CreatingFact ==
  ASSUME TicketsTypeInv, TicketsNext, NEW u \in Closer, NEW m, NEW k, Creating(u, m, k)'
  PROVE  \/ Creating(u, m, k) /\ ~CreateTicket(u)
         \/ FindOpen(m, k) = {} /\ UNCHANGED <<channel, opened, raced>>
<1>1. CASE desk'[u] = desk[u]
  <2>1. Creating(u, m, k)
    BY <1>1 DEF Creating
  <2>2. CreateTicket(u) => desk'[u].pc = "post"
    BY DEF CreateTicket, TicketsTypeInv, Desk
  <2> QED
    BY <2>1, <2>2 DEF Creating
<1>2. CASE desk'[u] # desk[u]
  <2>1. PICK t \in Closer : DeskStep(t)
    BY <1>2 DEF TicketsNext, WriteMessage
  <2>2. \A d : desk' = [desk EXCEPT ![t] = d] => t = u /\ desk'[t] = d
    BY <1>2 DEF TicketsTypeInv
  <2>3. desk'[u].pc = "create"
    BY DEF Creating
  <2>4. ~Ended(t)
    BY <2>2, <2>3, NoDeskType DEF Ended
  <2>5. ~PressOpen(t) /\ ~PressClose(t)
    <3>1. ASSUME PressOpen(t) PROVE FALSE
      <4>1. PICK n \in Opener, j \in Kind :
              desk' = [desk EXCEPT ![t] = [NoDesk EXCEPT !.pc = "list", !.who = n, !.kind = j]]
        BY <3>1 DEF PressOpen
      <4>2. desk'[u] = [NoDesk EXCEPT !.pc = "list", !.who = n, !.kind = j]
        BY <2>2, <4>1
      <4> QED
        BY <2>3, <4>2 DEF NoDesk
    <3>2. ASSUME PressClose(t) PROVE FALSE
      <4>1. PICK c \in DOMAIN channel, n \in Opener :
              desk' = [desk EXCEPT ![t] = [NoDesk EXCEPT !.pc = "get", !.who = n, !.id = c]]
        BY <3>2 DEF PressClose
      <4>2. desk'[u] = [NoDesk EXCEPT !.pc = "get", !.who = n, !.id = c]
        BY <2>2, <4>1
      <4> QED
        BY <2>3, <4>2 DEF NoDesk
    <3> QED
      BY <3>1, <3>2
  <2>6. ~CreateTicket(t) /\ ~GetTicket(t) /\ ~SendTranscript(t)
    BY <2>2, <2>3, <2>4 DEF CreateTicket, GetTicket, SendTranscript, TicketsTypeInv, Desk
  <2>7. ~ReadPage(t)
    <3>1. ASSUME ReadPage(t) PROVE FALSE
      <4>1. desk[t].id \in DOMAIN channel
        BY <2>4, <3>1 DEF ReadPage
      <4>2. PICK d \in Desk : desk' = [desk EXCEPT ![t] = d] /\ d.pc \in {"page", "dm"}
        BY <3>1, <4>1, ReadFact
      <4> QED
        BY <2>2, <2>3, <4>2
    <3> QED
      BY <3>1
  <2>8. ListTickets(t)
    BY <2>1, <2>4, <2>5, <2>6, <2>7 DEF DeskStep, PostButton, DeleteTicket, RequestFails
  <2>9. /\ desk' = [desk EXCEPT ![t] = [desk[t] EXCEPT !.pc = "create"]]
        /\ FindOpen(desk[t].who, desk[t].kind) = {}
        /\ UNCHANGED <<channel, opened, raced>>
    BY <2>4, <2>8 DEF ListTickets
  <2>10. t = u /\ desk'[u].who = desk[u].who /\ desk'[u].kind = desk[u].kind
    BY <2>2, <2>9 DEF TicketsTypeInv, Desk
  <2> QED
    BY <2>10, <2>9 DEF Creating
<1> QED
  BY <1>1, <1>2

LEMMA OneStep ==
  ASSUME TicketsTypeInv, OneInv, [TicketsNext]_tvars
  PROVE  OneInv'
<1>1. CASE UNCHANGED tvars
  BY <1>1 DEF tvars, OneInv, OneFor, FindOpen, Creating
<1>2. CASE TicketsNext
  <2> SUFFICES ASSUME NEW m \in Opener, NEW k \in Kind, <<m, k>> \notin raced'
               PROVE  OneFor(m, k)'
    BY DEF OneInv
  <2>1. CASE \E t \in Closer : CreateTicket(t)
    <3>1. PICK t \in Closer : CreateTicket(t)
      BY <2>1
    <3>2. OneFor(m, k)
      BY <3>1, CreateFact DEF OneInv
    <3>3. /\ DOMAIN channel' = DOMAIN channel \cup {opened'}
          /\ \A c \in DOMAIN channel' \ {opened'} : channel'[c] = channel[c]
          /\ channel'[opened'].owner = desk[t].who /\ channel'[opened'].kind = desk[t].kind
          /\ opened' \notin DOMAIN channel /\ desk[t].pc = "create"
      <4>1. opened \in Nat /\ opened' = opened + 1
        BY <3>1, CreateFact
      <4>2. opened' \notin DOMAIN channel
        BY <4>1 DEF TicketsTypeInv, TicketsTypeOK
      <4> QED
        BY <3>1, <4>2, CreateFact
    <3>4. \A u \in Closer : Creating(u, m, k)' => u # t /\ Creating(u, m, k)
      <4>1. UNCHANGED raced \/ raced' # raced
        OBVIOUS
      <4>2. ~UNCHANGED opened
        BY <3>1, CreateFact
      <4> QED
        BY <1>2, <3>1, <4>2, CreatingFact
    <3>5. CASE Creating(t, m, k)
      <4>1. FindOpen(m, k) = {}
        BY <3>2, <3>5 DEF OneFor
      <4>2. \A c \in FindOpen(m, k)' : c = opened'
        BY <3>3, <4>1 DEF FindOpen
      <4>3. ~\E u \in Closer \ {t} : Creating(u, m, k)
        <5>1. (\E o \in Closer \ {t} : /\ desk[o].pc = "create" /\ desk[o].who = desk[t].who
                                       /\ desk[o].kind = desk[t].kind)
                 => raced' = raced \cup {<<desk[t].who, desk[t].kind>>}
          BY <3>1, CreateFact
        <5> QED
          BY <3>5, <5>1 DEF Creating
      <4> QED
        BY <3>4, <4>2, <4>3 DEF OneFor
    <3>6. CASE ~Creating(t, m, k)
      <4>1. FindOpen(m, k)' = FindOpen(m, k)
        BY <3>3, <3>6 DEF FindOpen, Creating
      <4> QED
        BY <3>2, <3>4, <4>1 DEF OneFor
    <3> QED
      BY <3>5, <3>6
  <2>2. CASE ~(\E t \in Closer : CreateTicket(t))
    <3>1. /\ UNCHANGED raced /\ FindOpen(m, k)' \subseteq FindOpen(m, k)
      BY <1>2, <2>2, ChannelSteps DEF FindOpen
    <3>2. OneFor(m, k)
      BY <3>1 DEF OneInv
    <3>3. (\E t \in Closer : Creating(t, m, k)') => FindOpen(m, k) = {}
      BY <1>2, <3>2, CreatingFact DEF OneFor
    <3> QED
      BY <3>1, <3>2, <3>3 DEF OneFor
  <2> QED
    BY <2>1, <2>2
<1> QED
  BY <1>1, <1>2

(* A member has one open ticket of a kind at most, unless two of his creations ran side by *)
(* side (find_open_ticket_channel, then create_ticket_channel, in threads of their own).    *)
THEOREM OneTicketAlways == TicketsSpec => []OneTicketUnlessRaced
<1>1. TicketsInit => OneInv
  <2> SUFFICES ASSUME TicketsInit PROVE OneInv
    OBVIOUS
  <2>1. DOMAIN channel = {} /\ \A t \in Closer : desk[t].pc = "idle"
    BY NoDeskType DEF TicketsInit
  <2>2. \A m, k : FindOpen(m, k) = {}
    BY <2>1 DEF FindOpen
  <2> QED
    BY <2>2 DEF OneInv, OneFor
<1>2. TicketsTypeInv /\ OneInv /\ [TicketsNext]_tvars => OneInv'
  BY OneStep
<1>3. OneInv => OneTicketUnlessRaced
  <2> SUFFICES ASSUME OneInv, NEW m \in Opener, NEW k \in Kind, <<m, k>> \notin raced
               PROVE  Cardinality(FindOpen(m, k)) <= 1
    BY DEF OneTicketUnlessRaced, FindOpen
  <2>1. \A c, d \in FindOpen(m, k) : c = d
    BY DEF OneInv, OneFor
  <2>2. CASE FindOpen(m, k) = {}
    BY <2>2, FS_EmptySet
  <2>3. CASE FindOpen(m, k) # {}
    <3>1. PICK c : FindOpen(m, k) = {c}
      BY <2>1, <2>3
    <3> QED
      BY <3>1, FS_Singleton
  <2> QED
    BY <2>2, <2>3
<1> QED
  BY <1>1, <1>2, <1>3, TicketsTypeAlways, PTL DEF TicketsSpec

-----------------------------------------------------------------------------
(* The transcript. *)

\* The messages above number low that there were at the first page.
Above(s, low) == {i \in 1 .. s.first : i > low}

\* Before the first page nothing bounds the request; after n full pages the next one
\* goes on below the n * Page newest messages, which were read.
DeskReads(s) ==
  /\ s.pc = "get" => s.pages = 0 /\ s.before = 0
  /\ s.pc = "page" /\ s.pages = 0 => s.before = 0
  /\ s.pc = "page" /\ s.pages # 0 =>
       /\ s.before = s.first - s.pages * Page + 1 /\ s.before # 0
       /\ Above(s, s.first - s.pages * Page) \subseteq s.read
  /\ s.pc = "dm" => Above(s, s.first - MaxPages * Page) \subseteq s.read

ReadsInv == \A t \in Closer : DeskReads(desk[t])

(* One more page keeps it. *)
LEMMA ReadsOn ==
  ASSUME TicketsTypeInv, NEW t \in Closer, DeskReads(desk[t]), ReadPage(t),
         desk[t].id \in DOMAIN channel
  PROVE  \E d \in Desk : desk' = [desk EXCEPT ![t] = d] /\ DeskReads(d)
<1>1. PICK s \in Desk : s = desk[t] /\ s.pc = "page" /\ DeskReads(s)
  BY DEF TicketsTypeInv, ReadPage
<1>2. PICK d \in Desk, top \in Nat, n \in Nat :
        /\ desk' = [desk EXCEPT ![t] = d] /\ d.pc \in {"page", "dm"}
        /\ d.pages = s.pages + 1
        /\ d.first = IF s.pages = 0 THEN n ELSE s.first
        /\ top = IF s.before = 0 THEN n ELSE s.before - 1
        /\ d.read = s.read \cup {i \in 1 .. top : i > top - Page}
        /\ d.pc = "dm" => top < Page \/ d.pages = MaxPages
        /\ d.pc = "page" => d.before = top - Page + 1 /\ top >= Page
  BY <1>1, ReadFact
<1>3. /\ s.pages \in Nat /\ s.first \in Nat /\ s.before \in Nat
      /\ d.pages \in Nat /\ d.first \in Nat /\ Page \in Nat \ {0}
  BY PageAssumption DEF Desk
<1>4. PICK below \in Nat : below = s.pages * Page
  BY <1>3
<1>5. d.pages * Page = below + Page
  BY <1>2, <1>3, <1>4
<1>6. top = d.first - below
  <2>1. CASE s.pages = 0
    <3>1. below = 0
      BY <1>3, <1>4, <2>1
    <3>2. s.before = 0
      BY <1>1, <2>1 DEF DeskReads
    <3> QED
      BY <1>2, <1>3, <2>1, <3>1, <3>2
  <2>2. CASE s.pages # 0
    <3>1. s.before = s.first - below + 1 /\ s.before # 0
      BY <1>1, <1>4, <2>2 DEF DeskReads
    <3> QED
      BY <1>2, <1>3, <2>2, <3>1
  <2> QED
    BY <2>1, <2>2
<1>7. Above(d, top - Page) \subseteq d.read
  <2>1. ASSUME NEW i \in 1 .. d.first, i > top PROVE i \in s.read
    <3>1. s.pages # 0
      <4>1. s.pages = 0 => below = 0
        BY <1>3, <1>4
      <4> QED
        BY <1>3, <1>6, <2>1, <4>1
    <3>2. d.first = s.first
      BY <1>2, <3>1
    <3>3. i \in Above(s, s.first - below)
      BY <1>3, <1>6, <2>1, <3>2 DEF Above
    <3> QED
      BY <1>1, <1>4, <3>1, <3>3 DEF DeskReads
  <2>2. ASSUME NEW i \in 1 .. d.first, i > top - Page, ~(i > top)
        PROVE  i \in {j \in 1 .. top : j > top - Page}
    BY <1>3, <2>2
  <2> QED
    BY <1>2, <2>1, <2>2 DEF Above
<1>8. d.first - d.pages * Page = top - Page
  BY <1>3, <1>5, <1>6
<1>9. CASE d.pc = "page"
  <2>1. d.pages # 0 /\ d.before = top - Page + 1 /\ top - Page + 1 # 0
    BY <1>2, <1>3, <1>9
  <2> QED
    BY <1>2, <1>7, <1>8, <1>9, <2>1 DEF DeskReads
<1>10. CASE d.pc = "dm"
  <2>1. CASE d.pages = MaxPages
    BY <1>10, <1>2, <1>7, <1>8, <2>1 DEF DeskReads
  <2>2. CASE top < Page
    <3>1. \A i \in 1 .. d.first : i > top - Page
      BY <1>3, <2>2
    <3>2. Above(d, d.first - MaxPages * Page) \subseteq d.read
      BY <1>7, <3>1 DEF Above
    <3> QED
      BY <1>10, <1>2, <3>2 DEF DeskReads
  <2> QED
    BY <1>10, <1>2, <2>1, <2>2
<1> QED
  BY <1>10, <1>2, <1>9

(* Any other step leaves a thread outside of the transcript, or at its beginning. *)
LEMMA ReadsElsewhere ==
  ASSUME TicketsTypeInv, NEW t \in Closer, DeskReads(desk[t]), DeskStep(t), ~ReadPage(t)
  PROVE  \E d \in Desk : desk' = [desk EXCEPT ![t] = d] /\ DeskReads(d)
<1>1. PICK s \in Desk : s = desk[t] /\ DeskReads(s)
  BY DEF TicketsTypeInv
<1>2. CASE Ended(t)
  BY <1>2, NoDeskType DEF Ended, DeskReads
<1>3. CASE PressOpen(t)
  <2>1. PICK m \in Opener, k \in Kind :
          desk' = [desk EXCEPT ![t] = [NoDesk EXCEPT !.pc = "list", !.who = m, !.kind = k]]
    BY <1>3 DEF PressOpen
  <2>2. /\ [NoDesk EXCEPT !.pc = "list", !.who = m, !.kind = k] \in Desk
        /\ [NoDesk EXCEPT !.pc = "list", !.who = m, !.kind = k].pc = "list"
    BY DEF NoDesk, Desk, Pc
  <2> QED
    BY <2>1, <2>2 DEF DeskReads
<1>4. CASE PressClose(t)
  <2>1. PICK c \in DOMAIN channel, m \in Opener :
          desk' = [desk EXCEPT ![t] = [NoDesk EXCEPT !.pc = "get", !.who = m, !.id = c]]
    BY <1>4 DEF PressClose
  <2>2. c \in Nat
    BY DEF TicketsTypeInv, TicketsTypeOK
  <2>3. /\ [NoDesk EXCEPT !.pc = "get", !.who = m, !.id = c] \in Desk
        /\ [NoDesk EXCEPT !.pc = "get", !.who = m, !.id = c].pc = "get"
        /\ [NoDesk EXCEPT !.pc = "get", !.who = m, !.id = c].pages = 0
        /\ [NoDesk EXCEPT !.pc = "get", !.who = m, !.id = c].before = 0
    BY <2>2 DEF NoDesk, Desk, Pc
  <2> QED
    BY <2>1, <2>3 DEF DeskReads
<1>5. CASE (ListTickets(t) /\ ~Ended(t)) \/ SendTranscript(t)
  <2>1. PICK p \in {"create", "delete"} : desk' = [desk EXCEPT ![t] = [s EXCEPT !.pc = p]]
    BY <1>1, <1>5 DEF ListTickets, SendTranscript
  <2>2. [s EXCEPT !.pc = p] \in Desk /\ [s EXCEPT !.pc = p].pc = p
    BY DEF Desk, Pc
  <2> QED
    BY <2>1, <2>2 DEF DeskReads
<1>6. CASE CreateTicket(t)
  <2>1. desk' = [desk EXCEPT ![t] = [s EXCEPT !.pc = "post", !.id = opened']]
    BY <1>1, <1>6 DEF CreateTicket
  <2>2. opened' \in Nat
    BY <1>6, CreateFact
  <2>3. /\ [s EXCEPT !.pc = "post", !.id = opened'] \in Desk
        /\ [s EXCEPT !.pc = "post", !.id = opened'].pc = "post"
    BY <2>2 DEF Desk, Pc
  <2> QED
    BY <2>1, <2>3 DEF DeskReads
<1>7. CASE GetTicket(t) /\ ~Ended(t)
  <2>1. desk' = [desk EXCEPT ![t] = [s EXCEPT !.pc = "page"]] /\ s.pc = "get"
    BY <1>1, <1>7 DEF GetTicket
  <2>2. /\ [s EXCEPT !.pc = "page"] \in Desk /\ [s EXCEPT !.pc = "page"].pc = "page"
        /\ [s EXCEPT !.pc = "page"].pages = s.pages /\ [s EXCEPT !.pc = "page"].before = s.before
    BY DEF Desk, Pc
  <2>3. s.pages = 0 /\ s.before = 0
    BY <1>1, <2>1 DEF DeskReads
  <2> QED
    BY <2>1, <2>2, <2>3 DEF DeskReads
<1> QED
  BY <1>2, <1>3, <1>4, <1>5, <1>6, <1>7
  DEF DeskStep, PostButton, DeleteTicket, RequestFails, GetTicket, ListTickets

LEMMA ReadsStep ==
  ASSUME TicketsTypeInv, ReadsInv, [TicketsNext]_tvars
  PROVE  ReadsInv'
<1>1. CASE UNCHANGED desk
  BY <1>1 DEF ReadsInv
<1>2. CASE \E t \in Closer : DeskStep(t) /\ ~UNCHANGED desk
  <2>1. PICK t \in Closer : DeskStep(t)
    BY <1>2
  <2>2. DeskReads(desk[t])
    BY DEF ReadsInv
  <2>3. PICK d \in Desk : desk' = [desk EXCEPT ![t] = d] /\ DeskReads(d)
    <3>1. CASE ReadPage(t) /\ desk[t].id \in DOMAIN channel
      BY <2>2, <3>1, ReadsOn
    <3>2. CASE ReadPage(t) /\ desk[t].id \notin DOMAIN channel
      BY <3>2, NoDeskType DEF ReadPage, Ended, DeskReads
    <3>3. CASE ~ReadPage(t)
      BY <2>1, <2>2, <3>3, ReadsElsewhere
    <3> QED
      BY <3>1, <3>2, <3>3
  <2>4. desk'[t] = d /\ \A u \in Closer \ {t} : desk'[u] = desk[u]
    BY <2>3 DEF TicketsTypeInv
  <2>5. \A u \in Closer : DeskReads(desk'[u])
    BY <2>3, <2>4 DEF ReadsInv
  <2> QED
    BY <2>5 DEF ReadsInv
<1> QED
  BY <1>1, <1>2 DEF TicketsNext, tvars, WriteMessage

(* When the transcript is sent it has every message that there was at its first page, or  *)
(* the newest MaxPages * Page of them (list_channel_messages with "before", the loop of   *)
(* _finalize_ticket_close), whatever is written to the channel meanwhile.                 *)
THEOREM TranscriptAlways == TicketsSpec => []TranscriptComplete
<1>1. TicketsInit => ReadsInv
  <2> SUFFICES ASSUME TicketsInit PROVE ReadsInv
    OBVIOUS
  <2>1. \A t \in Closer : desk[t].pc = "idle"
    BY NoDeskType DEF TicketsInit
  <2> QED
    BY <2>1 DEF ReadsInv, DeskReads
<1>2. TicketsTypeInv /\ ReadsInv /\ [TicketsNext]_tvars => ReadsInv'
  BY ReadsStep
<1>3. ReadsInv => TranscriptComplete
  BY DEF ReadsInv, DeskReads, Above, TranscriptComplete
<1> QED
  BY <1>1, <1>2, <1>3, TicketsTypeAlways, PTL DEF TicketsSpec

-----------------------------------------------------------------------------
(* Access to the channels *)

(* The types. *)
Syncs == {"starter", "proplus"}
Views == [GuildRole -> View]
Puts == Channel \X View

GateJobs == [pc : {"idle", "create", "begin", "read", "write"}, role : Copy \cup {""},
             bot : BOOLEAN, todo : SUBSET Channel, at : Channel \cup {""}, seen : Views,
             ok : BOOLEAN]
SyncJobs == [pc : {"idle", "copy", "deny"}, role : {""}, bot : BOOLEAN, todo : SUBSET Puts,
             at : {""}, seen : Views, ok : BOOLEAN]
Clicks == [pc : {"idle", "create", "add"}, role : Copy \cup {""}]

GateTypeInv ==
    /\ GateTypeOK
    /\ DOMAIN job = Command /\ job = [j \in Command |-> job[j]]
    /\ job["gate"] \in GateJobs
    /\ \A j \in Syncs : job[j] \in SyncJobs
    /\ accept \in [Accepting -> Clicks]

(* What the gate writes: the channel is closed for all but the role, and the bot. *)
Closed(c, r) ==
    /\ ow[c]["everyone"] = IF c \in Public THEN "allow" ELSE "deny"
    /\ ow[c][r] = IF c \in Preview THEN "allow" ELSE "deny"
    /\ ow[c]["bot"] = "allow"

\* Every channel that a clean gate closed stays so, and the gate that runs without a
\* fault has closed all the channels it has done with.
GateInv ==
    /\ "gate" \in clean => gateRole \in copies /\ \A c \in GatedChannels : Closed(c, gateRole)
    /\ job["gate"].pc \in {"begin", "read", "write"} => job["gate"].role \in copies
    /\ job["gate"].pc \in {"read", "write"} =>
          /\ job["gate"].todo \subseteq GatedChannels
          /\ job["gate"].ok = TRUE =>
                /\ job["gate"].bot = TRUE
                /\ \A c \in GatedChannels \ job["gate"].todo : Closed(c, job["gate"].role)
    /\ job["gate"].pc = "write" => job["gate"].at \in job["gate"].todo

(* What a copy of Pro's permissions has come to. *)
Passed(j, c) == ow[c]["pro"] = "allow" => ow[c][j] = "allow"

Opened(j) ==
    /\ \A c \in Channel \ Excluded(j) : Passed(j, c)
    /\ \A c \in Excluded(j) : ow[c][j] = "deny"

\* What a command still has to put is what Pro has now, unless an admin or the gate
\* came in between.
Accurate(j) ==
    \A p \in job[j].todo : ow[p[1]]["pro"] # "absent" /\ p[2] = Normalized(ow[p[1]]["pro"])

CopyInv(j) ==
    /\ j \in clean => Opened(j)
    /\ job[j].pc = "copy" =>
          /\ job[j].todo \subseteq (Channel \ Excluded(j)) \X View
          /\ job[j].ok = TRUE \/ j \in clean => Accurate(j)
          /\ job[j].ok = TRUE =>
                \A c \in Channel \ Excluded(j) : Passed(j, c) \/ <<c, "allow">> \in job[j].todo
    /\ job[j].pc = "deny" =>
          /\ job[j].todo \subseteq Excluded(j) \X {"deny"}
          /\ job[j].ok = TRUE =>
                /\ \A c \in Channel \ Excluded(j) : Passed(j, c)
                /\ \A c \in Excluded(j) : ow[c][j] = "deny" \/ <<c, "deny">> \in job[j].todo

SyncInv == \A j \in Syncs : CopyInv(j)

ProInv == \A c \in forPro : ow[c]["pro"] = "allow"

(* A member who was told so has a role that exists. *)
AcceptInv ==
    \A m \in Accepting :
        /\ has[m] \subseteq copies
        /\ m \in told => has[m] # {}
        /\ accept[m].pc = "add" => accept[m].role \in copies

AccessInv == GateTypeInv /\ GateInv /\ SyncInv /\ ProInv /\ AcceptInv

-----------------------------------------------------------------------------
(* Steps of the commands. *)

LEMMA Names ==
    /\ Command = Syncs \cup {"gate"} /\ "gate" \notin Syncs /\ "gate" \in Command
    /\ Syncs \subseteq GuildRole \ (Copy \cup {"everyone", "bot", "pro"})
    /\ Copy \subseteq GuildRole /\ {"everyone", "bot", "pro"} \subseteq GuildRole \ Copy
    /\ "" \notin Copy /\ "" \notin Syncs
  BY DEF Command, Syncs, GuildRole, Copy

LEMMA OneJob ==
    ASSUME GateTypeInv, NEW j \in Command, NEW s, job' = [job EXCEPT ![j] = s]
    PROVE  /\ job'[j] = s /\ \A k \in Command \ {j} : job'[k] = job[k]
           /\ DOMAIN job' = Command /\ job' = [k \in Command |-> job'[k]]
<1>1. DOMAIN job = Command /\ job = [k \in Command |-> job[k]]
  BY DEF GateTypeInv
<1> QED
  BY <1>1

\* The state of the gate is what it was, or has one more role.
LEMMA GateFrame ==
    ASSUME GateInv, copies \subseteq Copy, copies \subseteq copies', gateRole' = gateRole,
           "gate" \in clean' => "gate" \in clean, job'["gate"] = job["gate"],
           \A c \in Channel, r \in Copy \cup {"everyone", "bot"} : ow'[c][r] = ow[c][r]
    PROVE  GateInv'
<1>1. GatedChannels \subseteq Channel
  BY DEF GatedChannels, Channel
<1>2. \A c \in GatedChannels, r \in copies : Closed(c, r) => Closed(c, r)'
  BY <1>1 DEF Closed
<1> QED
  BY <1>2 DEF GateInv

\* Nothing that a copy of Pro's permissions is about has changed.
LEMMA CopyFrame ==
    ASSUME NEW j \in Syncs, CopyInv(j), job'[j] = job[j], j \in clean' => j \in clean,
           \A c \in Channel : ow'[c]["pro"] = ow[c]["pro"] /\ ow'[c][j] = ow[c][j]
    PROVE  CopyInv(j)'
<1>1. Excluded(j) \subseteq Channel
  BY GuildAssumption DEF Excluded, Children, Channel
<1>2. \A c \in Channel : Passed(j, c)' <=> Passed(j, c)
  BY DEF Passed
<1>3. Opened(j) => Opened(j)'
  BY <1>1, <1>2 DEF Opened
<1>4. CASE job[j].pc = "copy"
  <2>1. job[j].todo \subseteq (Channel \ Excluded(j)) \X View
    BY <1>4 DEF CopyInv
  <2>2. Accurate(j) => Accurate(j)'
    BY <2>1 DEF Accurate
  <2> QED
    BY <1>2, <1>3, <1>4, <2>1, <2>2 DEF CopyInv
<1>5. CASE job[j].pc # "copy"
  BY <1>1, <1>2, <1>3, <1>5 DEF CopyInv
<1> QED
  BY <1>4, <1>5

\* The command has become worthless.
LEMMA CopySpoilt ==
    ASSUME NEW j \in Syncs, CopyInv(j), job'[j].pc = job[j].pc, job'[j].todo = job[j].todo,
           j \notin clean', job[j].pc # "idle" => job'[j].ok = FALSE
    PROVE  CopyInv(j)'
  BY DEF CopyInv

\* A step of the gate that writes no channel.
LEMMA GateQuiet ==
    ASSUME AccessInv, NEW s \in GateJobs, job' = [job EXCEPT !["gate"] = s],
           ow' = ow, copies \subseteq copies', copies' \subseteq Copy, UNCHANGED <<people, forPro>>,
           mishaps' \in 0 .. MaxMishaps, clean' \ {"gate"} \subseteq clean, clean' \subseteq Command,
           GateInv'
    PROVE  AccessInv'
<1>1. job'["gate"] = s /\ DOMAIN job' = Command /\ job' = [k \in Command |-> job'[k]]
      /\ \A j \in Syncs : job'[j] = job[j]
  BY OneJob, Names DEF AccessInv
<1>2. GateTypeInv'
  BY <1>1 DEF AccessInv, GateTypeInv, GateTypeOK, people
<1>3. SyncInv'
  <2>1. ASSUME NEW j \in Syncs
        PROVE  CopyInv(j)'
    <3>1. CopyInv(j) /\ job'[j] = job[j] /\ (j \in clean' => j \in clean)
      BY <1>1, Names DEF AccessInv, SyncInv
    <3> QED
      BY <3>1, CopyFrame
  <2> QED
    BY <2>1 DEF SyncInv
<1>4. ProInv' /\ AcceptInv'
  BY DEF AccessInv, ProInv, AcceptInv, people
<1> QED
  BY <1>2, <1>3, <1>4 DEF AccessInv

LEMMA Counted ==
    ASSUME AccessInv, NEW fine \in BOOLEAN, OrMishap(fine) \/ Mishap \/ UNCHANGED mishaps
    PROVE  mishaps' \in 0 .. MaxMishaps
  BY GuildAssumption DEF AccessInv, GateTypeInv, GateTypeOK, OrMishap, Mishap

LEMMA StartsGate ==
    ASSUME AccessInv, StartGate
    PROVE  AccessInv'
<1>1. PICK r \in Found :
        job' = [job EXCEPT !["gate"] = [@ EXCEPT !.pc = IF r = "" THEN "create" ELSE "begin", !.role = r]]
  BY DEF StartGate
<1> DEFINE s == [job["gate"] EXCEPT !.pc = IF r = "" THEN "create" ELSE "begin", !.role = r]
<1>2. job["gate"] \in GateJobs /\ copies \subseteq Copy
  BY DEF AccessInv, GateTypeInv, GateTypeOK
<1>3. r \in Copy \cup {""} /\ (r # "" => r \in copies)
  BY <1>2 DEF Found
<1>4. s \in GateJobs /\ s.pc \in {"create", "begin"} /\ s.role = r /\ (s.pc = "begin" => r # "")
  BY <1>2, <1>3 DEF GateJobs
<1>5. job' = [job EXCEPT !["gate"] = s]
  BY <1>1
<1> HIDE DEF s
<1>6. job'["gate"] = s
  BY <1>5, OneJob, Names DEF AccessInv
<1>7. ow' = ow /\ copies' = copies /\ UNCHANGED <<people, forPro, clean, gateRole>>
  BY DEF StartGate, history
<1>8. \A c \in GatedChannels, q \in copies : Closed(c, q)' <=> Closed(c, q)
  BY <1>7 DEF Closed
<1>9. GateInv'
  BY <1>3, <1>4, <1>6, <1>7, <1>8 DEF GateInv, AccessInv
<1>10. mishaps' \in 0 .. MaxMishaps
  BY Counted DEF StartGate
<1> QED
  BY <1>2, <1>4, <1>5, <1>7, <1>9, <1>10, GateQuiet DEF AccessInv, GateTypeInv, GateTypeOK

LEMMA MakesRoleForGate ==
    ASSUME AccessInv, CreateRoleForGate
    PROVE  AccessInv'
<1>1. PICK r \in Copy :
        /\ copies' = copies \cup {r}
        /\ job' = [job EXCEPT !["gate"] = [@ EXCEPT !.pc = "begin", !.role = r]]
  BY DEF CreateRoleForGate, CreateRole
<1> DEFINE s == [job["gate"] EXCEPT !.pc = "begin", !.role = r]
<1>2. job["gate"] \in GateJobs /\ copies \subseteq Copy
  BY DEF AccessInv, GateTypeInv, GateTypeOK
<1>4. s \in GateJobs /\ s.pc = "begin" /\ s.role = r
  BY <1>2 DEF GateJobs
<1>5. job' = [job EXCEPT !["gate"] = s]
  BY <1>1
<1> HIDE DEF s
<1>6. job'["gate"] = s
  BY <1>5, OneJob, Names DEF AccessInv
<1>7. ow' = ow /\ UNCHANGED <<people, forPro, clean, gateRole, mishaps>>
  BY DEF CreateRoleForGate, history
<1>8. \A c \in GatedChannels, q \in copies : Closed(c, q)' <=> Closed(c, q)
  BY <1>7 DEF Closed
<1>9. GateInv'
  BY <1>1, <1>4, <1>6, <1>7, <1>8 DEF GateInv, AccessInv
<1> QED
  BY <1>1, <1>2, <1>4, <1>5, <1>7, <1>9, GateQuiet DEF AccessInv, GateTypeInv, GateTypeOK

LEMMA BeginsGate ==
    ASSUME AccessInv, BeginGate
    PROVE  AccessInv'
<1>1. PICK bot \in BOOLEAN :
        /\ OrMishap(bot)
        /\ job' = [job EXCEPT !["gate"] =
                     [@ EXCEPT !.pc = "read", !.bot = bot, !.todo = GatedChannels, !.ok = bot]]
  BY DEF BeginGate
<1> DEFINE s == [job["gate"] EXCEPT !.pc = "read", !.bot = bot, !.todo = GatedChannels, !.ok = bot]
<1>2. job["gate"] \in GateJobs /\ copies \subseteq Copy /\ GatedChannels \subseteq Channel
  BY DEF AccessInv, GateTypeInv, GateTypeOK, GatedChannels, Channel
<1>4. /\ s \in GateJobs /\ s.pc = "read" /\ s.role = job["gate"].role /\ s.bot = bot
      /\ s.todo = GatedChannels /\ s.ok = bot
  BY <1>2 DEF GateJobs
<1>5. job' = [job EXCEPT !["gate"] = s]
  BY <1>1
<1> HIDE DEF s
<1>6. job'["gate"] = s
  BY <1>5, OneJob, Names DEF AccessInv
<1>7. ow' = ow /\ copies' = copies /\ UNCHANGED <<people, forPro, clean, gateRole>>
  BY DEF BeginGate, history
<1>8. \A c \in GatedChannels, q \in copies : Closed(c, q)' <=> Closed(c, q)
  BY <1>7 DEF Closed
<1>9. GateInv'
  BY <1>4, <1>6, <1>7, <1>8 DEF GateInv, AccessInv, BeginGate
<1>10. mishaps' \in 0 .. MaxMishaps
  BY <1>1, Counted
<1> QED
  BY <1>2, <1>4, <1>5, <1>7, <1>9, <1>10, GateQuiet DEF AccessInv, GateTypeInv, GateTypeOK

LEMMA ReadsChannel ==
    ASSUME AccessInv, NEW c \in Channel, ReadChannel(c)
    PROVE  AccessInv'
<1>1. /\ job["gate"] \in GateJobs /\ copies \subseteq Copy /\ ow[c] \in Views /\ Blank \in Views
      /\ job["gate"].pc = "read" /\ c \in job["gate"].todo
  BY DEF AccessInv, GateTypeInv, GateTypeOK, Views, Blank, View, ReadChannel, IsNext
<1>2. PICK s \in GateJobs :
        /\ job' = [job EXCEPT !["gate"] = s]
        /\ s.pc \in {"read", "write"} /\ s.role = job["gate"].role
        /\ s.bot = job["gate"].bot /\ s.todo \subseteq job["gate"].todo
        /\ s.ok = TRUE => s.todo = job["gate"].todo /\ job["gate"].ok = TRUE
        /\ s.pc = "write" => s.at = c /\ s.todo = job["gate"].todo
  <2> DEFINE got == [job["gate"] EXCEPT !.pc = "write", !.at = c, !.seen = ow[c]]
             empty == [job["gate"] EXCEPT !.pc = "write", !.at = c, !.seen = Blank, !.ok = FALSE]
             skipped == [job["gate"] EXCEPT !.todo = @ \ {c}, !.ok = FALSE]
  <2>1. \/ job' = [job EXCEPT !["gate"] = got] \/ job' = [job EXCEPT !["gate"] = empty]
        \/ job' = [job EXCEPT !["gate"] = skipped]
    BY DEF ReadChannel
  <2>2. /\ got \in GateJobs /\ got.pc = "write" /\ got.at = c /\ got.todo = job["gate"].todo
        /\ got.role = job["gate"].role /\ got.bot = job["gate"].bot /\ got.ok = job["gate"].ok
    BY <1>1 DEF GateJobs
  <2>3. /\ empty \in GateJobs /\ empty.pc = "write" /\ empty.at = c
        /\ empty.todo = job["gate"].todo /\ empty.ok = FALSE
        /\ empty.role = job["gate"].role /\ empty.bot = job["gate"].bot
    BY <1>1 DEF GateJobs
  <2>4. /\ skipped \in GateJobs /\ skipped.pc = "read" /\ skipped.todo \subseteq job["gate"].todo
        /\ skipped.ok = FALSE /\ skipped.role = job["gate"].role /\ skipped.bot = job["gate"].bot
    BY <1>1 DEF GateJobs
  <2> HIDE DEF got, empty, skipped
  <2> QED
    BY <2>1, <2>2, <2>3, <2>4
<1>3. job'["gate"] = s
  BY <1>2, OneJob, Names DEF AccessInv
<1>4. ow' = ow /\ copies' = copies /\ UNCHANGED <<people, forPro, clean, gateRole>>
  BY DEF ReadChannel, history
<1>5. \A d \in GatedChannels, q \in copies : Closed(d, q)' <=> Closed(d, q)
  BY <1>4 DEF Closed
<1>6. GateInv'
  BY <1>1, <1>2, <1>3, <1>4, <1>5 DEF GateInv, AccessInv
<1>7. mishaps' \in 0 .. MaxMishaps
  BY Counted DEF ReadChannel
<1> QED
  BY <1>1, <1>2, <1>4, <1>6, <1>7, GateQuiet DEF AccessInv, GateTypeInv, GateTypeOK

LEMMA EndsGate ==
    ASSUME AccessInv, EndGate
    PROVE  AccessInv'
<1>1. /\ job["gate"].pc = "read" /\ job["gate"].todo = {} /\ gateRole' = job["gate"].role
      /\ job' = [job EXCEPT !["gate"] = NoJob] /\ ow' = ow /\ copies' = copies
      /\ clean' = IF job["gate"].ok THEN clean \cup {"gate"} ELSE clean \ {"gate"}
      /\ UNCHANGED <<people, forPro, mishaps>>
  BY DEF EndGate, EndJob
<1>2. /\ job["gate"] \in GateJobs /\ copies \subseteq Copy /\ clean \subseteq Command
      /\ mishaps \in 0 .. MaxMishaps
  BY DEF AccessInv, GateTypeInv, GateTypeOK
<1>3. NoJob \in GateJobs /\ NoJob.pc = "idle"
  BY DEF NoJob, GateJobs, Views, Blank, View
<1>4. job'["gate"] = NoJob
  BY <1>1, OneJob, Names DEF AccessInv
<1>5. \A d \in GatedChannels, q \in copies : Closed(d, q)' <=> Closed(d, q)
  BY <1>1 DEF Closed
<1>6. job["gate"].ok = TRUE => /\ job["gate"].role \in copies
                               /\ \A c \in GatedChannels : Closed(c, job["gate"].role)
  BY <1>1 DEF AccessInv, GateInv
<1>7. "gate" \in clean' => job["gate"].ok = TRUE
  BY <1>1, <1>2 DEF GateJobs
<1>8. GateInv'
  BY <1>1, <1>3, <1>4, <1>5, <1>6, <1>7 DEF GateInv
<1>9. clean' \ {"gate"} \subseteq clean /\ clean' \subseteq Command
  BY <1>1, <1>2, Names
<1> QED
  BY <1>1, <1>2, <1>3, <1>8, <1>9, GateQuiet

\* What is written to a channel: all as it was read, but for three roles.
LEMMA Gated ==
    ASSUME NEW c \in Channel, NEW seen \in Views, NEW s \in GateJobs, s.role \in Copy
    PROVE  /\ GatedView(c, seen, s) \in Views
           /\ GatedView(c, seen, s)["everyone"] = IF c \in Public THEN "allow" ELSE "deny"
           /\ GatedView(c, seen, s)[s.role] = IF c \in Preview THEN "allow" ELSE "deny"
           /\ s.bot = TRUE \/ seen["bot"] = "allow" => GatedView(c, seen, s)["bot"] = "allow"
           /\ \A q \in GuildRole \ {"everyone", s.role, "bot"} : GatedView(c, seen, s)[q] = seen[q]
<1>1. s.role \in GuildRole \ {"everyone", "bot"} /\ {"everyone", "bot"} \subseteq GuildRole
  BY Names
<1>2. seen \in [GuildRole -> View] /\ {"allow", "deny"} \subseteq View
  BY DEF Views, View
<1> QED
  BY <1>1, <1>2 DEF GatedView, Views, GateJobs

LEMMA WriteFails ==
    ASSUME AccessInv, UNCHANGED <<ow, clean, forPro, copies, people, gateRole>>, Mishap,
           NEW s \in GateJobs, job' = [job EXCEPT !["gate"] = s], s.pc = "read", s.ok = FALSE,
           s.role = job["gate"].role, s.todo \subseteq job["gate"].todo,
           job["gate"].pc = "write"
    PROVE  AccessInv'
<1>1. copies \subseteq Copy /\ clean \subseteq Command
  BY DEF AccessInv, GateTypeInv, GateTypeOK
<1>2. job'["gate"] = s
  BY OneJob, Names DEF AccessInv
<1>3. \A d \in GatedChannels, q \in copies : Closed(d, q)' <=> Closed(d, q)
  BY DEF Closed
<1>4. GateInv'
  BY <1>2, <1>3 DEF GateInv, AccessInv
<1>5. mishaps' \in 0 .. MaxMishaps
  BY Counted
<1> QED
  BY <1>1, <1>4, <1>5, GateQuiet

\* One channel is written, with what lemma Gated says of it: V, for the role r, made of
\* what was seen; lost says whether something else was there in the meantime.
Rewritten(c, V, r, seen, lost) ==
    /\ lost = "no" => seen = ow[c]
    /\ ow'[c] = V /\ \A d \in Channel \ {c} : ow'[d] = ow[d]
    /\ V["everyone"] = IF c \in Public THEN "allow" ELSE "deny"
    /\ V[r] = IF c \in Preview THEN "allow" ELSE "deny"
    /\ job["gate"].bot = TRUE \/ seen["bot"] = "allow" => V["bot"] = "allow"
    /\ \A q \in GuildRole \ {"everyone", r, "bot"} : V[q] = seen[q]
    /\ clean' = IF lost = "yes" THEN {} ELSE clean
    /\ \A j \in Syncs : IF lost = "yes" THEN /\ job'[j].pc = job[j].pc
                                             /\ job'[j].todo = job[j].todo
                                             /\ job[j].pc # "idle" => job'[j].ok = FALSE
                                        ELSE job'[j] = job[j]
    /\ forPro' = IF lost = "yes" THEN forPro \ {c} ELSE forPro

LEMMA WriteKeepsGate ==
    ASSUME AccessInv, NEW c \in Channel, NEW V \in Views, NEW r \in copies, NEW seen \in Views,
           NEW lost \in {"yes", "no"}, Rewritten(c, V, r, seen, lost),
           job["gate"].pc = "write", job["gate"].role = r,
           NEW s \in GateJobs, job'["gate"] = s, s.pc = "read", s.todo = job["gate"].todo \ {c},
           s.role = r, s.bot = job["gate"].bot, s.ok = job["gate"].ok,
           copies' = copies, gateRole' = gateRole
    PROVE  GateInv'
<1>1. copies \subseteq Copy
  BY DEF AccessInv, GateTypeInv, GateTypeOK
<1>2. GatedChannels \subseteq Channel
  BY DEF GatedChannels, Channel
<1>3. \A d \in GatedChannels \ {c}, q \in copies : Closed(d, q) => Closed(d, q)'
  BY <1>2 DEF Closed, Rewritten
<1>4. ASSUME lost = "no", NEW q \in copies, Closed(c, q)
      PROVE  Closed(c, q)'
  <2>1. q = r \/ q \in GuildRole \ {"everyone", r, "bot"}
    BY <1>1, Names
  <2>2. seen = ow[c]
    BY <1>4 DEF Rewritten
  <2>3. V[q] = IF c \in Preview THEN "allow" ELSE "deny"
    BY <1>4, <2>1, <2>2 DEF Closed, Rewritten
  <2> QED
    BY <1>4, <2>2, <2>3 DEF Closed, Rewritten
<1>5. "gate" \in clean' => gateRole \in copies /\ \A d \in GatedChannels : Closed(d, gateRole)'
  <2>1. "gate" \in clean' => "gate" \in clean /\ lost = "no"
    BY DEF Rewritten
  <2> QED
    BY <1>3, <1>4, <2>1 DEF AccessInv, GateInv
<1>6. ASSUME s.ok = TRUE
      PROVE  s.bot = TRUE /\ \A d \in GatedChannels \ s.todo : Closed(d, r)'
  <2>1. job["gate"].bot = TRUE /\ \A d \in GatedChannels \ job["gate"].todo : Closed(d, r)
    BY <1>6 DEF AccessInv, GateInv
  <2>2. Closed(c, r)'
    BY <2>1 DEF Closed, Rewritten
  <2> QED
    BY <1>3, <2>1, <2>2
<1>7. s.todo \subseteq GatedChannels
  BY DEF AccessInv, GateInv
<1> QED
  BY <1>5, <1>6, <1>7 DEF GateInv

LEMMA WriteKeepsCopies ==
    ASSUME AccessInv, NEW c \in Channel, NEW V \in Views, NEW r \in Copy, NEW seen \in Views,
           NEW lost \in {"yes", "no"}, Rewritten(c, V, r, seen, lost)
    PROVE  SyncInv'
<1>1. ASSUME NEW j \in Syncs
      PROVE  CopyInv(j)'
  <2>1. CopyInv(j)
    BY DEF AccessInv, SyncInv
  <2>2. CASE lost = "yes"
    <3>1. /\ job'[j].pc = job[j].pc /\ job'[j].todo = job[j].todo
          /\ job[j].pc # "idle" => job'[j].ok = FALSE
          /\ j \notin clean'
      BY <2>2 DEF Rewritten
    <3> QED
      BY <2>1, <3>1, CopySpoilt
  <2>3. CASE lost = "no"
    <3>1. {"pro", j} \subseteq GuildRole \ {"everyone", r, "bot"}
      BY Names
    <3>2. \A d \in Channel : ow'[d]["pro"] = ow[d]["pro"] /\ ow'[d][j] = ow[d][j]
      BY <2>3, <3>1 DEF Rewritten
    <3>3. job'[j] = job[j] /\ clean' = clean
      BY <2>3 DEF Rewritten
    <3> QED
      BY <2>1, <3>2, <3>3, CopyFrame
  <2> QED
    BY <2>2, <2>3
<1> QED
  BY <1>1 DEF SyncInv

LEMMA WriteKeepsPro ==
    ASSUME AccessInv, NEW c \in Channel, NEW V \in Views, NEW r \in Copy, NEW seen \in Views,
           NEW lost \in {"yes", "no"}, Rewritten(c, V, r, seen, lost)
    PROVE  ProInv'
<1>1. "pro" \in GuildRole \ {"everyone", r, "bot"}
  BY Names
<1>2. ASSUME NEW d \in forPro'
      PROVE  ow'[d]["pro"] = "allow"
  <2>1. d \in forPro /\ ow[d]["pro"] = "allow" /\ d \in Channel
    BY DEF AccessInv, ProInv, GateTypeInv, GateTypeOK, Rewritten
  <2>2. CASE d = c
    BY <1>1, <2>1, <2>2 DEF Rewritten
  <2>3. CASE d # c
    BY <2>1, <2>3 DEF Rewritten
  <2> QED
    BY <2>2, <2>3
<1> QED
  BY <1>2 DEF ProInv

LEMMA SpoiltIs ==
    ASSUME GateTypeInv, NEW j \in Syncs
    PROVE  /\ job[j] \in SyncJobs /\ Spoilt(j) \in SyncJobs /\ Spoilt(j).pc = job[j].pc
           /\ Spoilt(j).todo = job[j].todo
           /\ job[j].pc # "idle" => Spoilt(j).ok = FALSE
<1>1. job[j] \in SyncJobs
  BY DEF GateTypeInv
<1> QED
  BY <1>1 DEF Spoilt, SyncJobs

LEMMA WritesChannel ==
    ASSUME AccessInv, WriteChannel
    PROVE  AccessInv'
<1> DEFINE s == [job["gate"] EXCEPT !.pc = "read", !.todo = @ \ {job["gate"].at},
                                    !.at = "", !.seen = Blank]
           z == [s EXCEPT !.ok = FALSE]
<1>1. /\ job["gate"] \in GateJobs /\ Blank \in Views /\ copies \subseteq Copy
      /\ ow \in [Channel -> Views] /\ clean \subseteq Command /\ forPro \subseteq Channel
  BY DEF AccessInv, GateTypeInv, GateTypeOK, Views, Blank, View
<1>2. job["gate"].pc = "write" /\ UNCHANGED <<copies, people, gateRole>>
  BY DEF WriteChannel
<1>3. PICK c \in Channel : c = job["gate"].at
  BY <1>1, <1>2 DEF AccessInv, GateInv, GateJobs
<1>4. PICK r \in copies : r = job["gate"].role
  BY <1>2 DEF AccessInv, GateInv
<1>5. PICK seen \in Views : seen = job["gate"].seen
  BY <1>1 DEF GateJobs
<1>6. /\ s \in GateJobs /\ s.pc = "read" /\ s.todo = job["gate"].todo \ {c} /\ s.role = r
      /\ s.bot = job["gate"].bot /\ s.ok = job["gate"].ok
  BY <1>1, <1>3, <1>4 DEF GateJobs
<1>7. /\ z \in GateJobs /\ z.pc = "read" /\ z.todo \subseteq job["gate"].todo /\ z.role = r
      /\ z.ok = FALSE
  BY <1>1, <1>4 DEF GateJobs
<1>8. CASE /\ Mishap /\ job' = [job EXCEPT !["gate"] = z] /\ UNCHANGED <<ow, clean, forPro>>
  <2> HIDE DEF s, z
  <2> QED
    BY <1>2, <1>4, <1>7, <1>8, WriteFails
<1>9. ASSUME ow' = [ow EXCEPT ![c] = GatedView(c, seen, job["gate"])],
             NEW lost \in {"yes", "no"}, lost = "no" <=> seen = ow[c],
             job' = [j \in Command |-> IF j = "gate" THEN s
                                       ELSE IF lost = "yes" THEN Spoilt(j)
                                            ELSE job[j]],
             clean' = IF lost = "yes" THEN {} ELSE clean,
             forPro' = IF lost = "yes" THEN forPro \ {c} ELSE forPro, mishaps' = mishaps
      PROVE  AccessInv'
  <2> HIDE DEF s, z
  <2> DEFINE V == GatedView(c, seen, job["gate"])
  <2>1. job["gate"].role \in Copy /\ job["gate"].bot \in BOOLEAN /\ r \in Copy
    BY <1>1, <1>4 DEF GateJobs
  <2>2. /\ V \in Views
        /\ V["everyone"] = IF c \in Public THEN "allow" ELSE "deny"
        /\ V[r] = IF c \in Preview THEN "allow" ELSE "deny"
        /\ job["gate"].bot = TRUE \/ seen["bot"] = "allow" => V["bot"] = "allow"
        /\ \A q \in GuildRole \ {"everyone", r, "bot"} : V[q] = seen[q]
    <3>1. PICK g \in GateJobs : g = job["gate"]
      BY <1>1
    <3>2. g.role = r /\ r \in Copy
      BY <1>4, <2>1, <3>1
    <3>3. /\ GatedView(c, seen, g) \in Views
          /\ GatedView(c, seen, g)["everyone"] = IF c \in Public THEN "allow" ELSE "deny"
          /\ GatedView(c, seen, g)[g.role] = IF c \in Preview THEN "allow" ELSE "deny"
          /\ g.bot = TRUE \/ seen["bot"] = "allow" => GatedView(c, seen, g)["bot"] = "allow"
          /\ \A q \in GuildRole \ {"everyone", g.role, "bot"} : GatedView(c, seen, g)[q] = seen[q]
      BY <3>2, Gated
    <3> QED
      BY <3>1, <3>2, <3>3
  <2>3. ow'[c] = V /\ (\A d \in Channel \ {c} : ow'[d] = ow[d]) /\ ow' \in [Channel -> Views]
    BY <1>1, <1>9, <2>2
  <2> HIDE DEF V
  <2>4. lost = "no" => seen = ow[c]
    BY <1>9
  <2>5. /\ job'["gate"] = s /\ DOMAIN job' = Command /\ job' = [j \in Command |-> job'[j]]
        /\ \A j \in Syncs : job'[j] = IF lost = "yes" THEN Spoilt(j) ELSE job[j]
    BY <1>9, Names
  <2>5a. \A j \in Syncs : IF lost = "yes" THEN /\ job'[j].pc = job[j].pc
                                               /\ job'[j].todo = job[j].todo
                                               /\ job[j].pc # "idle" => job'[j].ok = FALSE
                                         ELSE job'[j] = job[j]
    BY <2>5, SpoiltIs DEF AccessInv
  <2>6. Rewritten(c, V, r, seen, lost)
    <3>1. /\ clean' = IF lost = "yes" THEN {} ELSE clean
          /\ forPro' = IF lost = "yes" THEN forPro \ {c} ELSE forPro
      BY <1>9
    <3> QED
      BY <2>2, <2>3, <2>4, <2>5a, <3>1 DEF Rewritten
  <2>7. GateInv'
    BY <1>2, <1>4, <1>6, <2>2, <2>5, <2>6, WriteKeepsGate
  <2>8. SyncInv'
    BY <2>1, <2>2, <2>6, WriteKeepsCopies
  <2>9. ProInv'
    BY <2>1, <2>2, <2>6, WriteKeepsPro
  <2>10. GateTypeInv'
    <3>1. \A j \in Syncs : job'[j] \in SyncJobs
      BY <2>5, SpoiltIs DEF AccessInv
    <3>2. ow' \in [Channel -> Views]
      BY <2>3
    <3>3. clean' \subseteq Command /\ forPro' \subseteq Channel
      BY <1>1, <1>9
    <3> QED
      BY <1>1, <1>2, <1>6, <1>9, <2>5, <3>1, <3>2, <3>3
      DEF AccessInv, GateTypeInv, GateTypeOK, Views, people
  <2>11. AcceptInv'
    BY <1>2 DEF AccessInv, AcceptInv, people
  <2> QED
    BY <2>7, <2>8, <2>9, <2>10, <2>11 DEF AccessInv
<1>10. CASE /\ ow' = [ow EXCEPT ![c] = GatedView(c, seen, job["gate"])]
            /\ job' = [j \in Command |-> IF j = "gate" THEN s
                                        ELSE IF seen # ow[c] THEN Spoilt(j)
                                             ELSE job[j]]
            /\ clean' = IF seen # ow[c] THEN {} ELSE clean
            /\ forPro' = IF seen # ow[c] THEN forPro \ {c} ELSE forPro
            /\ mishaps' = mishaps
  <2> HIDE DEF s, z
  <2>1. CASE seen # ow[c]
    BY <1>9, <1>10, <2>1
  <2>2. CASE seen = ow[c]
    BY <1>9, <1>10, <2>2
  <2> QED
    BY <2>1, <2>2
<1> QED
  BY <1>3, <1>5, <1>8, <1>10 DEF WriteChannel

\* A step of a command that copies touches the overwrites of its role only.
LEMMA SyncQuiet ==
    ASSUME AccessInv, NEW j \in Syncs, NEW s \in SyncJobs, job' = [job EXCEPT ![j] = s],
           ow' \in [Channel -> Views],
           \A c \in Channel : \A q \in GuildRole \ {j} : ow'[c][q] = ow[c][q],
           UNCHANGED <<copies, people, gateRole, forPro>>, mishaps' \in 0 .. MaxMishaps,
           clean' \ {j} \subseteq clean, clean' \subseteq Command, CopyInv(j)'
    PROVE  AccessInv'
<1>1. /\ job'[j] = s /\ DOMAIN job' = Command /\ job' = [k \in Command |-> job'[k]]
      /\ \A k \in Command \ {j} : job'[k] = job[k]
  BY OneJob, Names DEF AccessInv
<1>2. GateTypeInv'
  BY <1>1, Names DEF AccessInv, GateTypeInv, GateTypeOK, people, Views
<1>3. GateInv'
  <2>1. \A r \in Copy \cup {"everyone", "bot"} : r \in GuildRole \ {j}
    BY Names
  <2>2. copies \subseteq Copy /\ GateInv
    BY DEF AccessInv, GateTypeInv, GateTypeOK
  <2>3. job'["gate"] = job["gate"] /\ ("gate" \in clean' => "gate" \in clean)
    BY <1>1, Names
  <2> QED
    BY <2>1, <2>2, <2>3, GateFrame
<1>4. SyncInv'
  <2>1. ASSUME NEW k \in Syncs, k # j
        PROVE  CopyInv(k)'
    <3>1. {k, "pro"} \subseteq GuildRole \ {j} /\ k \in Command \ {j}
      BY <2>1, Names
    <3>2. CopyInv(k) /\ job'[k] = job[k] /\ (k \in clean' => k \in clean)
      BY <1>1, <2>1, <3>1 DEF AccessInv, SyncInv
    <3> QED
      BY <3>1, <3>2, CopyFrame
  <2> QED
    BY <2>1 DEF SyncInv
<1>5. ProInv'
  <2>1. "pro" \in GuildRole \ {j} /\ forPro \subseteq Channel
    BY Names DEF AccessInv, GateTypeInv, GateTypeOK
  <2> QED
    BY <2>1 DEF AccessInv, ProInv
<1>6. AcceptInv'
  BY DEF AccessInv, AcceptInv, people
<1> QED
  BY <1>2, <1>3, <1>4, <1>5, <1>6 DEF AccessInv

LEMMA Sources ==
    ASSUME GateTypeInv, NEW j \in Syncs
    PROVE  /\ job[j] \in SyncJobs /\ ow \in [Channel -> Views] /\ Excluded(j) \subseteq Channel
           /\ clean \subseteq Command /\ copies \subseteq Copy /\ forPro \subseteq Channel
           /\ mishaps \in 0 .. MaxMishaps
  BY GuildAssumption
  DEF GateTypeInv, GateTypeOK, Views, Excluded, Children, Channel

LEMMA StartsSync ==
    ASSUME AccessInv, NEW j \in Syncs, StartSync(j)
    PROVE  AccessInv'
<1> DEFINE puts == Missing(j, CopiesOf(j))
           s == [job[j] EXCEPT !.pc = "copy", !.todo = puts]
<1>1. /\ job[j] \in SyncJobs /\ ow \in [Channel -> Views] /\ clean \subseteq Command
  BY Sources DEF AccessInv
<1>2. puts \subseteq (Channel \ Excluded(j)) \X View
      /\ \A p \in puts : ow[p[1]]["pro"] # "absent" /\ p[2] = Normalized(ow[p[1]]["pro"])
  BY DEF Missing, CopiesOf, Normalized, View
<1>3. \A c \in Channel \ Excluded(j) : Passed(j, c) \/ <<c, "allow">> \in puts
  <2> SUFFICES ASSUME NEW c \in Channel \ Excluded(j), ow[c]["pro"] = "allow", ow[c][j] # "allow"
               PROVE  <<c, "allow">> \in Missing(j, CopiesOf(j))
    BY DEF Passed
  <2>1. Normalized(ow[c]["pro"]) = "allow"
    BY DEF Normalized
  <2>2. <<c, "allow">> \in CopiesOf(j)
    BY <2>1 DEF CopiesOf
  <2> QED
    BY <2>2 DEF Missing
<1>4. ow' = ow /\ clean' = clean /\ UNCHANGED <<copies, people, gateRole, forPro>>
  BY DEF StartSync, history
<1>5. job' = [job EXCEPT ![j] = s]
  BY DEF StartSync
<1> HIDE DEF puts
<1>6. s \in SyncJobs /\ s.pc = "copy" /\ s.todo = puts
  <2>1. puts \subseteq Puts
    BY <1>2 DEF Puts
  <2> QED
    BY <1>1, <2>1 DEF SyncJobs
<1> HIDE DEF s
<1>7. job'[j] = s
  BY <1>5, OneJob, Names DEF AccessInv
<1>8. Accurate(j)'
  BY <1>2, <1>4, <1>6, <1>7 DEF Accurate
<1>9. (Opened(j) => Opened(j)') /\ \A c \in Channel : Passed(j, c)' <=> Passed(j, c)
  BY <1>4 DEF Opened, Passed
<1>10. CopyInv(j)'
  BY <1>2, <1>3, <1>4, <1>6, <1>7, <1>8, <1>9 DEF CopyInv, AccessInv, SyncInv
<1>11. mishaps' \in 0 .. MaxMishaps
  BY Counted DEF StartSync
<1> QED
  BY <1>1, <1>4, <1>5, <1>6, <1>10, <1>11, SyncQuiet

LEMMA StartsDeny ==
    ASSUME AccessInv, NEW j \in Syncs, StartDeny(j)
    PROVE  AccessInv'
<1> DEFINE puts == Missing(j, DenialsOf(j))
           s == [job[j] EXCEPT !.pc = "deny", !.todo = puts]
<1>1. /\ job[j] \in SyncJobs /\ ow \in [Channel -> Views] /\ clean \subseteq Command
      /\ Excluded(j) \subseteq Channel
  BY Sources DEF AccessInv
<1>2. puts \subseteq Excluded(j) \X {"deny"}
      /\ \A c \in Excluded(j) : ow[c][j] = "deny" \/ <<c, "deny">> \in puts
  BY DEF Missing, DenialsOf
<1>3. job[j].ok = TRUE => \A c \in Channel \ Excluded(j) : Passed(j, c)
  BY DEF StartDeny, AccessInv, SyncInv, CopyInv
<1>4. ow' = ow /\ clean' = clean /\ UNCHANGED <<copies, people, gateRole, forPro, mishaps>>
  BY DEF StartDeny, history
<1>5. job' = [job EXCEPT ![j] = s]
  BY DEF StartDeny
<1> HIDE DEF puts
<1>6. s \in SyncJobs /\ s.pc = "deny" /\ s.todo = puts /\ s.ok = job[j].ok
  <2>1. puts \subseteq Puts
    BY <1>1, <1>2 DEF Puts, View
  <2> QED
    BY <1>1, <2>1 DEF SyncJobs
<1> HIDE DEF s
<1>7. job'[j] = s
  BY <1>5, OneJob, Names DEF AccessInv
<1>8. (Opened(j) => Opened(j)') /\ \A c \in Channel : Passed(j, c)' <=> Passed(j, c)
  BY <1>4 DEF Opened, Passed
<1>9. CopyInv(j)'
  BY <1>2, <1>3, <1>4, <1>6, <1>7, <1>8 DEF CopyInv, AccessInv, SyncInv
<1>10. mishaps' \in 0 .. MaxMishaps
  BY <1>4, Sources DEF AccessInv
<1> QED
  BY <1>1, <1>4, <1>5, <1>6, <1>9, <1>10, SyncQuiet

LEMMA EndsSync ==
    ASSUME AccessInv, NEW j \in Syncs, EndSync(j)
    PROVE  AccessInv'
<1>1. /\ job[j] \in SyncJobs /\ ow \in [Channel -> Views] /\ clean \subseteq Command
      /\ mishaps \in 0 .. MaxMishaps
  BY Sources DEF AccessInv
<1>2. /\ job[j].pc = "deny" /\ job[j].todo = {} /\ job' = [job EXCEPT ![j] = NoJob]
      /\ clean' = IF job[j].ok THEN clean \cup {j} ELSE clean \ {j}
      /\ ow' = ow /\ UNCHANGED <<copies, people, gateRole, forPro, mishaps>>
  BY DEF EndSync, EndJob
<1>3. NoJob \in SyncJobs /\ NoJob.pc = "idle"
  BY DEF NoJob, SyncJobs, Views, Blank, View, Puts
<1>4. job'[j] = NoJob
  BY <1>2, OneJob, Names DEF AccessInv
<1>5. job[j].ok = TRUE => Opened(j)
  BY <1>2 DEF AccessInv, SyncInv, CopyInv, Opened
<1>6. j \in clean' => job[j].ok = TRUE
  BY <1>1, <1>2 DEF SyncJobs
<1>7. Opened(j) => Opened(j)'
  BY <1>2 DEF Opened, Passed
<1>8. CopyInv(j)'
  BY <1>3, <1>4, <1>5, <1>6, <1>7 DEF CopyInv
<1>9. clean' \ {j} \subseteq clean /\ clean' \subseteq Command
  BY <1>1, <1>2, Names
<1> QED
  BY <1>1, <1>2, <1>3, <1>8, <1>9, SyncQuiet

LEMMA PutsView ==
    ASSUME AccessInv, NEW j \in Syncs, PutView(j)
    PROVE  AccessInv'
<1>1. /\ job[j] \in SyncJobs /\ ow \in [Channel -> Views] /\ clean \subseteq Command
      /\ Excluded(j) \subseteq Channel /\ CopyInv(j)
  BY Sources DEF AccessInv, SyncInv
<1>2. job[j].pc \in {"copy", "deny"} /\ clean' = clean
      /\ UNCHANGED <<copies, people, gateRole, forPro>>
  BY DEF PutView, history
<1>3. PICK put \in job[j].todo :
        \/ /\ ow' = [ow EXCEPT ![put[1]][j] = put[2]]
           /\ job' = [job EXCEPT ![j].todo = @ \ {put}] /\ UNCHANGED mishaps
        \/ /\ Mishap /\ ow' = ow
           /\ job' = [job EXCEPT ![j] = [job[j] EXCEPT !.todo = @ \ {put}, !.ok = FALSE]]
  BY DEF PutView
<1>4. PICK c \in Channel, v \in View : put = <<c, v>>
  <2>1. put \in Puts
    BY <1>1, <1>3 DEF SyncJobs
  <2> QED
    BY <2>1 DEF Puts
<1>5. mishaps' \in 0 .. MaxMishaps
  BY <1>3, Counted
<1>6. CASE /\ Mishap /\ ow' = ow
           /\ job' = [job EXCEPT ![j] = [job[j] EXCEPT !.todo = @ \ {put}, !.ok = FALSE]]
  <2> DEFINE s == [job[j] EXCEPT !.todo = @ \ {put}, !.ok = FALSE]
  <2>1. s \in SyncJobs /\ s.pc = job[j].pc /\ s.todo = job[j].todo \ {put} /\ s.ok = FALSE
    BY <1>1 DEF SyncJobs
  <2>2. job' = [job EXCEPT ![j] = s]
    BY <1>6
  <2> HIDE DEF s
  <2>3. job'[j] = s
    BY <2>2, OneJob, Names DEF AccessInv
  <2>4. (Opened(j) => Opened(j)') /\ \A d \in Channel : Passed(j, d)' <=> Passed(j, d)
    BY <1>6 DEF Opened, Passed
  <2>5. Accurate(j) => Accurate(j)'
    BY <1>6, <2>1, <2>3 DEF Accurate
  <2>6. CopyInv(j)'
    BY <1>1, <1>2, <2>1, <2>3, <2>4, <2>5 DEF CopyInv
  <2> QED
    BY <1>1, <1>2, <1>5, <1>6, <2>1, <2>2, <2>6, SyncQuiet
<1>7. CASE /\ ow' = [ow EXCEPT ![put[1]][j] = put[2]]
           /\ job' = [job EXCEPT ![j].todo = @ \ {put}]
  <2> DEFINE s == [job[j] EXCEPT !.todo = @ \ {put}]
  <2>1. /\ s \in SyncJobs /\ s.pc = job[j].pc /\ s.todo = job[j].todo \ {put}
        /\ s.ok = job[j].ok
    BY <1>1 DEF SyncJobs
  <2>2. job' = [job EXCEPT ![j] = s]
    BY <1>7
  <2> HIDE DEF s
  <2>3. job'[j] = s
    BY <2>2, OneJob, Names DEF AccessInv
  <2>4. /\ ow'[c][j] = v /\ ow' \in [Channel -> Views]
        /\ \A d \in Channel : \A q \in GuildRole : d # c \/ q # j => ow'[d][q] = ow[d][q]
    BY <1>1, <1>4, <1>7, Names DEF Views
  <2>5. j \in GuildRole /\ "pro" \in GuildRole \ {j}
    BY Names
  <2>6. \A d \in Channel : d # c => (Passed(j, d)' <=> Passed(j, d))
    BY <2>4, <2>5 DEF Passed
  <2>7. Accurate(j) => Accurate(j)'
    <3>1. \A p \in job[j].todo : p[1] \in Channel
      BY <1>1 DEF SyncJobs, Puts
    <3> QED
      BY <2>1, <2>3, <2>4, <2>5, <3>1 DEF Accurate
  <2>8. CopyInv(j)'
    <3>1. CASE job[j].pc = "copy"
      <4>1. c \in Channel \ Excluded(j)
        BY <1>1, <1>4, <3>1 DEF CopyInv
      <4>2. Accurate(j) => Passed(j, c)'
        <5> SUFFICES ASSUME Accurate(j), ow'[c]["pro"] = "allow"
                     PROVE  ow'[c][j] = "allow"
          BY DEF Passed
        <5>1. ow[c]["pro"] = "allow" /\ v = Normalized(ow[c]["pro"])
          BY <1>4, <2>4, <2>5 DEF Accurate
        <5> QED
          BY <2>4, <5>1 DEF Normalized
      <4>3. j \in clean => Opened(j)'
        BY <1>1, <2>4, <2>5, <2>6, <3>1, <4>1, <4>2 DEF CopyInv, Opened
      <4>4. job[j].ok = TRUE =>
              \A d \in Channel \ Excluded(j) : Passed(j, d)' \/ <<d, "allow">> \in s.todo
        BY <1>1, <1>4, <2>1, <2>6, <3>1, <4>2 DEF CopyInv
      <4> QED
        BY <1>1, <1>2, <2>1, <2>3, <2>7, <3>1, <4>3, <4>4 DEF CopyInv
    <3>2. CASE job[j].pc = "deny"
      <4>1. c \in Excluded(j) /\ v = "deny"
        BY <1>1, <1>4, <3>2 DEF CopyInv
      <4>2. j \in clean => Opened(j)'
        BY <1>1, <2>4, <2>5, <2>6, <4>1 DEF CopyInv, Opened
      <4>3. job[j].ok = TRUE =>
              /\ \A d \in Channel \ Excluded(j) : Passed(j, d)'
              /\ \A d \in Excluded(j) : ow'[d][j] = "deny" \/ <<d, "deny">> \in s.todo
        BY <1>1, <1>4, <2>1, <2>4, <2>5, <2>6, <3>2, <4>1 DEF CopyInv
      <4> QED
        BY <1>1, <1>2, <2>1, <2>3, <3>2, <4>2, <4>3 DEF CopyInv
    <3> QED
      BY <1>2, <3>1, <3>2
  <2>9. \A d \in Channel : \A q \in GuildRole \ {j} : ow'[d][q] = ow[d][q]
    BY <2>4
  <2> QED
    BY <1>1, <1>2, <1>5, <2>1, <2>2, <2>4, <2>8, <2>9, SyncQuiet
<1> QED
  BY <1>3, <1>6, <1>7

-----------------------------------------------------------------------------
(* The admin and the members. *)

LEMMA Edits ==
    ASSUME AccessInv, NEW c \in Channel, NEW v \in {"allow", "absent"}, AdminEdit(c, v)
    PROVE  AccessInv'
<1>1. /\ ow \in [Channel -> Views] /\ clean \subseteq Command /\ copies \subseteq Copy
      /\ forPro \subseteq Channel
  BY DEF AccessInv, GateTypeInv, GateTypeOK, Views
<1>2. /\ ow' = [ow EXCEPT ![c]["pro"] = v] /\ UNCHANGED <<copies, people, gateRole>>
      /\ forPro' = IF v = "allow" THEN forPro \cup {c} ELSE forPro \ {c}
      /\ clean' = clean \cap {"gate"}
      /\ job' = [j \in Command |-> IF j = "gate" THEN job[j]
                                   ELSE Spoilt(j)]
  BY DEF AdminEdit
<1>3. /\ ow' \in [Channel -> Views] /\ ow'[c]["pro"] = v
      /\ \A d \in Channel : \A q \in GuildRole : d # c \/ q # "pro" => ow'[d][q] = ow[d][q]
  BY <1>1, <1>2, Names DEF Views, View
<1>4. /\ job'["gate"] = job["gate"] /\ DOMAIN job' = Command /\ job' = [j \in Command |-> job'[j]]
      /\ \A j \in Syncs : job'[j] = Spoilt(j)
  BY <1>2, Names
<1>5. \A j \in Syncs : /\ job'[j] \in SyncJobs /\ job'[j].pc = job[j].pc
                       /\ job'[j].todo = job[j].todo
                       /\ job[j].pc # "idle" => job'[j].ok = FALSE
  BY <1>4, SpoiltIs DEF AccessInv
<1>6. mishaps' \in 0 .. MaxMishaps
  BY Counted DEF AdminEdit
<1>7. GateTypeInv'
  BY <1>1, <1>2, <1>3, <1>4, <1>5, <1>6 DEF AccessInv, GateTypeInv, GateTypeOK, people, Views
<1>8. GateInv'
  <2>1. \A r \in Copy \cup {"everyone", "bot"} : r \in GuildRole /\ r # "pro"
    BY Names
  <2>2. GateInv /\ ("gate" \in clean' => "gate" \in clean)
    BY <1>2 DEF AccessInv
  <2>3. \A d \in Channel, r \in Copy \cup {"everyone", "bot"} : ow'[d][r] = ow[d][r]
    BY <1>3, <2>1
  <2> QED
    BY <1>1, <1>2, <1>4, <2>2, <2>3, GateFrame
<1>9. SyncInv'
  <2>1. ASSUME NEW j \in Syncs
        PROVE  CopyInv(j)'
    <3>1. CopyInv(j) /\ j \notin clean'
      BY <1>2, Names DEF AccessInv, SyncInv
    <3> QED
      BY <1>5, <3>1, CopySpoilt
  <2> QED
    BY <2>1 DEF SyncInv
<1>10. ProInv'
  <2>1. "pro" \in GuildRole
    BY Names
  <2> QED
    BY <1>1, <1>2, <1>3, <2>1 DEF AccessInv, ProInv
<1>11. AcceptInv'
  BY <1>2 DEF AccessInv, AcceptInv, people
<1> QED
  BY <1>7, <1>8, <1>9, <1>10, <1>11 DEF AccessInv

\* A step of a member.
LEMMA PeopleStep ==
    ASSUME AccessInv, UNCHANGED <<ow, job, gateRole, clean, forPro>>, copies \subseteq copies',
           copies' \subseteq Copy, mishaps' \in 0 .. MaxMishaps,
           accept' \in [Accepting -> Clicks], has' \in [Accepting -> SUBSET Copy],
           told' \subseteq Accepting, AcceptInv'
    PROVE  AccessInv'
<1>1. GateTypeInv'
  BY DEF AccessInv, GateTypeInv, GateTypeOK
<1>2. GateInv'
  BY GateFrame DEF AccessInv, GateTypeInv, GateTypeOK
<1>3. SyncInv'
  BY CopyFrame DEF AccessInv, SyncInv
<1>4. ProInv'
  BY DEF AccessInv, ProInv
<1> QED
  BY <1>1, <1>2, <1>3, <1>4 DEF AccessInv

LEMMA Clicked ==
    ASSUME AccessInv, NEW m \in Accepting, ClickAccept(m)
    PROVE  AccessInv'
<1>1. /\ copies \subseteq Copy /\ accept \in [Accepting -> Clicks] /\ told \subseteq Accepting
      /\ has \in [Accepting -> SUBSET Copy] /\ mishaps \in 0 .. MaxMishaps
  BY DEF AccessInv, GateTypeInv, GateTypeOK
<1>2. UNCHANGED <<ow, copies, job, has, gateRole, clean, forPro, mishaps>>
  BY DEF ClickAccept, history
<1>3. PICK r \in Found :
        IF r \in has[m] THEN told' = told \cup {m} /\ UNCHANGED accept
        ELSE /\ accept' = [accept EXCEPT ![m] = [pc |-> IF r = "" THEN "create" ELSE "add",
                                                 role |-> r]]
             /\ UNCHANGED told
  BY DEF ClickAccept
<1>4. r \in Copy \cup {""} /\ (r # "" => r \in copies)
  BY <1>1 DEF Found
<1>5. accept' \in [Accepting -> Clicks] /\ told' \subseteq Accepting /\ AcceptInv'
  <2>1. CASE r \in has[m] /\ told' = told \cup {m} /\ accept' = accept
    BY <1>1, <1>2, <2>1 DEF AccessInv, AcceptInv
  <2>2. CASE /\ r \notin has[m] /\ told' = told
             /\ accept' = [accept EXCEPT ![m] = [pc |-> IF r = "" THEN "create" ELSE "add",
                                                role |-> r]]
    <3> DEFINE k == [pc |-> IF r = "" THEN "create" ELSE "add", role |-> r]
    <3>1. k \in Clicks /\ k.role = r /\ (k.pc = "add" => r # "")
      BY <1>4 DEF Clicks
    <3>2. accept' = [accept EXCEPT ![m] = k]
      BY <2>2
    <3> HIDE DEF k
    <3> QED
      BY <1>1, <1>2, <1>4, <2>2, <3>1, <3>2 DEF AccessInv, AcceptInv
  <2> QED
    BY <1>3, <2>1, <2>2
<1> QED
  BY <1>1, <1>2, <1>5, PeopleStep

LEMMA MakesRoleForMember ==
    ASSUME AccessInv, NEW m \in Accepting, CreateRoleForMember(m)
    PROVE  AccessInv'
<1>1. /\ copies \subseteq Copy /\ accept \in [Accepting -> Clicks] /\ told \subseteq Accepting
      /\ has \in [Accepting -> SUBSET Copy] /\ mishaps \in 0 .. MaxMishaps
  BY DEF AccessInv, GateTypeInv, GateTypeOK
<1>2. UNCHANGED <<ow, job, has, told, gateRole, clean, forPro, mishaps>>
  BY DEF CreateRoleForMember, history
<1>3. PICK r \in Copy : /\ copies' = copies \cup {r}
                        /\ accept' = [accept EXCEPT ![m] = [pc |-> "add", role |-> r]]
  BY DEF CreateRoleForMember, CreateRole
<1>4. accept' \in [Accepting -> Clicks]
  BY <1>1, <1>3 DEF Clicks
<1>5. AcceptInv'
  BY <1>1, <1>2, <1>3 DEF AccessInv, AcceptInv
<1> QED
  BY <1>1, <1>2, <1>3, <1>4, <1>5, PeopleStep

LEMMA AddsRole ==
    ASSUME AccessInv, NEW m \in Accepting, AddMemberRole(m)
    PROVE  AccessInv'
<1>1. /\ copies \subseteq Copy /\ accept \in [Accepting -> Clicks] /\ told \subseteq Accepting
      /\ has \in [Accepting -> SUBSET Copy] /\ accept[m].role \in copies
  BY DEF AccessInv, GateTypeInv, GateTypeOK, AcceptInv, AddMemberRole
<1>2. UNCHANGED <<ow, copies, job, gateRole, clean, forPro>>
  BY DEF AddMemberRole, history
<1>3. /\ \/ has' = [has EXCEPT ![m] = @ \cup {accept[m].role}] /\ told' = told \cup {m}
         \/ UNCHANGED <<has, told>>
      /\ accept' = [accept EXCEPT ![m] = NoClick]
  BY DEF AddMemberRole
<1>4. NoClick \in Clicks /\ NoClick.pc = "idle"
  BY DEF NoClick, Clicks
<1>5. /\ accept' \in [Accepting -> Clicks] /\ has' \in [Accepting -> SUBSET Copy]
      /\ told' \subseteq Accepting
  BY <1>1, <1>3, <1>4
<1>6. AcceptInv'
  BY <1>1, <1>2, <1>3, <1>4 DEF AccessInv, AcceptInv
<1>7. mishaps' \in 0 .. MaxMishaps
  BY Counted DEF AddMemberRole
<1> QED
  BY <1>1, <1>2, <1>5, <1>6, <1>7, PeopleStep

-----------------------------------------------------------------------------

LEMMA AccessStart ==
    ASSUME GateInit
    PROVE  AccessInv
<1>1. NoJob \in GateJobs \cap SyncJobs /\ NoJob.pc = "idle"
  BY DEF NoJob, GateJobs, SyncJobs, Views, Blank, View, Puts
<1>2. NoClick \in Clicks /\ NoClick.pc = "idle"
  BY DEF NoClick, Clicks
<1>3. ow \in [Channel -> [GuildRole -> View]] /\ MaxMishaps \in Nat
  BY GuildAssumption DEF GateInit
<1>4. /\ DOMAIN job = Command /\ job = [j \in Command |-> job[j]]
      /\ \A j \in Command : job[j] = NoJob
  BY DEF GateInit
<1>5. GateTypeInv
  <2>1. GateTypeOK
    <3>1. copies \subseteq Copy /\ has \in [Accepting -> SUBSET Copy] /\ told \subseteq Accepting
      BY DEF GateInit, Copy
    <3>2. clean \subseteq Command /\ forPro \subseteq Channel
      BY DEF GateInit
    <3>3. mishaps \in 0 .. MaxMishaps
      <4>1. mishaps = 0
        BY DEF GateInit
      <4> QED
        BY <1>3, <4>1
    <3> QED
      BY <1>3, <3>1, <3>2, <3>3 DEF GateTypeOK
  <2>2. accept \in [Accepting -> Clicks]
    BY <1>2 DEF GateInit
  <2> QED
    BY <1>1, <1>4, <2>1, <2>2, Names DEF GateTypeInv
<1>6. GateInv /\ SyncInv
  BY <1>1, <1>4, Names DEF GateInit, GateInv, SyncInv, CopyInv
<1>7. ProInv /\ AcceptInv
  BY <1>2 DEF GateInit, ProInv, AcceptInv
<1> QED
  BY <1>5, <1>6, <1>7 DEF AccessInv

LEMMA AccessStep ==
    ASSUME AccessInv, [GateNext]_gvars
    PROVE  AccessInv'
<1>1. CASE UNCHANGED gvars
  <2>1. AcceptInv'
    BY <1>1 DEF gvars, people, history, AccessInv, AcceptInv
  <2> QED
    BY <1>1, <2>1, PeopleStep DEF gvars, people, history, AccessInv, GateTypeInv, GateTypeOK
<1>2. CASE GateCommand
  BY <1>2, StartsGate, MakesRoleForGate, BeginsGate, ReadsChannel, WritesChannel, EndsGate
  DEF GateCommand
<1>3. ASSUME NEW j \in {"starter", "proplus"}, SyncCommand(j)
      PROVE  AccessInv'
  BY <1>3, StartsSync, PutsView, StartsDeny, EndsSync DEF SyncCommand, Syncs
<1>4. ASSUME NEW c \in Edited, NEW v \in {"allow", "absent"}, AdminEdit(c, v)
      PROVE  AccessInv'
  BY <1>4, Edits, GuildAssumption
<1>5. ASSUME NEW m \in Accepting,
             ClickAccept(m) \/ CreateRoleForMember(m) \/ AddMemberRole(m)
      PROVE  AccessInv'
  BY <1>5, Clicked, MakesRoleForMember, AddsRole
<1> QED
  BY <1>1, <1>2, <1>3, <1>4, <1>5 DEF GateNext

LEMMA AccessAlways == GateSpec => []AccessInv
  BY AccessStart, AccessStep, PTL DEF GateSpec

\* The overwrites, the roles and the members' answers keep their types through every
\* interleaving of the three commands, the admin and the members
\* (apply_reglement_gates, copy_role_overwrites, handle_reglement_accept).
THEOREM GateTypeAlways == GateSpec => []GateTypeOK
<1>1. AccessInv => GateTypeOK
  BY DEF AccessInv, GateTypeInv
<1> QED
  BY <1>1, AccessAlways, PTL

\* Of a set of at most one role.
LEMMA OneCopy ==
    ASSUME NEW S \in SUBSET Copy, Cardinality(S) <= 1, NEW a \in S, NEW b \in S
    PROVE  a = b
<1>1. IsFiniteSet({a, b}) /\ IsFiniteSet(S)
  <2>1. IsFiniteSet(Copy)
    <3>1. IsFiniteSet({"membre"})
      BY FS_Singleton
    <3>2. IsFiniteSet({"membre"} \cup {"membre2"})
      BY <3>1, FS_AddElement
    <3>3. Copy = {"membre"} \cup {"membre2"}
      BY DEF Copy
    <3> QED
      BY <3>2, <3>3
  <2> QED
    BY <2>1, FS_Subset
<1>2. a # b => Cardinality({a, b}) = 2
  <2>1. Cardinality({a}) = 1 /\ IsFiniteSet({a})
    BY FS_Singleton
  <2>2. a # b => Cardinality({a} \cup {b}) = Cardinality({a}) + 1
    BY <2>1, FS_AddElement
  <2>3. {a} \cup {b} = {a, b}
    OBVIOUS
  <2> QED
    BY <2>1, <2>2, <2>3
<1>3. Cardinality({a, b}) <= Cardinality(S)
  BY <1>1, FS_Subset
<1>4. PICK n \in Nat, k \in Nat : n = Cardinality(S) /\ k = Cardinality({a, b})
  BY <1>1, FS_CardinalityType
<1> QED
  BY <1>2, <1>3, <1>4

\* A member who was told that the rules are accepted sees the preview once the gates
\* are closed, whatever the other commands and the admin do at the same time, unless
\* two roles of the name were made (handle_reglement_accept, ensure_membre_role).
THEOREM AcceptedCanEnterAlways == GateSpec => []AcceptedCanEnter
<1>1. ASSUME AccessInv
      PROVE  AcceptedCanEnter
  <2> SUFFICES ASSUME "gate" \in clean, Cardinality(copies) <= 1, NEW m \in told,
                      NEW c \in Text \cap Preview
               PROVE  Sees(has[m], c)
    BY DEF AcceptedCanEnter
  <2>1. m \in Accepting /\ copies \subseteq Copy
    BY <1>1 DEF AccessInv, GateTypeInv, GateTypeOK
  <2>2. PICK r \in has[m] : r \in copies
    BY <1>1, <2>1 DEF AccessInv, AcceptInv
  <2>3. gateRole \in copies /\ Closed(c, gateRole)
    BY <1>1 DEF AccessInv, GateInv, GatedChannels
  <2>4. r = gateRole
    BY <2>1, <2>2, <2>3, OneCopy
  <2> QED
    BY <2>2, <2>3, <2>4 DEF Sees, Closed
<1> QED
  BY <1>1, AccessAlways, PTL

\* For any guild and any interleaving of the commands: when the last run of each of the
\* three was complete and nothing undid it, the channels are open as planned. A write of
\* the gate that loses what another command put since its read makes that command's run
\* an incomplete one (apply_reglement_gates, copy_role_overwrites,
\* deny_role_view_on_channels).
THEOREM AccessAsPlannedAlways == GateSpec => []AccessAsPlanned
<1>1. ASSUME AccessInv
      PROVE  AccessAsPlanned
  <2> SUFFICES ASSUME clean = Command, NEW c \in Text
               PROVE  /\ Sees({gateRole}, c) <=> c \in Preview
                      /\ c \in forPro => Sees({gateRole, "pro"}, c)
                      /\ Sees({gateRole, "pro"}, c) => Sees({gateRole, "proplus"}, c)
                      /\ IF c \in Excluded("starter")
                         THEN Sees({gateRole, "starter"}, c) => Sees({gateRole}, c)
                         ELSE Sees({gateRole, "pro"}, c) => Sees({gateRole, "starter"}, c)
                      /\ Sees({"bot"}, c)
    BY DEF AccessAsPlanned
  <2>1. Closed(c, gateRole)
    BY <1>1, Names DEF AccessInv, GateInv, GatedChannels
  <2>2. Opened("starter") /\ Opened("proplus") /\ c \in Channel /\ Excluded("proplus") = {}
    BY <1>1 DEF AccessInv, SyncInv, CopyInv, Syncs, Command, Channel, Excluded
  <2>3. Sees({gateRole}, c) <=> c \in Preview
    BY <2>1 DEF Sees, Closed
  <2>4. c \in forPro => Sees({gateRole, "pro"}, c)
    BY <1>1 DEF AccessInv, ProInv, Sees
  <2>5. ASSUME Sees({gateRole, "pro"}, c)
        PROVE  ow[c]["pro"] = "allow" \/ ow[c][gateRole] = "allow"
    BY <2>1, <2>5 DEF Sees, Closed
  <2>6. Sees({gateRole, "pro"}, c) => Sees({gateRole, "proplus"}, c)
    BY <2>2, <2>5 DEF Sees, Opened, Passed
  <2>7. c \notin Excluded("starter") =>
          (Sees({gateRole, "pro"}, c) => Sees({gateRole, "starter"}, c))
    BY <2>2, <2>5 DEF Sees, Opened, Passed
  <2>8. c \in Excluded("starter") => (Sees({gateRole, "starter"}, c) => Sees({gateRole}, c))
    BY <2>1, <2>2 DEF Sees, Opened, Closed
  <2>9. Sees({"bot"}, c)
    BY <2>1 DEF Sees, Closed
  <2> QED
    BY <2>3, <2>4, <2>6, <2>7, <2>8, <2>9
<1> QED
  BY <1>1, AccessAlways, PTL

-----------------------------------------------------------------------------
(* The alerts of a round *)

\* Searches that the rotator hands out, each one told to speak of its whole page.
OwnSearches(t) == t \in Seq(ToSet(t)) /\ \A i \in DOMAIN t : t[i].own = TRUE

\* What the invariant needs of the types: the pages are left out, as they come from
\* SelectSeq.
SearchTypeInv ==
    /\ shelf \in Seq(Item) /\ on \subseteq Wish /\ due \subseteq Wish \X Item
    /\ OwnSearches(todo)
    /\ DOMAIN batch = Scraper /\ \A s \in Scraper : OwnSearches(batch[s])
    /\ DOMAIN work = Scraper
    /\ \A s \in Scraper : work[s].own \in BOOLEAN /\ (work[s].own => batch[s] # <<>>)

Among(targets, f) == \E i \in DOMAIN targets : Alike(targets[i], SearchOf(f))

\* What a worker has taken from the rotator and not searched for yet.
Ahead(s) == IF work[s].own = TRUE THEN Tail(batch[s]) ELSE batch[s]

\* The filter's search has been run, with the article, and not yet matched.
Unmatched(s, f, a) ==
    work[s].own = TRUE /\ Alike(Head(batch[s]), SearchOf(f)) /\ a \in work[s].page

\* The filter's search is still to come, or has been run and not yet matched.
Coming(f, a) ==
    \/ Among(todo, f)
    \/ \E s \in Scraper : Among(Ahead(s), f) \/ Unmatched(s, f, a)

Owed(f, a) ==
    /\ f \in on /\ Matches(a, f) /\ Fresh(a) /\ a \in PageOf(SearchOf(f))
    /\ <<f, a>> \in alerted \/ Coming(f, a)

RoundInv == SearchTypeInv /\ \A f \in Wish, a \in Item : <<f, a>> \in due => Owed(f, a)

LEMMA OwnSequence ==
  ASSUME NEW S, NEW t \in Seq(S), \A x \in S : x.own = TRUE
  PROVE  OwnSearches(t)
<1>1. \A i \in 1 .. Len(t) : t[i] \in S
  OBVIOUS
<1>2. \A i \in 1 .. Len(t) : t[i] \in ToSet(t)
  BY DEF ToSet
<1>3. t \in Seq(ToSet(t))
  BY <1>2
<1>4. \A i \in DOMAIN t : t[i].own = TRUE
  BY <1>1
<1> QED
  BY <1>3, <1>4 DEF OwnSearches

\* The searches of the filters are of this kind: the order they come in does not
\* matter to it.
LEMMA OwnTargets ==
  ASSUME on \subseteq Wish
  PROVE  OwnSearches(ActiveTargets) /\ Len(ActiveTargets) <= MaxTargets
<1> DEFINE firsts == {f \in on : /\ Searchable(f)
                                 /\ \A g \in on : g < f /\ Searchable(g) => Keys[g] # Keys[f]}
<1> DEFINE all == [i \in 1 .. Cardinality(firsts) |-> SearchOf(SetToSortSeq(firsts, <)[i])]
<1> DEFINE S == {all[i] : i \in 1 .. Cardinality(firsts)}
<1> DEFINE m == IF Len(all) < MaxTargets THEN Len(all) ELSE MaxTargets
<1>1. IsFiniteSet(firsts)
  <2>1. firsts \subseteq Wish
    OBVIOUS
  <2> QED
    BY <2>1, FS_Subset, FilterSearchAssumption DEF FilterSearchAssumption
<1>2. PICK n \in Nat : n = Cardinality(firsts)
  BY <1>1, FS_CardinalityType
<1>3. \A x : SearchOf(x).own = TRUE
  BY DEF SearchOf
<1>4. \A x \in S : x.own = TRUE
  <2> SUFFICES ASSUME NEW i \in 1 .. Cardinality(firsts) PROVE all[i].own = TRUE
    OBVIOUS
  <2>1. all[i] = SearchOf(SetToSortSeq(firsts, <)[i])
    OBVIOUS
  <2> QED
    BY <2>1, <1>3
<1>5. ActiveTargets = SubSeq(all, 1, m)
  BY DEF ActiveTargets
<1>6. \A i \in 1 .. n : all[i] \in S
  BY <1>2
<1>7. all \in Seq(S) /\ Len(all) = n
  <2>1. all = [i \in 1 .. n |-> all[i]]
    BY <1>2
  <2> HIDE DEF all, S
  <2> QED
    BY <2>1, <1>6
<1>8. m \in Nat /\ m <= n
  <2> HIDE DEF all
  <2> QED
    BY <1>7, FilterSearchAssumption DEF FilterSearchAssumption
<1>9. \A i \in 1 .. m : all[i] \in S
  <2> HIDE DEF all, m, S
  <2> QED
    BY <1>6, <1>8
<1>10. SubSeq(all, 1, m) \in Seq(S) /\ Len(SubSeq(all, 1, m)) = m
  <2> HIDE DEF all, m, S
  <2> QED
    BY <1>7, <1>8, <1>9, SubSeqProperties
<1>11. m <= MaxTargets
  <2> HIDE DEF all
  <2> QED
    BY <1>7, FilterSearchAssumption DEF FilterSearchAssumption
<1> HIDE DEF all, m, S
<1> QED
  BY <1>4, <1>5, <1>10, <1>11, OwnSequence

\* Two targets that are alike bring the same page in.
LEMMA SamePage ==
  ASSUME NEW t, NEW u, Alike(t, u)
  PROVE  PageOf(t) = PageOf(u)
BY DEF Alike, PageOf

\* What has been taken from the front of a batch.
LEMMA NextTarget ==
  ASSUME NEW t, OwnSearches(t), t # <<>>
  PROVE  /\ OwnSearches(Tail(t)) /\ Head(t).own = TRUE
         /\ \A f : Among(t, f) => Alike(Head(t), SearchOf(f)) \/ Among(Tail(t), f)
<1> DEFINE S == ToSet(t)
<1>1. t \in Seq(S) /\ \A i \in DOMAIN t : t[i].own = TRUE
  BY DEF OwnSearches
<1>2. \A x \in S : x.own = TRUE
  BY <1>1 DEF ToSet
<1> HIDE DEF S
<1>3. /\ Head(t) \in S /\ Tail(t) \in Seq(S) /\ Len(Tail(t)) = Len(t) - 1
      /\ \A i \in 1 .. Len(Tail(t)) : Tail(t)[i] = t[i + 1]
  BY <1>1, HeadTailProperties
<1>4. OwnSearches(Tail(t))
  BY <1>2, <1>3, OwnSequence
<1>5. ASSUME NEW f, NEW i \in DOMAIN t, Alike(t[i], SearchOf(f))
      PROVE  Alike(Head(t), SearchOf(f)) \/ Among(Tail(t), f)
  <2>1. i \in 1 .. Len(t) /\ Len(t) \in Nat
    BY <1>1
  <2>2. CASE i = 1
    BY <2>2, <1>1, <1>5
  <2>3. CASE i # 1
    <3>1. i - 1 \in 1 .. Len(Tail(t)) /\ (i - 1) + 1 = i
      BY <1>3, <2>1, <2>3
    <3>2. Tail(t)[i - 1] = t[i]
      BY <1>3, <3>1
    <3>3. DOMAIN Tail(t) = 1 .. Len(Tail(t))
      BY <1>3
    <3> QED
      BY <1>5, <3>1, <3>2, <3>3 DEF Among
  <2> QED
    BY <2>2, <2>3
<1>6. ASSUME NEW f, Among(t, f)
      PROVE  Alike(Head(t), SearchOf(f)) \/ Among(Tail(t), f)
  BY <1>5, <1>6 DEF Among
<1> QED
  BY <1>2, <1>3, <1>4, <1>6

\* Two lists one after the other.
LEMMA OwnJoined ==
  ASSUME NEW t, NEW u, OwnSearches(t), OwnSearches(u)
  PROVE  /\ OwnSearches(t \o u) /\ Len(t \o u) = Len(t) + Len(u)
         /\ \A f : Among(t, f) \/ Among(u, f) => Among(t \o u, f)
<1> DEFINE S == ToSet(t) \cup ToSet(u)
<1>1. t \in Seq(S) /\ u \in Seq(S)
  BY DEF OwnSearches
<1>2. \A x \in S : x.own = TRUE
  BY DEF OwnSearches, ToSet
<1> HIDE DEF S
<1>3. /\ t \o u \in Seq(S) /\ Len(t \o u) = Len(t) + Len(u)
      /\ \A i \in 1 .. Len(t) : (t \o u)[i] = t[i]
      /\ \A i \in 1 .. Len(u) : Len(t) + i \in 1 .. Len(t \o u) /\ (t \o u)[Len(t) + i] = u[i]
  BY <1>1
<1>4. OwnSearches(t \o u)
  BY <1>2, <1>3, OwnSequence
<1>5. /\ DOMAIN t = 1 .. Len(t) /\ DOMAIN u = 1 .. Len(u)
      /\ DOMAIN (t \o u) = 1 .. Len(t \o u) /\ Len(t) \in Nat /\ Len(u) \in Nat
  BY <1>1, <1>3
<1>6. ASSUME NEW f, Among(t, f) PROVE Among(t \o u, f)
  <2>1. PICK i \in 1 .. Len(t) : Alike(t[i], SearchOf(f))
    BY <1>5, <1>6 DEF Among
  <2>2. i \in DOMAIN (t \o u) /\ (t \o u)[i] = t[i]
    BY <1>3, <1>5, <2>1
  <2> QED
    BY <2>1, <2>2 DEF Among
<1>7. ASSUME NEW f, Among(u, f) PROVE Among(t \o u, f)
  <2>1. PICK i \in 1 .. Len(u) : Alike(u[i], SearchOf(f))
    BY <1>5, <1>7 DEF Among
  <2>2. Len(t) + i \in DOMAIN (t \o u) /\ (t \o u)[Len(t) + i] = u[i]
    BY <1>3, <1>5, <2>1
  <2> QED
    BY <2>1, <2>2 DEF Among
<1> QED
  BY <1>3, <1>4, <1>6, <1>7

\* A list cut in two.
LEMMA OwnCut ==
  ASSUME NEW t, OwnSearches(t), NEW n \in 0 .. Len(t)
  PROVE  /\ OwnSearches(SubSeq(t, 1, n)) /\ OwnSearches(SubSeq(t, n + 1, Len(t)))
         /\ \A f : Among(t, f) => Among(SubSeq(t, 1, n), f) \/ Among(SubSeq(t, n + 1, Len(t)), f)
<1> DEFINE S == ToSet(t)
           l == SubSeq(t, 1, n)
           r == SubSeq(t, n + 1, Len(t))
<1>1. t \in Seq(S) /\ n \in Nat /\ Len(t) \in Nat /\ n <= Len(t) /\ DOMAIN t = 1 .. Len(t)
  BY DEF OwnSearches
<1>2. \A x \in S : x.own = TRUE
  BY DEF OwnSearches, ToSet
<1> HIDE DEF S
<1>3. \A i \in 1 .. Len(t) : t[i] \in S
  BY <1>1
<1>4. /\ l \in Seq(S) /\ Len(l) = n /\ DOMAIN l = 1 .. n
      /\ \A i \in 1 .. n : l[i] = t[i]
  BY <1>1, <1>3
<1>5. /\ r \in Seq(S) /\ Len(r) = Len(t) - n /\ DOMAIN r = 1 .. (Len(t) - n)
      /\ \A i \in 1 .. (Len(t) - n) : r[i] = t[n + i]
  <2>1. PICK m \in Nat : m = Len(t)
    BY <1>1
  <2>2. PICK k \in Nat : k = n + 1
    BY <1>1
  <2>3. \A i \in k .. m : t[i] \in S
    BY <1>1, <1>3, <2>1, <2>2
  <2>4. /\ SubSeq(t, k, m) \in Seq(S)
        /\ Len(SubSeq(t, k, m)) = IF k <= m THEN m - k + 1 ELSE 0
        /\ \A i \in 1 .. m - k + 1 : SubSeq(t, k, m)[i] = t[k + i - 1]
    BY <1>1, <2>1, <2>2, <2>3, SubSeqProperties
  <2>5. r = SubSeq(t, k, m)
    BY <2>1, <2>2
  <2> HIDE DEF r
  <2>6. Len(r) = Len(t) - n
    <3>1. n \in Nat /\ m \in Nat /\ n <= m /\ k = n + 1
      BY <1>1, <2>1, <2>2
    <3>2. CASE n = m
      <4>1. ~(k <= m) /\ m - n = 0
        BY <3>1, <3>2
      <4> QED
        BY <2>1, <2>4, <2>5, <4>1
    <3>3. CASE n # m
      <4>1. k <= m /\ m - k + 1 = m - n
        BY <3>1, <3>3
      <4> QED
        BY <2>1, <2>4, <2>5, <4>1
    <3> QED
      BY <3>2, <3>3
  <2>7. \A i \in 1 .. (Len(t) - n) : i \in 1 .. m - k + 1 /\ k + i - 1 = n + i
    BY <1>1, <2>1, <2>2
  <2>8. r \in Seq(S) /\ DOMAIN r = 1 .. Len(r)
    BY <2>4, <2>5, LenProperties
  <2>9. \A i \in 1 .. (Len(t) - n) : r[i] = t[n + i]
    BY <2>4, <2>5, <2>7
  <2> QED
    BY <2>6, <2>8, <2>9
<1>6. OwnSearches(l) /\ OwnSearches(r)
  BY <1>2, <1>4, <1>5, OwnSequence
<1>7. ASSUME NEW f, Among(t, f) PROVE Among(l, f) \/ Among(r, f)
  <2>1. PICK i \in 1 .. Len(t) : Alike(t[i], SearchOf(f))
    BY <1>1, <1>7 DEF Among
  <2> HIDE DEF l, r
  <2>2. CASE i <= n
    <3>1. i \in DOMAIN l /\ l[i] = t[i]
      BY <1>1, <1>4, <2>1, <2>2
    <3> QED
      BY <2>1, <3>1 DEF Among
  <2>3. CASE ~(i <= n)
    <3>1. i - n \in DOMAIN r /\ r[i - n] = t[n + (i - n)] /\ n + (i - n) = i
      BY <1>1, <1>5, <2>1, <2>3
    <3> QED
      BY <2>1, <3>1 DEF Among
  <2> QED
    BY <2>2, <2>3
<1> QED
  BY <1>6, <1>7

LEMMA RoundStart == SearchInit => RoundInv
<1> SUFFICES ASSUME SearchInit PROVE RoundInv
  OBVIOUS
<1>1. /\ shelf = <<>> /\ on = Wish /\ due = {} /\ todo = <<>>
      /\ batch = [s \in Scraper |-> <<>>] /\ work = [s \in Scraper |-> NoWork]
  BY DEF SearchInit
<1>2. OwnSearches(<<>>)
  BY DEF OwnSearches, ToSet
<1>3. \A s \in Scraper : batch[s] = <<>> /\ work[s].own = FALSE
  BY <1>1 DEF NoWork
<1>4. \A s \in Scraper : OwnSearches(batch[s])
  BY <1>2, <1>3
<1>5. shelf \in Seq(Item) /\ DOMAIN batch = Scraper /\ DOMAIN work = Scraper
  BY <1>1
<1>6. SearchTypeInv
  BY <1>1, <1>2, <1>3, <1>4, <1>5 DEF SearchTypeInv
<1> QED
  BY <1>1, <1>6 DEF RoundInv

\* A batch is taken: nothing that was to come is passed over, and what the next round
\* owes is to come with it.
LEMMA RoundBegins ==
  ASSUME RoundInv, NEW s \in Scraper, TakeBatch(s)
  PROVE  RoundInv'
<1> DEFINE n == BatchSize[Len(ActiveTargets)]
           loaded == IF n <= Len(todo) THEN <<>> ELSE ActiveTargets
           all == todo \o loaded
<1>1. /\ shelf' = shelf /\ old' = old /\ rowAge' = rowAge /\ on' = on
      /\ work' = work /\ alerted' = alerted
      /\ batch[s] = <<>> /\ work[s].own = FALSE /\ ActiveTargets # <<>>
      /\ batch' = [batch EXCEPT ![s] = SubSeq(all, 1, n)]
      /\ todo' = SubSeq(all, n + 1, Len(all))
      /\ due' = due \cup {p \in Wish \X ToSet(shelf) : InReach(p[1], p[2], loaded)}
  <2>1. PICK targets \in {ActiveTargets} :
          LET size == BatchSize[Len(targets)]
              fresh == IF size <= Len(todo) THEN <<>> ELSE targets
              both == todo \o fresh
          IN  /\ targets # <<>>
              /\ batch' = [batch EXCEPT ![s] = SubSeq(both, 1, size)]
              /\ todo' = SubSeq(both, size + 1, Len(both))
              /\ due' = due \cup {p \in Wish \X ToSet(shelf) : InReach(p[1], p[2], fresh)}
    BY Zenon DEF TakeBatch
  <2>2. targets = ActiveTargets
    BY <2>1
  <2>3. /\ ActiveTargets # <<>>
        /\ batch' = [batch EXCEPT ![s] = SubSeq(all, 1, n)]
        /\ todo' = SubSeq(all, n + 1, Len(all))
        /\ due' = due \cup {p \in Wish \X ToSet(shelf) : InReach(p[1], p[2], loaded)}
    BY <2>1, <2>2, Zenon
  <2>4. /\ Idles(s)
        /\ UNCHANGED <<shelf, old, row, rowAge, on, work, alerted, slips, toggles>>
    BY Zenon DEF TakeBatch
  <2>5. batch[s] = <<>> /\ work[s].own = FALSE
    BY <2>4 DEF Idles, NoWork
  <2> QED
    BY <2>3, <2>4, <2>5
<1>2. OwnSearches(ActiveTargets) /\ Len(ActiveTargets) <= MaxTargets /\ OwnSearches(todo)
  BY OwnTargets DEF RoundInv, SearchTypeInv
<1>3. n \in Nat /\ n <= Len(ActiveTargets)
  <2>1. Len(ActiveTargets) \in 1 .. MaxTargets
    BY <1>1, <1>2, FilterSearchAssumption DEF OwnSearches, FilterSearchAssumption
  <2> QED
    BY <2>1, FilterSearchAssumption DEF FilterSearchAssumption
<1>4. OwnSearches(loaded) /\ (n <= Len(todo) \/ loaded = ActiveTargets)
  <2>1. OwnSearches(<<>>)
    BY DEF OwnSearches, ToSet
  <2> QED
    BY <1>2, <2>1
<1> HIDE DEF n, loaded
<1>5. /\ OwnSearches(all) /\ Len(all) = Len(todo) + Len(loaded)
      /\ \A f : Among(todo, f) \/ Among(loaded, f) => Among(all, f)
  BY <1>2, <1>4, OwnJoined
<1> HIDE DEF all
<1>6. n \in 0 .. Len(all)
  <2>1. Len(todo) \in Nat /\ Len(loaded) \in Nat
    BY <1>2, <1>4 DEF OwnSearches
  <2> QED
    BY <1>3, <1>4, <1>5, <2>1
<1>7. /\ OwnSearches(SubSeq(all, 1, n)) /\ OwnSearches(SubSeq(all, n + 1, Len(all)))
      /\ \A f : Among(all, f) => Among(SubSeq(all, 1, n), f) \/ Among(SubSeq(all, n + 1, Len(all)), f)
  BY <1>5, <1>6, OwnCut
<1>8. DOMAIN batch = Scraper /\ DOMAIN work = Scraper
  BY DEF RoundInv, SearchTypeInv
<1>9. /\ DOMAIN batch' = Scraper /\ batch'[s] = SubSeq(all, 1, n)
      /\ \A r \in Scraper : r # s => batch'[r] = batch[r]
  BY <1>1, <1>8
<1>10. ToSet(shelf) \subseteq Item
  BY DEF RoundInv, SearchTypeInv, ToSet
<1>11. SearchTypeInv'
  <2>1. OwnSearches(todo')
    BY <1>1, <1>7
  <2>2. ASSUME NEW r \in Scraper
        PROVE  /\ OwnSearches(batch'[r])
               /\ work'[r].own \in BOOLEAN /\ (work'[r].own => batch'[r] # <<>>)
    BY <1>1, <1>7, <1>9 DEF RoundInv, SearchTypeInv
  <2>3. OwnSearches(todo)' /\ \A r \in Scraper : OwnSearches(batch[r])'
    BY <2>1, <2>2 DEF OwnSearches
  <2> QED
    BY <1>1, <1>8, <1>9, <1>10, <2>2, <2>3 DEF RoundInv, SearchTypeInv
<1>12. ASSUME NEW f, Among(all, f) PROVE Among(todo, f)' \/ Among(Ahead(s), f)'
  <2>1. Ahead(s)' = SubSeq(all, 1, n)
    BY <1>1, <1>9 DEF Ahead
  <2> QED
    BY <1>1, <1>7, <1>12, <2>1 DEF Among
<1>13. ASSUME NEW f \in Wish, NEW a \in Item, <<f, a>> \in due' PROVE Owed(f, a)'
  <2>1. CASE InReach(f, a, loaded)
    <3>1. f \in on /\ Fresh(a) /\ Matches(a, f) /\ a \in PageOf(SearchOf(f)) /\ Among(loaded, f)
      BY <2>1 DEF InReach, Among
    <3>2. Coming(f, a)'
      BY <1>5, <1>12, <3>1 DEF Coming
    <3>3. Fresh(a)' /\ PageOf(SearchOf(f))' = PageOf(SearchOf(f))
      BY <1>1, <3>1 DEF Fresh, PageOf
    <3> QED
      BY <1>1, <3>1, <3>2, <3>3 DEF Owed
  <2>2. CASE <<f, a>> \in due
    <3>1. /\ f \in on /\ Fresh(a) /\ Matches(a, f) /\ a \in PageOf(SearchOf(f))
          /\ <<f, a>> \in alerted \/ Coming(f, a)
      BY <2>2 DEF RoundInv, Owed
    <3>2. ASSUME NEW r \in Scraper, Among(Ahead(r), f) \/ Unmatched(r, f, a) PROVE Coming(f, a)'
      <4>1. r # s
        BY <1>1, <3>2 DEF Ahead, Unmatched, Among
      <4>2. Among(Ahead(r), f)' \/ Unmatched(r, f, a)'
        BY <1>1, <1>9, <3>2, <4>1 DEF Ahead, Unmatched, Among
      <4> QED
        BY <4>2 DEF Coming
    <3>3. Coming(f, a) => Coming(f, a)'
      <4>1. Among(todo, f) => Coming(f, a)'
        BY <1>5, <1>12 DEF Coming
      <4> QED
        BY <3>2, <4>1 DEF Coming
    <3>4. Fresh(a)' /\ PageOf(SearchOf(f))' = PageOf(SearchOf(f))
      BY <1>1, <3>1 DEF Fresh, PageOf
    <3> QED
      BY <1>1, <3>1, <3>3, <3>4 DEF Owed
  <2> QED
    BY <1>1, <1>13, <2>1, <2>2
<1> QED
  BY <1>11, <1>13 DEF RoundInv

\* A stored page takes nothing from what is owed: the worker had nothing to match, and
\* no article gets older by it.
LEMMA Stored ==
  ASSUME NEW s \in Scraper, NEW t, StorePage(s, t), DOMAIN work = Scraper,
         shelf' = shelf, old' = old
  PROVE  /\ work[s].own = FALSE
         /\ DOMAIN work' = Scraper
         /\ work'[s].own = t.own /\ work'[s].page = PageOf(t)
         /\ \A r \in Scraper : r # s => work'[r] = work[r]
         /\ \A a \in Item : Fresh(a) => Fresh(a)'
         /\ \A u : PageOf(u)' = PageOf(u)
<1> DEFINE page == PageOf(t)
<1>1. /\ work[s] = NoWork
      /\ work' = [work EXCEPT ![s] = [own |-> t.own, page |-> page, new |-> page \ row]]
      /\ rowAge' = [a \in Item |-> IF a \in page \ row THEN 0 ELSE rowAge[a]]
  BY DEF StorePage
<1>2. work[s].own = FALSE
  BY <1>1 DEF NoWork
<1>3. work'[s].own = t.own /\ work'[s].page = page
  BY <1>1
<1>4. \A r \in Scraper : r # s => work'[r] = work[r]
  BY <1>1
<1>5. 0 <= MaxFresh
  BY FilterSearchAssumption DEF FilterSearchAssumption
<1>6. ASSUME NEW a \in Item, Fresh(a) PROVE Fresh(a)'
  <2> HIDE DEF page
  <2>1. rowAge'[a] = 0 \/ rowAge'[a] = rowAge[a]
    BY <1>1
  <2> QED
    BY <1>5, <1>6, <2>1 DEF Fresh
<1>7. \A u : PageOf(u)' = PageOf(u)
  BY DEF PageOf
<1>8. DOMAIN work' = Scraper
  BY <1>1
<1> QED
  BY <1>2, <1>3, <1>4, <1>6, <1>7, <1>8

LEMMA RoundSearch ==
  ASSUME RoundInv, NEW s \in Scraper, SearchFilter(s)
  PROVE  RoundInv'
<1>1. /\ batch[s] # <<>> /\ StorePage(s, Head(batch[s])) /\ todo' = todo /\ batch' = batch
      /\ shelf' = shelf /\ old' = old /\ on' = on /\ alerted' = alerted /\ due' = due
  BY DEF SearchFilter
<1>2. SearchTypeInv
  BY DEF RoundInv
<1>3. OwnSearches(batch[s]) /\ DOMAIN work = Scraper
  BY <1>2 DEF SearchTypeInv
<1>4. /\ Head(batch[s]).own = TRUE
      /\ \A f : Among(batch[s], f) => Alike(Head(batch[s]), SearchOf(f)) \/ Among(Tail(batch[s]), f)
  BY <1>1, <1>3, NextTarget
<1>5. /\ work[s].own = FALSE /\ DOMAIN work' = Scraper
      /\ work'[s].own = Head(batch[s]).own /\ work'[s].page = PageOf(Head(batch[s]))
      /\ \A r \in Scraper : r # s => work'[r] = work[r]
      /\ \A a \in Item : Fresh(a) => Fresh(a)'
      /\ \A u : PageOf(u)' = PageOf(u)
  BY <1>1, <1>3, Stored
<1>6. SearchTypeInv'
  <2>1. \A r \in Scraper : work'[r].own \in BOOLEAN /\ (work'[r].own => batch'[r] # <<>>)
    BY <1>1, <1>2, <1>4, <1>5 DEF SearchTypeInv
  <2> QED
    BY <1>1, <1>2, <1>5, <2>1 DEF SearchTypeInv, OwnSearches
<1>7. ASSUME NEW f \in Wish, NEW a \in Item, <<f, a>> \in due' PROVE Owed(f, a)'
  <2>1. /\ f \in on /\ Matches(a, f) /\ Fresh(a) /\ a \in PageOf(SearchOf(f))
        /\ <<f, a>> \in alerted \/ Coming(f, a)
    BY <1>1, <1>7 DEF RoundInv, Owed
  <2>2. Fresh(a)' /\ a \in PageOf(SearchOf(f))'
    BY <1>5, <2>1
  <2>3. ASSUME NEW r \in Scraper, r # s, Among(Ahead(r), f) \/ Unmatched(r, f, a)
        PROVE  Coming(f, a)'
    <3>1. Among(Ahead(r), f)' \/ Unmatched(r, f, a)'
      BY <1>1, <1>5, <2>3 DEF Ahead, Unmatched, Among
    <3> QED
      BY <3>1 DEF Coming
  <2>4. ASSUME Among(Ahead(s), f) \/ Unmatched(s, f, a) PROVE Coming(f, a)'
    <3>1. Among(batch[s], f)
      BY <1>5, <2>4 DEF Ahead, Unmatched
    <3>2. CASE Alike(Head(batch[s]), SearchOf(f))
      <4>1. a \in PageOf(Head(batch[s]))
        BY <2>1, <3>2, SamePage
      <4>2. Unmatched(s, f, a)'
        BY <1>1, <1>4, <1>5, <3>2, <4>1 DEF Unmatched
      <4> QED
        BY <4>2 DEF Coming
    <3>3. CASE Among(Tail(batch[s]), f)
      <4>1. Among(Ahead(s), f)'
        BY <1>1, <1>4, <1>5, <3>3 DEF Ahead, Among
      <4> QED
        BY <4>1 DEF Coming
    <3> QED
      BY <1>4, <3>1, <3>2, <3>3
  <2>5. Among(todo, f) => Coming(f, a)'
    BY <1>1 DEF Coming, Among
  <2>6. Coming(f, a) => Coming(f, a)'
    BY <2>3, <2>4, <2>5 DEF Coming
  <2> QED
    BY <1>1, <2>1, <2>2, <2>6 DEF Owed
<1> QED
  BY <1>6, <1>7 DEF RoundInv

LEMMA RoundFeed ==
  ASSUME RoundInv, NEW s \in Scraper, SearchFeed(s)
  PROVE  RoundInv'
<1>1. /\ batch[s] = <<>> /\ todo' = todo /\ batch' = batch /\ shelf' = shelf /\ old' = old
      /\ on' = on /\ alerted' = alerted /\ due' = due
  BY DEF SearchFeed
<1>2. SearchTypeInv
  BY DEF RoundInv
<1>3. PICK t \in Feed : StorePage(s, t)
  BY DEF SearchFeed
<1>4. DOMAIN work = Scraper
  BY <1>2 DEF SearchTypeInv
<1>5. /\ work[s].own = FALSE /\ DOMAIN work' = Scraper /\ work'[s].own = t.own
      /\ \A r \in Scraper : r # s => work'[r] = work[r]
      /\ \A a \in Item : Fresh(a) => Fresh(a)'
      /\ \A u : PageOf(u)' = PageOf(u)
  BY <1>1, <1>3, <1>4, Stored
<1>6. work'[s].own = FALSE
  BY <1>3, <1>5, FilterSearchAssumption DEF FilterSearchAssumption
<1>7. SearchTypeInv'
  <2>1. \A r \in Scraper : work'[r].own \in BOOLEAN /\ (work'[r].own => batch'[r] # <<>>)
    BY <1>1, <1>2, <1>5, <1>6 DEF SearchTypeInv
  <2> QED
    BY <1>1, <1>2, <1>5, <2>1 DEF SearchTypeInv, OwnSearches
<1>8. ASSUME NEW f \in Wish, NEW a \in Item, <<f, a>> \in due' PROVE Owed(f, a)'
  <2>1. /\ f \in on /\ Matches(a, f) /\ Fresh(a) /\ a \in PageOf(SearchOf(f))
        /\ <<f, a>> \in alerted \/ Coming(f, a)
    BY <1>1, <1>8 DEF RoundInv, Owed
  <2>2. Fresh(a)' /\ a \in PageOf(SearchOf(f))'
    BY <1>5, <2>1
  <2>3. ASSUME NEW r \in Scraper, Among(Ahead(r), f) \/ Unmatched(r, f, a) PROVE Coming(f, a)'
    <3>1. Among(Ahead(r), f)' \/ Unmatched(r, f, a)'
      BY <1>1, <1>5, <1>6, <2>3 DEF Ahead, Unmatched, Among
    <3> QED
      BY <3>1 DEF Coming
  <2>4. Coming(f, a) => Coming(f, a)'
    BY <1>1, <2>3 DEF Coming, Among
  <2> QED
    BY <1>1, <2>1, <2>2, <2>4 DEF Owed
<1> QED
  BY <1>7, <1>8 DEF RoundInv

\* A worker is done with the search of a filter: what it was to tell of is the only
\* thing that is not to come any more.
LEMMA WhenDone ==
  ASSUME RoundInv, NEW s \in Scraper, Done(s),
         shelf' = shelf, on' = on, todo' = todo, due' \subseteq due
  PROVE  /\ SearchTypeInv'
         /\ \A f \in Wish, a \in Item :
               Coming(f, a) /\ ~Unmatched(s, f, a) => Coming(f, a)'
<1>1. /\ batch' = IF work[s].own THEN [batch EXCEPT ![s] = Tail(@)] ELSE batch
      /\ work' = [work EXCEPT ![s] = NoWork]
  BY DEF Done
<1>2. /\ DOMAIN batch = Scraper /\ DOMAIN work = Scraper /\ \A r \in Scraper : OwnSearches(batch[r])
      /\ work[s].own \in BOOLEAN /\ (work[s].own => batch[s] # <<>>)
  BY DEF RoundInv, SearchTypeInv
<1>3. /\ DOMAIN batch' = Scraper /\ DOMAIN work' = Scraper /\ work'[s].own = FALSE
      /\ \A r \in Scraper : r # s => work'[r] = work[r] /\ batch'[r] = batch[r]
  BY <1>1, <1>2 DEF NoWork
<1>4. CASE work[s].own = TRUE
  <2>1. batch'[s] = Tail(batch[s]) /\ OwnSearches(Tail(batch[s]))
    BY <1>1, <1>2, <1>4, NextTarget
  <2>2. \A r \in Scraper : OwnSearches(batch'[r])
    BY <1>2, <1>3, <2>1
  <2>3. SearchTypeInv'
    <3>1. \A r \in Scraper : work'[r].own \in BOOLEAN /\ (work'[r].own => batch'[r] # <<>>)
      BY <1>3 DEF RoundInv, SearchTypeInv
    <3>2. \A r \in Scraper : OwnSearches(batch[r])'
      BY <2>2 DEF OwnSearches
    <3> QED
      BY <1>3, <3>1, <3>2 DEF RoundInv, SearchTypeInv, OwnSearches
  <2>4. ASSUME NEW f \in Wish, NEW a \in Item, NEW r \in Scraper,
               Among(Ahead(r), f) \/ Unmatched(r, f, a), ~Unmatched(s, f, a)
        PROVE  Coming(f, a)'
    <3>1. CASE r = s
      <4>1. Among(Ahead(s), f)'
        BY <1>3, <1>4, <2>1, <2>4, <3>1 DEF Ahead, Among
      <4> QED
        BY <4>1 DEF Coming
    <3>2. CASE r # s
      <4>1. Among(Ahead(r), f)' \/ Unmatched(r, f, a)'
        BY <1>3, <2>4, <3>2 DEF Ahead, Unmatched, Among
      <4> QED
        BY <4>1 DEF Coming
    <3> QED
      BY <3>1, <3>2
  <2> QED
    BY <2>3, <2>4 DEF Coming, Among
<1>5. CASE work[s].own = FALSE
  <2>1. batch' = batch
    BY <1>1, <1>5
  <2>2. SearchTypeInv'
    <3>1. \A r \in Scraper : work'[r].own \in BOOLEAN /\ (work'[r].own => batch'[r] # <<>>)
      BY <1>3 DEF RoundInv, SearchTypeInv
    <3> QED
      BY <1>3, <2>1, <3>1 DEF RoundInv, SearchTypeInv, OwnSearches
  <2>3. ASSUME NEW f \in Wish, NEW a \in Item, NEW r \in Scraper,
               Among(Ahead(r), f) \/ Unmatched(r, f, a)
        PROVE  Coming(f, a)'
    <3>1. Among(Ahead(r), f)' \/ Unmatched(r, f, a)'
      BY <1>3, <1>5, <2>1, <2>3 DEF Ahead, Unmatched, Among
    <3> QED
      BY <3>1 DEF Coming
  <2> QED
    BY <2>2, <2>3 DEF Coming, Among
<1> QED
  BY <1>2, <1>4, <1>5

\* A match takes from what is owed only what it tells of, and what is over the limit.
LEMMA RoundMatch ==
  ASSUME RoundInv, NEW s \in Scraper, MatchAndAlert(s)
  PROVE  RoundInv'
<1> DEFINE M == PrivateMatches(PrivateIds(work[s]))
<1>1. /\ todo' = todo /\ shelf' = shelf /\ old' = old /\ rowAge' = rowAge /\ on' = on
      /\ Done(s)
  BY DEF MatchAndAlert
<1>2. PICK K \in Youngest(M) :
        /\ alerted' = alerted \cup K
        /\ due' = IF work[s].own THEN due \ (M \ K) ELSE due
  BY DEF MatchAndAlert
<1> HIDE DEF M
<1>3. due' \subseteq due
  BY <1>2
<1>4. /\ SearchTypeInv'
      /\ \A f \in Wish, a \in Item : Coming(f, a) /\ ~Unmatched(s, f, a) => Coming(f, a)'
  BY <1>1, <1>3, WhenDone
<1>5. ASSUME NEW f \in Wish, NEW a \in Item, <<f, a>> \in due' PROVE Owed(f, a)'
  <2>1. /\ f \in on /\ Matches(a, f) /\ Fresh(a) /\ a \in PageOf(SearchOf(f))
        /\ <<f, a>> \in alerted \/ Coming(f, a)
    BY <1>3, <1>5 DEF RoundInv, Owed
  <2>2. Fresh(a)' /\ a \in PageOf(SearchOf(f))'
    BY <1>1, <2>1 DEF Fresh, PageOf
  <2>3. ASSUME Unmatched(s, f, a), <<f, a>> \notin alerted
        PROVE  <<f, a>> \in K
    <3>1. work[s].own = TRUE /\ a \in PrivateIds(work[s])
      BY <2>3 DEF Unmatched, PrivateIds
    <3>2. <<f, a>> \in M
      BY <2>1, <2>3, <3>1 DEF M, PrivateMatches
    <3> QED
      BY <1>2, <1>5, <3>1, <3>2
  <2>4. <<f, a>> \in alerted' \/ Coming(f, a)'
    BY <1>2, <1>4, <2>1, <2>3
  <2> QED
    BY <1>1, <2>1, <2>2, <2>4 DEF Owed
<1> QED
  BY <1>4, <1>5 DEF RoundInv

\* A hook that fails takes what it should have told of out of what is owed.
LEMMA RoundFails ==
  ASSUME RoundInv, NEW s \in Scraper, HookFails(s)
  PROVE  RoundInv'
<1>1. /\ todo' = todo /\ shelf' = shelf /\ old' = old /\ rowAge' = rowAge /\ on' = on
      /\ alerted' = alerted /\ Done(s)
      /\ due' = IF work[s].own THEN Without(<<Head(batch[s])>>) ELSE due
  BY DEF HookFails
<1>2. due' \subseteq due
  BY <1>1 DEF Without
<1>3. /\ SearchTypeInv'
      /\ \A f \in Wish, a \in Item : Coming(f, a) /\ ~Unmatched(s, f, a) => Coming(f, a)'
  BY <1>1, <1>2, WhenDone
<1>4. ASSUME NEW f \in Wish, NEW a \in Item, <<f, a>> \in due' PROVE Owed(f, a)'
  <2>1. /\ f \in on /\ Matches(a, f) /\ Fresh(a) /\ a \in PageOf(SearchOf(f))
        /\ <<f, a>> \in alerted \/ Coming(f, a)
    BY <1>2, <1>4 DEF RoundInv, Owed
  <2>2. Fresh(a)' /\ a \in PageOf(SearchOf(f))'
    BY <1>1, <2>1 DEF Fresh, PageOf
  <2>3. ~Unmatched(s, f, a)
    <3>1. SUFFICES ASSUME Unmatched(s, f, a) PROVE FALSE
      OBVIOUS
    <3>2. work[s].own = TRUE /\ Alike(Head(batch[s]), SearchOf(f))
      BY <3>1 DEF Unmatched
    <3>3. <<f, a>> \in Without(<<Head(batch[s])>>)
      BY <1>1, <1>4, <3>2
    <3>4. 1 \in DOMAIN <<Head(batch[s])>> /\ <<Head(batch[s])>>[1] = Head(batch[s])
      OBVIOUS
    <3> QED
      BY <3>2, <3>3, <3>4 DEF Without
  <2>4. Coming(f, a) => Coming(f, a)'
    BY <1>3, <2>3
  <2> QED
    BY <1>1, <2>1, <2>2, <2>4 DEF Owed
<1> QED
  BY <1>3, <1>4 DEF RoundInv

\* A search that is tried again is to come again.
LEMMA RoundAgain ==
  ASSUME RoundInv, NEW s \in Scraper, SearchAgain(s)
  PROVE  RoundInv'
<1>1. /\ todo' = todo /\ batch' = batch /\ shelf' = shelf /\ old' = old /\ rowAge' = rowAge
      /\ on' = on /\ alerted' = alerted /\ due' = due /\ work[s].own
      /\ work' = [work EXCEPT ![s] = NoWork]
  BY DEF SearchAgain
<1>2. /\ DOMAIN work = Scraper /\ OwnSearches(batch[s]) /\ batch[s] # <<>> /\ work[s].own = TRUE
  BY <1>1 DEF RoundInv, SearchTypeInv
<1>3. /\ DOMAIN work' = Scraper /\ work'[s].own = FALSE
      /\ \A r \in Scraper : r # s => work'[r] = work[r]
  BY <1>1, <1>2 DEF NoWork
<1>4. SearchTypeInv'
  <2>1. \A r \in Scraper : work'[r].own \in BOOLEAN /\ (work'[r].own => batch'[r] # <<>>)
    BY <1>1, <1>3 DEF RoundInv, SearchTypeInv
  <2> QED
    BY <1>1, <1>3, <2>1 DEF RoundInv, SearchTypeInv, OwnSearches
<1>5. ASSUME NEW f, Alike(Head(batch[s]), SearchOf(f)) \/ Among(Tail(batch[s]), f)
      PROVE  Among(batch[s], f)
  <2>1. /\ batch[s] \in Seq(ToSet(batch[s])) /\ Len(batch[s]) \in Nat
        /\ DOMAIN batch[s] = 1 .. Len(batch[s]) /\ Len(batch[s]) > 0
    BY <1>2 DEF OwnSearches
  <2>2. /\ Head(batch[s]) = batch[s][1] /\ DOMAIN Tail(batch[s]) = 1 .. (Len(batch[s]) - 1)
        /\ \A i \in 1 .. (Len(batch[s]) - 1) : Tail(batch[s])[i] = batch[s][i + 1]
    BY <1>2, <2>1, HeadTailProperties
  <2>3. CASE Alike(Head(batch[s]), SearchOf(f))
    BY <2>1, <2>2, <2>3 DEF Among
  <2>4. CASE Among(Tail(batch[s]), f)
    <3>1. PICK i \in 1 .. (Len(batch[s]) - 1) : Alike(Tail(batch[s])[i], SearchOf(f))
      BY <2>2, <2>4 DEF Among
    <3>2. i + 1 \in DOMAIN batch[s] /\ Alike(batch[s][i + 1], SearchOf(f))
      BY <2>1, <2>2, <3>1
    <3> QED
      BY <3>2 DEF Among
  <2> QED
    BY <1>5, <2>3, <2>4
<1>6. ASSUME NEW f \in Wish, NEW a \in Item, <<f, a>> \in due' PROVE Owed(f, a)'
  <2>1. /\ f \in on /\ Matches(a, f) /\ Fresh(a) /\ a \in PageOf(SearchOf(f))
        /\ <<f, a>> \in alerted \/ Coming(f, a)
    BY <1>1, <1>6 DEF RoundInv, Owed
  <2>2. Fresh(a)' /\ a \in PageOf(SearchOf(f))'
    BY <1>1, <2>1 DEF Fresh, PageOf
  <2>3. ASSUME NEW r \in Scraper, Among(Ahead(r), f) \/ Unmatched(r, f, a) PROVE Coming(f, a)'
    <3>1. CASE r = s
      <4>1. Among(batch[s], f)
        BY <1>2, <1>5, <2>3, <3>1 DEF Ahead, Unmatched
      <4>2. Among(Ahead(s), f)'
        BY <1>1, <1>3, <4>1 DEF Ahead, Among
      <4> QED
        BY <4>2 DEF Coming
    <3>2. CASE r # s
      <4>1. Among(Ahead(r), f)' \/ Unmatched(r, f, a)'
        BY <1>1, <1>3, <2>3, <3>2 DEF Ahead, Unmatched, Among
      <4> QED
        BY <4>1 DEF Coming
    <3> QED
      BY <3>1, <3>2
  <2>4. Coming(f, a) => Coming(f, a)'
    BY <1>1, <2>3 DEF Coming, Among
  <2> QED
    BY <1>1, <2>1, <2>2, <2>4 DEF Owed
<1> QED
  BY <1>4, <1>6 DEF RoundInv

\* A batch that is dropped takes its targets out of what is owed.
LEMMA RoundDrops ==
  ASSUME RoundInv, NEW s \in Scraper, DropBatch(s)
  PROVE  RoundInv'
<1>1. /\ todo' = todo /\ shelf' = shelf /\ old' = old /\ rowAge' = rowAge /\ on' = on
      /\ alerted' = alerted /\ due' = Without(batch[s])
      /\ batch' = [batch EXCEPT ![s] = <<>>] /\ work' = [work EXCEPT ![s] = NoWork]
  BY DEF DropBatch
<1>2. /\ DOMAIN work = Scraper /\ DOMAIN batch = Scraper /\ OwnSearches(batch[s])
      /\ work[s].own => batch[s] # <<>>
  BY DEF RoundInv, SearchTypeInv
<1>3. /\ DOMAIN work' = Scraper /\ work'[s].own = FALSE /\ DOMAIN batch' = Scraper /\ batch'[s] = <<>>
      /\ \A r \in Scraper : r # s => work'[r] = work[r] /\ batch'[r] = batch[r]
  BY <1>1, <1>2 DEF NoWork
<1>4. SearchTypeInv'
  <2>1. OwnSearches(<<>>)
    BY DEF OwnSearches, ToSet
  <2>2. \A r \in Scraper : OwnSearches(batch'[r])
    BY <1>3, <2>1 DEF RoundInv, SearchTypeInv
  <2>3. \A r \in Scraper : OwnSearches(batch[r])'
    BY <2>2 DEF OwnSearches
  <2>4. \A r \in Scraper : work'[r].own \in BOOLEAN /\ (work'[r].own => batch'[r] # <<>>)
    BY <1>3 DEF RoundInv, SearchTypeInv
  <2> QED
    BY <1>1, <1>3, <2>3, <2>4 DEF RoundInv, SearchTypeInv, OwnSearches, Without
<1>5. ASSUME NEW f \in Wish, NEW a \in Item, <<f, a>> \in due' PROVE Owed(f, a)'
  <2>1. <<f, a>> \in due /\ ~Among(batch[s], f)
    BY <1>1, <1>5 DEF Without, Among
  <2>2. /\ f \in on /\ Matches(a, f) /\ Fresh(a) /\ a \in PageOf(SearchOf(f))
        /\ <<f, a>> \in alerted \/ Coming(f, a)
    BY <2>1 DEF RoundInv, Owed
  <2>3. Fresh(a)' /\ a \in PageOf(SearchOf(f))'
    BY <1>1, <2>2 DEF Fresh, PageOf
  <2>4. ~Among(Ahead(s), f) /\ ~Unmatched(s, f, a)
    <3>1. CASE work[s].own = TRUE
      <4>1. batch[s] # <<>>
        BY <1>2, <3>1
      <4>2. /\ batch[s] \in Seq(ToSet(batch[s])) /\ Len(batch[s]) \in Nat
            /\ DOMAIN batch[s] = 1 .. Len(batch[s]) /\ Len(batch[s]) > 0
        BY <1>2, <4>1 DEF OwnSearches
      <4>3. /\ Head(batch[s]) = batch[s][1] /\ DOMAIN Tail(batch[s]) = 1 .. (Len(batch[s]) - 1)
            /\ \A i \in 1 .. (Len(batch[s]) - 1) : Tail(batch[s])[i] = batch[s][i + 1]
        BY <4>1, <4>2, HeadTailProperties
      <4>4. ~Unmatched(s, f, a)
        BY <2>1, <4>2, <4>3 DEF Unmatched, Among
      <4>5. ~Among(Tail(batch[s]), f)
        <5>1. \A i \in 1 .. (Len(batch[s]) - 1) : i + 1 \in DOMAIN batch[s]
          BY <4>2
        <5> QED
          BY <2>1, <4>3, <5>1 DEF Among
      <4> QED
        BY <3>1, <4>4, <4>5 DEF Ahead
    <3>2. CASE work[s].own # TRUE
      BY <2>1, <3>2 DEF Ahead, Unmatched
    <3> QED
      BY <3>1, <3>2
  <2>5. ASSUME NEW r \in Scraper, Among(Ahead(r), f) \/ Unmatched(r, f, a) PROVE Coming(f, a)'
    <3>1. r # s
      BY <2>4, <2>5
    <3>2. Among(Ahead(r), f)' \/ Unmatched(r, f, a)'
      BY <1>3, <2>5, <3>1 DEF Ahead, Unmatched, Among
    <3> QED
      BY <3>2 DEF Coming
  <2>6. Coming(f, a) => Coming(f, a)'
    BY <1>1, <2>5 DEF Coming, Among
  <2> QED
    BY <1>1, <2>2, <2>3, <2>6 DEF Owed
<1> QED
  BY <1>4, <1>5 DEF RoundInv

\* A new article and the passing of time leave owed what is still within reach.
LEMMA RoundWorld ==
  ASSUME RoundInv, shelf' \in Seq(Item), due' = {p \in due : StillReached(p)'},
         on' = on, todo' = todo, batch' = batch, work' = work, alerted' = alerted
  PROVE  RoundInv'
<1>1. SearchTypeInv'
  BY DEF RoundInv, SearchTypeInv, OwnSearches
<1>2. ASSUME NEW f \in Wish, NEW a \in Item, <<f, a>> \in due' PROVE Owed(f, a)'
  <2>1. <<f, a>> \in due /\ StillReached(<<f, a>>)'
    BY <1>2
  <2>2. /\ f \in on /\ Matches(a, f)
        /\ <<f, a>> \in alerted \/ Coming(f, a)
    BY <2>1 DEF RoundInv, Owed
  <2>3. Fresh(a)' /\ a \in PageOf(SearchOf(f))'
    BY <2>1 DEF StillReached
  <2>4. Coming(f, a) => Coming(f, a)'
    BY DEF Coming, Among, Ahead, Unmatched
  <2> QED
    BY <2>2, <2>3, <2>4 DEF Owed
<1> QED
  BY <1>1, <1>2 DEF RoundInv

\* A step after which nothing is owed.
LEMMA RoundOver ==
  ASSUME RoundInv, shelf' = shelf, on' \subseteq Wish, due' = {},
         todo' = todo \/ todo' = <<>>,
         \/ batch' = batch /\ work' = work
         \/ batch' = [s \in Scraper |-> <<>>] /\ work' = [s \in Scraper |-> NoWork]
  PROVE  RoundInv'
<1>1. OwnSearches(<<>>)
  BY DEF OwnSearches, ToSet
<1>2. OwnSearches(todo') /\ \A s \in Scraper : OwnSearches(batch'[s])
  BY <1>1 DEF RoundInv, SearchTypeInv
<1>3. OwnSearches(todo)' /\ \A s \in Scraper : OwnSearches(batch[s])'
  BY <1>2 DEF OwnSearches
<1>4. /\ DOMAIN work' = Scraper /\ DOMAIN batch' = Scraper
      /\ \A s \in Scraper : work'[s].own \in BOOLEAN /\ (work'[s].own => batch'[s] # <<>>)
  <2>1. CASE batch' = batch /\ work' = work
    BY <2>1 DEF RoundInv, SearchTypeInv
  <2>2. CASE batch' = [s \in Scraper |-> <<>>] /\ work' = [s \in Scraper |-> NoWork]
    <3>1. NoWork.own = FALSE
      BY DEF NoWork
    <3> QED
      BY <2>2, <3>1
  <2> QED
    BY <2>1, <2>2
<1> QED
  BY <1>3, <1>4 DEF RoundInv, SearchTypeInv

LEMMA RoundStep ==
  ASSUME RoundInv, [SearchNext]_qvars
  PROVE  RoundInv'
<1>1. ASSUME NEW s \in Scraper, TakeBatch(s) PROVE RoundInv'
  BY <1>1, RoundBegins
<1>2. ASSUME NEW s \in Scraper,
             \/ SearchFilter(s) \/ SearchFeed(s) \/ MatchAndAlert(s)
             \/ HookFails(s) \/ SearchAgain(s) \/ DropBatch(s)
      PROVE  RoundInv'
  BY <1>2, RoundSearch, RoundFeed, RoundMatch, RoundFails, RoundAgain, RoundDrops
<1>3. CASE RestartProcess
  <2>1. shelf' = shelf /\ on' = on /\ due' = {} /\ todo' = <<>>
        /\ batch' = [s \in Scraper |-> <<>>] /\ work' = [s \in Scraper |-> NoWork]
    BY <1>3 DEF RestartProcess
  <2>2. on' \subseteq Wish
    BY <2>1 DEF RoundInv, SearchTypeInv
  <2> QED
    BY <2>1, <2>2, RoundOver
<1>4. ASSUME NEW a \in Item, PublishItem(a) PROVE RoundInv'
  <2>1. /\ shelf' = <<a>> \o shelf /\ on' = on /\ todo' = todo /\ batch' = batch /\ work' = work
        /\ alerted' = alerted
        /\ due' = {p \in due : StillReached(p)'}
    BY <1>4 DEF PublishItem
  <2>2. shelf' \in Seq(Item)
    BY <2>1 DEF RoundInv, SearchTypeInv
  <2> QED
    BY <2>1, <2>2, RoundWorld
<1>5. CASE GrowOlder
  <2>1. /\ shelf' = shelf /\ on' = on /\ todo' = todo /\ batch' = batch /\ work' = work
        /\ alerted' = alerted
        /\ due' = {p \in due : StillReached(p)'}
    BY <1>5 DEF GrowOlder
  <2>2. shelf' \in Seq(Item)
    BY <2>1 DEF RoundInv, SearchTypeInv
  <2> QED
    BY <2>1, <2>2, RoundWorld
<1>6. ASSUME NEW f \in Wish, SwitchFilter(f) PROVE RoundInv'
  <2>1. /\ shelf' = shelf /\ due' = {} /\ todo' = todo /\ batch' = batch /\ work' = work
        /\ on' = IF f \in on THEN on \ {f} ELSE on \cup {f}
    BY <1>6 DEF SwitchFilter
  <2>2. on' \subseteq Wish
    BY <2>1 DEF RoundInv, SearchTypeInv
  <2> QED
    BY <2>1, <2>2, RoundOver
<1>7. CASE UNCHANGED qvars
  <2>1. /\ shelf' = shelf /\ old' = old /\ rowAge' = rowAge /\ on' = on /\ todo' = todo
        /\ batch' = batch /\ work' = work /\ alerted' = alerted /\ due' = due
    BY <1>7 DEF qvars
  <2>2. SearchTypeInv'
    BY <2>1 DEF RoundInv, SearchTypeInv, OwnSearches
  <2>3. ASSUME NEW f \in Wish, NEW a \in Item PROVE Owed(f, a)' <=> Owed(f, a)
    BY <2>1 DEF Owed, Coming, Fresh, PageOf, Among, Ahead, Unmatched
  <2> QED
    BY <2>1, <2>2, <2>3 DEF RoundInv
<1> QED
  BY <1>1, <1>2, <1>3, <1>4, <1>5, <1>6, <1>7 DEF SearchNext

LEMMA RoundKept == RoundInv => RoundAlerts
<1> SUFFICES ASSUME RoundInv, todo = <<>>, \A s \in Scraper : batch[s] = <<>>
             PROVE  due \subseteq alerted
  BY DEF RoundAlerts
<1>1. ASSUME NEW f \in Wish, NEW a \in Item, <<f, a>> \in due PROVE <<f, a>> \in alerted
  <2>1. <<f, a>> \in alerted \/ Coming(f, a)
    BY <1>1 DEF RoundInv, Owed
  <2>2. \A s \in Scraper : work[s].own # TRUE
    BY DEF RoundInv, SearchTypeInv
  <2>3. \A s \in Scraper : Ahead(s) = <<>> /\ ~Unmatched(s, f, a)
    BY <2>2 DEF Ahead, Unmatched
  <2>4. ~Among(<<>>, f)
    BY DEF Among
  <2>5. ~Coming(f, a)
    BY <2>3, <2>4 DEF Coming
  <2> QED
    BY <2>1, <2>5
<1> QED
  BY <1>1 DEF RoundInv, SearchTypeInv

\* When the rotator's round is over and no worker has a batch in hand, every article
\* that a filter's own search could bring in when it began, and that is still fresh and
\* on the page, has its alert or is in the queue: the scrape of a filter matches the
\* whole page that it stored, so that it makes up for what a search of the feed inserted
\* first, and one that fails is tried again.  Owed no more is what a dropped batch still
\* held, what a hook that failed would have told of, and what was over the limit of a
\* page (scrape_workers.py, private_filters.py).
THEOREM RoundAlertsAlways == SearchSpec => []RoundAlerts
<1>1. SearchInit => RoundInv
  BY RoundStart
<1>2. RoundInv /\ [SearchNext]_qvars => RoundInv'
  BY RoundStep
<1> QED
  BY <1>1, <1>2, RoundKept, PTL DEF SearchSpec

=============================================================================
