------------------------------ MODULE Support ------------------------------
(***************************************************************************)
(* Support conversations: the service that stores them, and the pages of a *)
(* user and an administrator that list, show and answer them and read them *)
(* again every 12 seconds.                                                 *)
(*                                                                         *)
(* A text is a number.  Texts changed while they are sent and the          *)
(* notifications' jobs (module Delivery), whose failure is only logged,    *)
(* are left out.                                                           *)
(***************************************************************************)
EXTENDS Integers, Sequences, FiniteSets

CONSTANTS
  MaxTexts,      \* bound: texts typed
  MaxTickets,    \* bound: conversations
  MaxRequests,   \* bound: requests to send a text or to resolve
  MaxPolls,      \* bound: reads one person's pages have under way
  MaxPlaces      \* bound: pages opened

ASSUME SupportAssumption ==
  /\ {MaxTexts, MaxTickets, MaxRequests, MaxPlaces} \subseteq Nat /\ MaxPolls \in Nat \ {0}

VARIABLES
  tickets,    \* the conversations: status and lastMessageAt
  messages,   \* the messages: createdAt, conversation, role and text
  begun,      \* transactions that wrote a message, in the order they began
  place,      \* the page a person has open: none, a list or a conversation
  filter,     \* the status an administrator's list asks for
  view,       \* what a page shows of the answer it last received
  draft,      \* the text a person has typed
  loads,      \* reads under way
  sends,      \* requests under way
  typed, requested, opened,   \* texts, requests and pages so far
  failed      \* history: how often a text's request ended with an error

stored      == <<tickets, messages, begun>>
personVars  == <<place, filter, view, draft>>
supportVars == <<stored, personVars, loads, sends, typed, requested, opened, failed>>

People   == {"USER", "ADMIN"}
Statuses == {"OPEN", "RESOLVED"}
Texts    == 1..MaxTexts
Times    == 1..MaxRequests
Away     == [kind |-> "away", of |-> 0]
List     == [kind |-> "list", of |-> 0]
Ticket(t) == [kind |-> "ticket", of |-> t]
Nothing  == [status |-> "none", ids |-> {}]
Waiting  == [status |-> "none", ids |-> {0}]     \* an answer that is not there yet

-----------------------------------------------------------------------------
(* load: the page's answer is asked for; a list's is filtered. *)
FreeSlots(p, ls) == (1..(MaxPolls + 2)) \ {l.slot : l \in {k \in ls : k.who = p}}

ReadCall(p, where, then, ls) ==
  [who |-> p, slot |-> CHOOSE s \in FreeSlots(p, ls) : \A r \in FreeSlots(p, ls) : s <= r,
   where |-> where, filter |-> filter[p], then |-> then, here |-> TRUE, got |-> Waiting]

(* What getMyConversation and listMyConversations, and an administrator's,   *)
(* return.                                                                   *)
Answer(l) ==
  IF l.where.kind = "ticket"
  THEN [status |-> tickets[l.where.of].status,
        ids |-> {m.time : m \in {n \in messages : n.ticket = l.where.of}}]
  ELSE [status |-> "list",
        ids |-> {t \in DOMAIN tickets : l.who = "USER" \/ tickets[t].status = l.filter}]

(* Nothing waits any more for reads of a page that is left, but the one that *)
(* leads from the list to the new conversation.                              *)
Abandoned(ls, p) ==
  {l \in ls : l.who # p} \cup {[l EXCEPT !.here = FALSE] : l \in {k \in ls : k.who = p /\ k.then # 0}}

(* A page is opened: it is empty and reads at once. *)
Go(p, where, ls) ==
  /\ opened < MaxPlaces /\ opened' = opened + 1
  /\ place' = [place EXCEPT ![p] = where]
  /\ view' = [view EXCEPT ![p] = Nothing] /\ draft' = [draft EXCEPT ![p] = 0]
  /\ filter' = [filter EXCEPT ![p] = "OPEN"]
  /\ LET kept == Abandoned(ls, p)
     IN  /\ where = Away \/ FreeSlots(p, kept) # {}
         /\ loads' = IF where = Away THEN kept
                     ELSE kept \cup {[ReadCall(p, where, 0, kept) EXCEPT !.filter = "OPEN"]}
  /\ sends' = {IF s.who = p THEN [s EXCEPT !.here = FALSE] ELSE s : s \in sends}

Open(p, where) ==
  /\ place[p] # where
  /\ where.kind = "ticket" => where.of \in DOMAIN tickets
  /\ Go(p, where, loads)
  /\ UNCHANGED <<stored, typed, requested, failed>>

(* Every 12 seconds, whether the read before has come back or not. *)
Poll(p) ==
  /\ place[p] # Away
  /\ Cardinality({l \in loads : l.who = p}) < MaxPolls
  /\ loads' = loads \cup {ReadCall(p, place[p], 0, loads)}
  /\ UNCHANGED <<stored, personVars, sends, typed, requested, opened, failed>>

(* The status is chosen: the list is read again, and an older read may come  *)
(* after.                                                                    *)
Choose(status) ==
  /\ place["ADMIN"] = List /\ filter["ADMIN"] # status
  /\ opened < MaxPlaces /\ opened' = opened + 1
  /\ filter' = [filter EXCEPT !["ADMIN"] = status]
  /\ FreeSlots("ADMIN", loads) # {}
  /\ loads' = loads \cup {[ReadCall("ADMIN", List, 0, loads) EXCEPT !.filter = status]}
  /\ UNCHANGED <<stored, place, view, draft, sends, typed, requested, failed>>

LoadServed(l) ==
  /\ l.got = Waiting
  /\ loads' = (loads \ {l}) \cup {[l EXCEPT !.got = Answer(l)]}
  /\ UNCHANGED <<stored, personVars, sends, typed, requested, opened, failed>>

(* The read is over.  The one after createConversation then opens the new    *)
(* conversation, wherever the user is by now.                                *)
Ends(l, seen) ==
  IF l.then # 0 /\ place[l.who] # Ticket(l.then)
  THEN Go(l.who, Ticket(l.then), loads \ {l})
  ELSE /\ loads' = loads \ {l}
       /\ view' = IF l.here THEN [view EXCEPT ![l.who] = seen] ELSE view
       /\ UNCHANGED <<place, filter, draft, sends, opened>>

LoadArrives(l) ==
  /\ l.got # Waiting /\ Ends(l, l.got)
  /\ UNCHANGED <<stored, typed, requested, failed>>

LoadFails(l) ==
  /\ Ends(l, view[l.who])
  /\ UNCHANGED <<stored, typed, requested, failed>>

-----------------------------------------------------------------------------
(* A text is typed where the page has a form for it: always in the user's    *)
(* list, in a conversation while it is shown open.                           *)
MayWrite(p) ==
  \/ p = "USER" /\ place[p] = List
  \/ place[p].kind = "ticket" /\ view[p].status = "OPEN"

Type(p) ==
  /\ MayWrite(p) /\ draft[p] = 0 /\ typed < MaxTexts /\ typed' = typed + 1
  /\ draft' = [draft EXCEPT ![p] = typed']
  /\ UNCHANGED <<stored, place, filter, view, loads, sends, requested, opened, failed>>

Busy(p, kinds) == \E s \in sends : s.who = p /\ s.here /\ s.kind \in kinds

Request(p, kind, text) ==
  /\ requested < MaxRequests /\ requested' = requested + 1
  /\ sends' = sends \cup {[number |-> requested', who |-> p, kind |-> kind, ticket |-> place[p].of,
                          text |-> text, time |-> 0, pc |-> "sent", here |-> TRUE]}
  /\ UNCHANGED <<stored, personVars, loads, typed, opened, failed>>

(* A mutant: the form takes a second click while the first is under way. *)
SubmitAgain(p) ==
  /\ MayWrite(p) /\ draft[p] # 0
  /\ Request(p, IF place[p] = List THEN "create" ELSE IF p = "USER" THEN "add" ELSE "reply", draft[p])

Submit(p) ==
  /\ MayWrite(p) /\ draft[p] # 0 /\ ~Busy(p, {"create", "add", "reply"})
  /\ Request(p, IF place[p] = List THEN "create" ELSE IF p = "USER" THEN "add" ELSE "reply", draft[p])

Resolve ==
  /\ place["ADMIN"].kind = "ticket" /\ view["ADMIN"].status = "OPEN" /\ ~Busy("ADMIN", {"resolve"})
  /\ Request("ADMIN", "resolve", 0)

Becomes(s, t) == sends' = (sends \ {s}) \cup {t}
OnlyStored == UNCHANGED <<personVars, loads, typed, requested, opened, failed>>

(* addUserMessage, replyAsAdmin and resolveConversation read the             *)
(* conversation; a user's message to one that is resolved is refused.  The   *)
(* transaction that follows takes the time of its message when it begins.    *)
Checked(s) ==
  /\ s.pc = "sent" /\ s.kind # "create"
  /\ IF s.kind = "add" /\ tickets[s.ticket].status = "RESOLVED"
     THEN Becomes(s, [s EXCEPT !.pc = "refused"]) /\ UNCHANGED begun
     ELSE /\ begun' = begun + 1
          /\ Becomes(s, [s EXCEPT !.pc = "checked", !.time = begun'])
  /\ UNCHANGED <<tickets, messages>> /\ OnlyStored

Message(s, t, time) == [time |-> time, ticket |-> t, role |-> s.who, text |-> s.text]

Created(s) ==
  /\ s.pc = "sent" /\ s.kind = "create" /\ Len(tickets) < MaxTickets
  /\ begun' = begun + 1
  /\ tickets' = Append(tickets, [status |-> "OPEN", last |-> begun'])
  /\ messages' = messages \cup {Message(s, Len(tickets'), begun')}
  /\ Becomes(s, [s EXCEPT !.pc = "stored", !.ticket = Len(tickets')]) /\ OnlyStored

(* A reply opens the conversation again. *)
Added(s) ==
  /\ s.pc = "checked" /\ s.kind \in {"add", "reply"}
  /\ messages' = messages \cup {Message(s, s.ticket, s.time)}
  /\ tickets' = [tickets EXCEPT ![s.ticket].last = s.time,
                   ![s.ticket].status = IF s.kind = "reply" THEN "OPEN" ELSE @]
  /\ Becomes(s, [s EXCEPT !.pc = "stored"]) /\ UNCHANGED begun /\ OnlyStored

Resolved(s) ==
  /\ s.pc = "checked" /\ s.kind = "resolve"
  /\ tickets' = [tickets EXCEPT ![s.ticket].status = "RESOLVED"]
  /\ Becomes(s, [s EXCEPT !.pc = "done"]) /\ UNCHANGED <<messages, begun>> /\ OnlyStored

(* notifyAdmins, or the notification of the user. *)
Notified(s) ==
  /\ s.pc = "stored" /\ Becomes(s, [s EXCEPT !.pc = "done"])
  /\ UNCHANGED stored /\ OnlyStored

(* The request breaks off: before its transaction, or when notifyAdmins      *)
(* cannot read the administrators, after it.                                 *)
Breaks(s) ==
  /\ s.pc \in {"sent", "checked"} \/ (s.pc = "stored" /\ s.kind # "reply")
  /\ Becomes(s, [s EXCEPT !.pc = "broken"])
  /\ UNCHANGED stored /\ OnlyStored

(* submit, send, reply, resolve after their request: the text is gone, and   *)
(* the page reads.  createConversation's answer is followed to its end.      *)
Answered(s) ==
  /\ s.pc \in {"done", "refused"} /\ sends' = sends \ {s}
  /\ draft' = IF s.here /\ s.pc = "done" /\ s.kind # "resolve"
              THEN [draft EXCEPT ![s.who] = 0] ELSE draft
  /\ failed' = IF s.pc = "refused" THEN [failed EXCEPT ![s.text] = @ + 1] ELSE failed
  /\ FreeSlots(s.who, loads) # {}
  /\ loads' = IF s.kind = "create"
              THEN loads \cup {[ReadCall(s.who, List, s.ticket, loads) EXCEPT !.here = s.here]}
              ELSE IF s.here THEN loads \cup {ReadCall(s.who, Ticket(s.ticket), 0, loads)} ELSE loads
  /\ UNCHANGED <<stored, place, filter, view, typed, requested, opened>>

(* An error, or the lost answer of a request that was carried out: the text  *)
(* stays in the form.                                                        *)
Failed(s) ==
  /\ s.pc \in {"broken", "done"} /\ sends' = sends \ {s}
  /\ failed' = IF s.kind = "resolve" THEN failed ELSE [failed EXCEPT ![s.text] = @ + 1]
  /\ UNCHANGED <<stored, personVars, loads, typed, requested, opened>>

-----------------------------------------------------------------------------
(* There may be a conversation of an earlier day. *)
SupportInit ==
  /\ tickets \in {<<>>, <<[status |-> "OPEN", last |-> 0]>>}
  /\ messages = {} /\ begun = 0
  /\ place = [p \in People |-> Away] /\ filter = [p \in People |-> "OPEN"]
  /\ view = [p \in People |-> Nothing] /\ draft = [p \in People |-> 0]
  /\ loads = {} /\ sends = {} /\ typed = 0 /\ requested = 0 /\ opened = 0
  /\ failed = [x \in Texts |-> 0]

SupportNext ==
  \/ \E p \in People : \/ \E where \in {Away, List} \cup {Ticket(t) : t \in DOMAIN tickets} : Open(p, where)
                       \/ Poll(p) \/ Type(p) \/ Submit(p)
  \/ \E status \in Statuses : Choose(status)
  \/ Resolve
  \/ \E l \in loads : LoadServed(l) \/ LoadArrives(l) \/ LoadFails(l)
  \/ \E s \in sends : \/ Checked(s) \/ Created(s) \/ Added(s) \/ Resolved(s) \/ Notified(s)
                      \/ Breaks(s) \/ Answered(s) \/ Failed(s)

(* The page's timer goes on, and now and then a read is answered and its     *)
(* answer arrives.  Nothing is assumed of the requests that write.           *)
SupportFairness ==
  \A p \in People :
    /\ WF_supportVars(Poll(p))
    /\ SF_supportVars(\E l \in loads : l.who = p /\ LoadServed(l))
    /\ SF_supportVars(\E l \in loads : l.who = p /\ LoadArrives(l))

SupportSpec == SupportInit /\ [][SupportNext]_supportVars /\ SupportFairness

-----------------------------------------------------------------------------
(* Rows, pages and calls have their types. *)
SupportTypeOK ==
  /\ tickets \in Seq([status : Statuses, last : {0} \cup Times]) /\ Len(tickets) <= MaxTickets
  /\ messages \subseteq [time : Times, ticket : DOMAIN tickets, role : People, text : Texts]
  /\ begun \in 0..MaxRequests
  /\ \A p \in People : /\ place[p] \in {Away, List} \cup {Ticket(t) : t \in DOMAIN tickets}
                       /\ filter[p] \in Statuses /\ draft[p] \in 0..MaxTexts
                       /\ view[p].status \in Statuses \cup {"none", "list"}
  /\ \A l \in loads : l.who \in People /\ l.slot \in 1..(MaxPolls + 2)
  /\ \A s \in sends : s.pc \in {"sent", "checked", "refused", "stored", "done", "broken"}
  /\ failed \in [Texts -> Nat]

(* A text is stored once, and once more for every request that ended with an *)
(* error, whatever pages were opened meanwhile (SupportPage submit,          *)
(* SupportConversationPage send).                                            *)
SentOnce ==
  \A x \in Texts : Cardinality({m \in messages : m.text = x}) <= failed[x] + 1

(* A message reaches the page of everyone who stays on its conversation,     *)
(* though reads fail, cross and come late (the interval of load in           *)
(* support/[id]/page.tsx and admin/support/[id]/page.tsx).                   *)
MessagesReachThePage ==
  \A p \in People, t \in 1..MaxTickets, time \in Times :
    (place[p] = Ticket(t) /\ \E m \in messages : m.time = time /\ m.ticket = t)
      ~> (time \in view[p].ids \/ place[p] # Ticket(t))

(* "This support conversation is resolved" (support.service.ts:75): it takes *)
(* no message of the user.  The code does not hold it: the status is read    *)
(* before the transaction.                                                   *)
ResolvedTakesNothing ==
  [][\A m \in messages' \ messages :
       m.role = "USER" /\ m.ticket \in DOMAIN tickets => tickets[m.ticket].status = "OPEN"]_supportVars

(* lastMessageAt, by which lists are ordered, is the time of the last        *)
(* message.  The code does not hold it when two transactions cross.          *)
LastIsLast ==
  \A t \in DOMAIN tickets : \A m \in messages : m.ticket = t => m.time <= tickets[t].last

=============================================================================
