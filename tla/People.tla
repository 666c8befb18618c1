------------------------------- MODULE People -------------------------------
(***************************************************************************)
(* How other people are found and shown: the search page with its pause,   *)
(* its cache and its cards, and the page of one person, whose picture is   *)
(* resolved and loaded apart, over the accounts that may be seen.          *)
(***************************************************************************)
EXTENDS Integers, Sequences, FiniteSets

CONSTANTS
  Queries,       \* what may be searched for
  NoQuery,       \* the empty query, no results
  Members,       \* accounts whose pages may be opened
  Portraits,     \* pictures they may have
  Nothing,       \* no picture, no account
  MaxSearches,   \* bound: changes of the query
  MaxOpenings,   \* bound: pages opened
  MaxTurns,      \* bound: changes of a picture or of a verification
  MaxRecents     \* slice(0, 6)

ASSUME PeopleAssumption ==
  /\ NoQuery \notin Queries /\ Nothing \notin Members \cup Portraits
  /\ {MaxSearches, MaxOpenings, MaxTurns, MaxRecents} \subseteq Nat

VARIABLES
  site,       \* the page that is open: "connect" or "person"
  query, due, \* due: the pause of 220 ms runs
  found,      \* result: the query it answers
  recents,    \* recentSearches
  searching, searchError,   \* loading, error
  searches,   \* calls of discover under way
  answered,   \* queries whose answer is in the cache
  card,       \* the card of a person with a picture: whether its picture came, and avatarReady
  asked,      \* how often the query changed
  portrait, seen,   \* users: picture, and whether the account is verified
  person,     \* profileId
  about,      \* profile: the account and its picture
  aboutFor,   \* loadedProfileId
  hidden,     \* unavailable
  face,       \* avatarUrl: the picture it shows
  faces,      \* pictures being resolved and loaded
  faceNumber, \* avatarRequestId
  visits,     \* calls of getPublicProfile under way
  kept, old,  \* the cache of public profiles, and the entries older than 10 minutes
  openings, turns

connectVars == <<query, due, found, recents, searching, searchError, searches, answered, card, asked>>
personVars == <<portrait, seen, person, about, aboutFor, hidden, face, faces, faceNumber, visits,
                kept, old, openings, turns>>
peopleVars == <<site, connectVars, personVars>>

(* What the two pages show. *)
ConnectShows ==
  IF query = NoQuery THEN "recents" ELSE IF searching THEN "skeleton" ELSE "results"

PageShows ==
  IF aboutFor # person THEN "skeleton"
  ELSE IF hidden \/ about = Nothing THEN "unavailable" ELSE "person"

PublicProfile == [who : Members, picture : Portraits \cup {Nothing}]
NoCard == [image |-> "none", ready |-> FALSE]

-----------------------------------------------------------------------------
(* A new query stops the pause, and what is under way for the last one is    *)
(* no longer waited for.  An empty one has no results.                       *)
SetQuery(q) ==
  /\ q # query /\ asked < MaxSearches /\ asked' = asked + 1
  /\ query' = q
  /\ searches' = {[s EXCEPT !.live = FALSE] : s \in searches}
  /\ due' = (q # NoQuery)
  /\ IF q = NoQuery
     THEN found' = NoQuery /\ searching' = FALSE /\ searchError' = FALSE /\ card' = NoCard
     ELSE UNCHANGED <<found, searching, searchError, card>>

Search(q) ==
  /\ site = "connect"
  /\ SetQuery(q)
  /\ UNCHANGED <<site, recents, answered, personVars>>

ChooseRecent(i) ==
  /\ query = NoQuery
  /\ SetQuery(recents[i])
  /\ UNCHANGED <<site, recents, answered, personVars>>

ClearRecents ==
  /\ query = NoQuery /\ recents # <<>>
  /\ recents' = <<>>
  /\ UNCHANGED <<site, query, due, found, searching, searchError, searches, answered, card, asked,
                 personVars>>

Remembered(q) ==
  LET all == <<q>> \o SelectSeq(recents, LAMBDA r : r # q)
  IN  SubSeq(all, 1, IF Len(all) < MaxRecents THEN Len(all) ELSE MaxRecents)

(* The person found may have a picture, whose loading the card waits for.    *)
Show(q) ==
  /\ found' = q /\ recents' = Remembered(q)
  /\ searching' = FALSE /\ searchError' = FALSE
  /\ \E i \in {"none", "loading"} : card' = [image |-> i, ready |-> i = "none"]

(* The pause is over: a cached answer is shown at once, and cards of persons *)
(* found before stay; otherwise the results give way to a skeleton.          *)
PauseEnds ==
  /\ due /\ due' = FALSE
  /\ IF query \in answered
     THEN /\ found' = query /\ recents' = Remembered(query)
          /\ searching' = FALSE /\ searchError' = FALSE
          /\ \/ card.image # "none" /\ card' = [card EXCEPT !.ready = FALSE]
             \/ \E i \in {"none", "loading"} : card' = [image |-> i, ready |-> i = "none"]
          /\ UNCHANGED searches
     ELSE /\ searches' = searches \cup {[number |-> asked, query |-> query, live |-> TRUE]}
          /\ searching' = TRUE /\ card' = NoCard
          /\ UNCHANGED <<found, recents, searchError>>
  /\ UNCHANGED <<site, query, answered, asked, personVars>>

(* A mutant: whatever comes is shown. *)
SearchArrivesAlways(s) ==
  /\ searches' = searches \ {s} /\ answered' = answered \cup {s.query}
  /\ Show(s.query)
  /\ UNCHANGED <<site, query, due, asked, personVars>>

(* Every answer is cached; that of the present query is shown. *)
SearchArrives(s) ==
  /\ searches' = searches \ {s} /\ answered' = answered \cup {s.query}
  /\ IF s.live THEN Show(s.query) ELSE UNCHANGED <<found, recents, searching, searchError, card>>
  /\ UNCHANGED <<site, query, due, asked, personVars>>

SearchFails(s) ==
  /\ searches' = searches \ {s}
  /\ IF s.live THEN searching' = FALSE /\ searchError' = TRUE
     ELSE UNCHANGED <<searching, searchError>>
  /\ UNCHANGED <<site, query, due, found, recents, answered, card, asked, personVars>>

(* onReady: a picture that came shows the card, one that failed does not.    *)
CardLoads(ok) ==
  /\ card.image = "loading"
  /\ card' = [image |-> IF ok THEN "loaded" ELSE "failed", ready |-> ok]
  /\ UNCHANGED <<site, query, due, found, recents, searching, searchError, searches, answered, asked,
                 personVars>>

(* Following (module Toggle) changes the person's counter, and with it the   *)
(* object the card is made from: it waits for its picture once more.         *)
FollowFromCard ==
  /\ card.ready /\ card.image = "loaded"
  /\ card' = [card EXCEPT !.ready = FALSE]
  /\ UNCHANGED <<site, query, due, found, recents, searching, searchError, searches, answered, asked,
                 personVars>>

-----------------------------------------------------------------------------
(* resolveAvatar: what is under way for an earlier picture is dropped. *)
ResolveFace(p) ==
  /\ face' = Nothing
  /\ faceNumber' = faceNumber + 1
  /\ faces' = IF p = Nothing THEN faces ELSE faces \cup {[number |-> faceNumber', picture |-> p]}

ShowPerson(a) ==
  /\ about' = a /\ aboutFor' = a.who /\ hidden' = FALSE
  /\ ResolveFace(a.picture)

(* The effect of a new profileId ends that of the old one. *)
OpenPerson(p) ==
  /\ site = "person" /\ p # person
  /\ openings < MaxOpenings /\ openings' = openings + 1
  /\ person' = p
  /\ LET others == {[v EXCEPT !.live = FALSE] : v \in visits}
         call == [number |-> openings', who |-> p, live |-> kept[p] = Nothing, served |-> FALSE,
                  got |-> Nothing]
     IN  visits' = IF kept[p] # Nothing /\ p \notin old THEN others ELSE others \cup {call}
  /\ IF kept[p] # Nothing THEN ShowPerson([who |-> p, picture |-> kept[p].picture])
     ELSE /\ UNCHANGED <<about, aboutFor, hidden, face>>
          /\ faceNumber' = faceNumber + 1 /\ UNCHANGED faces
  /\ UNCHANGED <<site, connectVars, portrait, seen, kept, old, turns>>

(* getPublicProfile: only a verified account has one. *)
PersonServed(v) ==
  /\ ~v.served
  /\ visits' = (visits \ {v}) \cup {[v EXCEPT !.served = TRUE,
       !.got = IF v.who \in seen THEN [who |-> v.who, picture |-> portrait[v.who]] ELSE Nothing]}
  /\ UNCHANGED <<site, connectVars, portrait, seen, person, about, aboutFor, hidden, face, faces,
                 faceNumber, kept, old, openings, turns>>

(* An answer goes to the cache, whose listener shows it if it is about the   *)
(* account of the page, whoever asked; so does the caller that waits.        *)
PersonArrives(v) ==
  /\ v.served /\ visits' = visits \ {v}
  /\ IF v.got = Nothing
     THEN /\ IF v.live THEN hidden' = TRUE /\ aboutFor' = person ELSE UNCHANGED <<hidden, aboutFor>>
          /\ UNCHANGED <<about, face, faces, faceNumber, kept, old>>
     ELSE /\ kept' = [kept EXCEPT ![v.who] = v.got] /\ old' = old \ {v.who}
          /\ IF v.who = person THEN ShowPerson(v.got)
             ELSE UNCHANGED <<about, aboutFor, hidden, face, faces, faceNumber>>
  /\ UNCHANGED <<site, connectVars, portrait, seen, person, openings, turns>>

PersonFails(v) ==
  /\ visits' = visits \ {v}
  /\ IF v.live THEN hidden' = TRUE /\ aboutFor' = person ELSE UNCHANGED <<hidden, aboutFor>>
  /\ UNCHANGED <<site, connectVars, portrait, seen, person, about, face, faces, faceNumber, kept,
                 old, openings, turns>>

(* A mutant: avatarRequestId is not compared. *)
FaceComesLate(f, ok) ==
  /\ faces' = faces \ {f}
  /\ face' = IF ok THEN f.picture ELSE Nothing
  /\ UNCHANGED <<site, connectVars, portrait, seen, person, about, aboutFor, hidden, faceNumber,
                 visits, kept, old, openings, turns>>

(* finish: resolved and loaded, or failed, or not there after 5 s. *)
FaceComes(f, ok) ==
  /\ faces' = faces \ {f}
  /\ face' = IF f.number # faceNumber THEN face ELSE IF ok THEN f.picture ELSE Nothing
  /\ UNCHANGED <<site, connectVars, portrait, seen, person, about, aboutFor, hidden, faceNumber,
                 visits, kept, old, openings, turns>>

-----------------------------------------------------------------------------
(* updateProfile by its owner; an account is verified or loses it. *)
PortraitChanges(p, q) ==
  /\ site = "person" /\ turns < MaxTurns /\ turns' = turns + 1
  /\ portrait' = [portrait EXCEPT ![p] = q]
  /\ UNCHANGED <<site, connectVars, seen, person, about, aboutFor, hidden, face, faces, faceNumber,
                 visits, kept, old, openings>>

VerificationChanges(p) ==
  /\ site = "person" /\ turns < MaxTurns /\ turns' = turns + 1
  /\ seen' = IF p \in seen THEN seen \ {p} ELSE seen \cup {p}
  /\ UNCHANGED <<site, connectVars, portrait, person, about, aboutFor, hidden, face, faces,
                 faceNumber, visits, kept, old, openings>>

EntryAges(p) ==
  /\ kept[p] # Nothing /\ p \notin old /\ old' = old \cup {p}
  /\ UNCHANGED <<site, connectVars, portrait, seen, person, about, aboutFor, hidden, face, faces,
                 faceNumber, visits, kept, openings, turns>>

-----------------------------------------------------------------------------
PeopleInit ==
  /\ site \in {"connect", "person"}
  /\ query = NoQuery /\ due = FALSE /\ found = NoQuery /\ recents = <<>>
  /\ searching = FALSE /\ searchError = FALSE /\ searches = {} /\ answered = {}
  /\ card = NoCard /\ asked = 0
  /\ portrait \in [Members -> Portraits] /\ seen = Members
  /\ person = Nothing /\ about = Nothing /\ aboutFor = Nothing /\ hidden = FALSE
  /\ face = Nothing /\ faces = {} /\ faceNumber = 0 /\ visits = {}
  /\ kept = [p \in Members |-> Nothing] /\ old = {} /\ openings = 0 /\ turns = 0

PeopleNext ==
  \/ \E q \in Queries \cup {NoQuery} : Search(q)
  \/ \E i \in DOMAIN recents : ChooseRecent(i)
  \/ ClearRecents \/ PauseEnds \/ FollowFromCard
  \/ \E s \in searches : SearchArrives(s) \/ SearchFails(s)
  \/ \E ok \in BOOLEAN : CardLoads(ok)
  \/ \E p \in Members : OpenPerson(p) \/ VerificationChanges(p) \/ EntryAges(p)
  \/ \E p \in Members, q \in Portraits \cup {Nothing} : PortraitChanges(p, q)
  \/ \E v \in visits : PersonServed(v) \/ PersonArrives(v) \/ PersonFails(v)
  \/ \E f \in faces, ok \in BOOLEAN : FaceComes(f, ok)

PeopleSpec == PeopleInit /\ [][PeopleNext]_peopleVars

-----------------------------------------------------------------------------
(* Pages, calls and accounts have their types. *)
PeopleTypeOK ==
  /\ site \in {"connect", "person"} /\ {query, found} \subseteq Queries \cup {NoQuery}
  /\ {due, searching, searchError, hidden} \subseteq BOOLEAN
  /\ recents \in Seq(Queries) /\ Len(recents) <= MaxRecents /\ answered \subseteq Queries
  /\ searches \subseteq [number : 0..MaxSearches, query : Queries, live : BOOLEAN]
  /\ card \in [image : {"none", "loading", "loaded", "failed"}, ready : BOOLEAN]
  /\ portrait \in [Members -> Portraits \cup {Nothing}] /\ {seen, old} \subseteq SUBSET Members
  /\ {person, aboutFor} \subseteq Members \cup {Nothing} /\ about \in PublicProfile \cup {Nothing}
  /\ face \in Portraits \cup {Nothing} /\ faces \subseteq [number : Nat, picture : Portraits]
  /\ visits \subseteq [number : 0..MaxOpenings, who : Members, live : BOOLEAN, served : BOOLEAN,
                       got : PublicProfile \cup {Nothing}]
  /\ kept \in [Members -> PublicProfile \cup {Nothing}]
  /\ faceNumber \in Nat /\ asked \in Nat /\ openings \in Nat /\ turns \in Nat

(* What was asked for is what is shown, in whatever order answers of earlier *)
(* queries, pages and pictures come: once nothing is waited for, the results *)
(* are those of the query (connect/page.tsx); the page of an account shows   *)
(* that account, and no picture but its own (profile/[id]/page.tsx           *)
(* resolveAvatar).  A skeleton waits for a search that somebody awaits.      *)
ResultsFitQuery == ConnectShows = "results" /\ ~due /\ ~searchError => found = query
PersonShownIsAsked ==
  PageShows = "person" =>
    /\ about.who = person
    /\ face # Nothing => face = about.picture
SkeletonIsAwaited == ConnectShows = "skeleton" => due \/ \E s \in searches : s.live
ShownIsAskedFor == ResultsFitQuery /\ PersonShownIsAsked /\ SkeletonIsAwaited

(* A card whose picture came, or failed, shows its person.  The code does    *)
(* not hold it: after a follow nothing calls onReady again, and for a        *)
(* picture that failed it is called with false.                              *)
CardsShowPersons == card.image \in {"loaded", "failed"} => card.ready

(* A page that is shown is of an account that may be seen.  The code does    *)
(* not hold it: the answer was cached.                                       *)
ShownMayBeSeen == PageShows = "person" => person \in seen

=============================================================================
