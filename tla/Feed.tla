-------------------------------- MODULE Feed --------------------------------
(***************************************************************************)
(* What a student sees of one home: the feed (app/dashboard) and the       *)
(* home's own page (app/dashboard/listings/[id]), which the student moves  *)
(* between, with the caches both read first.                               *)
(*                                                                         *)
(* A behaviour is about one thing the student does with the home: like it, *)
(* recommend its provider, or save it.  Anything else (counts, pictures,   *)
(* comments, prefetched pages) is left out.                                *)
(*                                                                         *)
(* "doubt" is history: the value may be older than a write of the student  *)
(* for a reason the code does not handle.  For recommendations and bookmarks *)
(* the pages first look up who the student is, in the cache of the account.  *)
(***************************************************************************)
EXTENDS Naturals, FiniteSets

CONSTANTS
  MaxActs,     \* bound: writes
  MaxVisits,   \* bound: pages opened
  MaxLoads     \* bound: reads under way when one is started

ASSUME FeedAssumption == MaxActs \in Nat /\ MaxVisits \in Nat /\ MaxLoads \in Nat

VARIABLES
  thing,       \* "like", "recommend" or "save"
  kept,        \* the row on the server
  standing,    \* of the student's profile, on the server; an account is a student's once approved
  account,     \* the cached user: none, not yet a student, or a student
  asks,        \* the page took the user for a student, and asked for the lists
  place,       \* the page that is shown: "away", "feed", "home"
  visit,       \* its number
  flag,        \* what the page holds: the item's flag, or the lists of ids
  doubt,       \* history: about flag
  heart,       \* what the feed's button shows, once it is there: it keeps its own value
  ready,       \* the button can be pressed
  status,      \* accountStatus
  cache,       \* the list the feed reads: homes, recommendations or bookmarks
  detail,      \* the home's own entry, which tells of likes only
  writes,      \* writes under way
  loads,       \* reads under way
  offer,       \* what "Try again" asks for, and the feed it speaks of
  acts         \* writes so far

feedVars == <<thing, kept, standing, account, asks, place, visit, flag, doubt, heart, ready, status,
              cache, detail, writes, loads, offer, acts>>
pageVars == <<place, visit, flag, doubt, heart, ready, asks>>
userVars == <<standing, account, status>>
others   == <<thing, userVars, asks>>

Seen == {"none", "on", "off"}
Entry == [value : Seen, fresh : BOOLEAN, doubt : BOOLEAN]
NotCached == [value |-> "none", fresh |-> FALSE, doubt |-> FALSE]
AsSeen(b) == IF b THEN "on" ELSE "off"
Write == [number : 1..MaxActs, want : BOOLEAN, from : {"feed", "home", "nobody"}, visit : 1..MaxVisits,
          served : BOOLEAN, doubt : BOOLEAN]
Offer == [want : Seen, visit : 0..MaxVisits]
NoOffer == [want |-> "none", visit |-> 0]
Load == [kind : {"first", "list", "page", "entry"}, visit : 1..MaxVisits, value : Seen, doubt : BOOLEAN]

(* Reads a page starts: from the cache, or from the server. *)
Reading(kind, value, uncertain) ==
  [kind |-> kind, visit |-> visit + 1, value |-> value, doubt |-> uncertain \/ writes # {}]

-----------------------------------------------------------------------------
(* Opening the two pages *)

(* Role of the account on the server. *)
Role == IF standing = "approved" THEN "student" ELSE "unverified"

Enter(p) ==
  /\ place = "away" /\ visit < MaxVisits
  /\ place' = p /\ visit' = visit + 1
  /\ Cardinality(loads') <= MaxLoads

(* The feed shows the homes of its cache and asks for them in any case; a    *)
(* like button appears with the home.  The home's entry is written again.    *)
OpenFeedForLikes ==
  /\ thing = "like" /\ place = "away"
  /\ heart' = cache.value /\ ready' = (cache.value # "none")
  /\ flag' = (cache.value = "on") /\ doubt' = cache.doubt
  /\ detail' = IF cache.value = "none" THEN detail ELSE [cache EXCEPT !.fresh = TRUE]
  /\ loads' = loads \cup {Reading(IF cache.value = "none" THEN "first" ELSE "list", "none", FALSE)}
  /\ Enter("feed")
  /\ UNCHANGED <<others, kept, cache, writes, offer, acts>>

(* The user comes from the cache, or is asked for first.  A student's lists  *)
(* of ids are those of the cache, when they are all there; an old one is     *)
(* asked for as well.  The button is there before, and shows the provider as *)
(* not recommended; it can be pressed as soon as the cache has answered.     *)
OpenFeedForIds ==
  /\ thing # "like" /\ place = "away"
  /\ account' = IF account = "none" THEN Role ELSE account
  /\ asks' = (account' = "student") /\ status' = "unknown"
  /\ heart' = "off" /\ flag' = FALSE /\ doubt' = (asks' \/ writes # {})
  /\ ready' = (asks' /\ thing = "recommend" /\ cache.value # "none")
  /\ loads' = IF ~asks' THEN loads ELSE loads
       \cup (IF cache.value # "none" THEN {Reading("page", cache.value, cache.doubt)}
                                    ELSE {Reading("first", "none", FALSE)})
       \cup (IF cache.value # "none" /\ ~cache.fresh THEN {Reading("list", "none", FALSE)} ELSE {})
  /\ Enter("feed")
  /\ UNCHANGED <<thing, standing, kept, cache, detail, writes, offer, acts>>

(* The home's page shows its entry at once, and once more when all the rest  *)
(* is there; an old entry is asked for, but not shown.                      *)
OpenHomeForLikes ==
  /\ thing = "like" /\ place = "away"
  /\ flag' = (detail.value = "on") /\ doubt' = detail.doubt
  /\ heart' = "none" /\ ready' = (detail.value # "none")
  /\ loads' = loads
       \cup {Reading("page", detail.value, detail.doubt)}
       \cup (IF detail.value # "none" /\ ~detail.fresh THEN {Reading("entry", "none", FALSE)} ELSE {})
  /\ Enter("home")
  /\ UNCHANGED <<others, kept, cache, detail, writes, offer, acts>>

(* Recommendations and bookmarks are asked for past their caches, but only   *)
(* if the cached user is a student.  Otherwise the home is shown as not      *)
(* saved, and can be saved; the provider cannot be recommended.              *)
OpenHomeForIds ==
  /\ thing # "like" /\ place = "away"
  /\ asks' = (account = "student") /\ status' = IF asks' THEN "unknown" ELSE "approved"
  /\ flag' = FALSE /\ doubt' = (asks' \/ writes # {})
  /\ heart' = "none" /\ ready' = (~asks' /\ thing = "save")
  /\ loads' = IF asks' THEN loads \cup {Reading("page", "none", FALSE)} ELSE loads
  /\ Enter("home")
  /\ UNCHANGED <<thing, standing, account, kept, cache, detail, writes, offer, acts>>

LeavePage ==
  /\ place # "away" /\ place' = "away"
  /\ flag' = FALSE /\ doubt' = TRUE /\ heart' = "none" /\ ready' = FALSE /\ asks' = TRUE
  /\ UNCHANGED <<thing, userVars, visit, kept, cache, detail, writes, loads, offer, acts>>

(* refreshFeed: the cache is dropped, and the homes are asked for past it.   *)
RefreshFeed ==
  /\ thing = "like" /\ place = "feed"
  /\ \A l \in loads : l.visit # visit
  /\ cache' = NotCached
  /\ loads' = loads \cup {[kind |-> "page", visit |-> visit, value |-> "none",
                           doubt |-> writes # {}]}
  /\ UNCHANGED <<others, pageVars, kept, detail, writes, offer, acts>>

(* Ten minutes pass; the entry is still read (isClientCacheFresh).           *)
CacheAges ==
  /\ cache.fresh \/ detail.fresh
  /\ cache' = [cache EXCEPT !.fresh = FALSE] /\ detail' = [detail EXCEPT !.fresh = FALSE]
  /\ UNCHANGED <<others, pageVars, kept, writes, loads, offer, acts>>

(* A recommendation of another provider drops the list of homes.             *)
ListDropped ==
  /\ thing = "like" /\ cache' = NotCached
  /\ UNCHANGED <<others, pageVars, kept, detail, writes, loads, offer, acts>>

-----------------------------------------------------------------------------
(* Reads *)

LoadServed(l) ==
  /\ l.value = "none"
  /\ loads' = (loads \ {l}) \cup {[l EXCEPT !.value = AsSeen(kept)]}
  /\ UNCHANGED <<others, pageVars, kept, cache, detail, writes, offer, acts>>

Written(l) == [value |-> l.value, fresh |-> TRUE, doubt |-> l.doubt]

(* writeClientCache, and the event that shows it to the feed of the moment.  *)
(* The page that read a list because it had none waits for the other reads,  *)
(* and shows the list again.                                                 *)
HomesArrive(l) ==
  /\ l.kind \in {"first", "list"} /\ l.value # "none"
  /\ loads' = (loads \ {l}) \cup (IF l.kind = "first" THEN {[l EXCEPT !.kind = "page"]} ELSE {})
  /\ cache' = Written(l)
  /\ detail' = IF thing = "like" /\ (place = "feed" \/ l.kind = "list") THEN Written(l) ELSE detail
  /\ IF place = "feed"
     THEN /\ flag' = (l.value = "on") /\ doubt' = l.doubt /\ ready' = TRUE
          /\ heart' = IF heart = "none" THEN l.value ELSE heart
     ELSE UNCHANGED <<flag, doubt, ready, heart>>
  /\ UNCHANGED <<others, place, visit, kept, writes, offer, acts>>

(* What was read for a page is shown if the page is still there; the home's *)
(* entry is written with it even if the page is not.                         *)
PageArrives(l) ==
  /\ l.kind = "page" /\ l.value # "none"
  /\ loads' = loads \ {l}
  /\ detail' = IF thing = "like" THEN Written(l) ELSE detail
  /\ IF place # "away" /\ l.visit = visit
     THEN /\ flag' = (l.value = "on") /\ doubt' = l.doubt /\ ready' = TRUE
          /\ heart' = IF place = "feed" /\ heart = "none" THEN l.value ELSE heart
     ELSE UNCHANGED <<flag, doubt, ready, heart>>
  /\ UNCHANGED <<others, place, visit, kept, cache, writes, offer, acts>>

(* A home that is looked at is read ahead (runPrefetch), once at a time; its *)
(* entry is written with what was there when the reads began.                *)
PrefetchHome ==
  /\ thing = "like" /\ place = "feed" /\ heart # "none"
  /\ \A l \in loads : l.kind # "entry"
  /\ loads' = loads
       \cup {[kind |-> "entry", visit |-> visit, value |-> detail.value,
              doubt |-> detail.doubt \/ writes # {}]}
       \cup (IF detail.value # "none" /\ ~detail.fresh
             THEN {[kind |-> "entry", visit |-> visit, value |-> "none", doubt |-> writes # {}]}
             ELSE {})
  /\ Cardinality(loads') <= MaxLoads
  /\ UNCHANGED <<others, pageVars, kept, cache, detail, writes, offer, acts>>

EntryArrives(l) ==
  /\ l.kind = "entry" /\ l.value # "none"
  /\ loads' = loads \ {l}
  /\ detail' = Written(l)
  /\ UNCHANGED <<others, pageVars, kept, cache, writes, offer, acts>>

(* The read fails: the lists of ids are then empty.  The homes and the page  *)
(* stay as they are.                                                         *)
LoadFails(l) ==
  /\ loads' = loads \ {l}
  /\ doubt' = TRUE
  /\ flag' = (flag /\ (thing = "like" \/ l.visit # visit))
  /\ UNCHANGED <<others, place, visit, heart, ready, kept, cache, detail, writes, offer, acts>>

-----------------------------------------------------------------------------
(* Writes *)

(* A write in doubt: another of its kind, or on the home's page a read, is   *)
(* under way with it.                                                        *)
SendWrite(want, from, number) ==
  /\ acts < MaxActs /\ acts' = acts + 1
  /\ writes' = {[r EXCEPT !.doubt = TRUE] : r \in writes}
       \cup {[number |-> acts', want |-> want, from |-> from, visit |-> number,
              served |-> FALSE,
              doubt |-> writes # {} \/ (from = "home" /\ loads # {})]}
  /\ loads' = {[l EXCEPT !.doubt = TRUE] : l \in loads}

Pending == \E r \in writes : r.visit = visit /\ r.from # "nobody"

(* The feed's own buttons change at once, and ask the page to send what it   *)
(* finds right: a like what the button shows, a recommendation the opposite  *)
(* of the page's list.  They wait for the answer.                            *)
LikeInFeed ==
  /\ thing = "like" /\ place = "feed" /\ ready /\ ~Pending
  /\ heart' = AsSeen(heart = "off")
  /\ SendWrite(heart = "off", "feed", visit)
  /\ UNCHANGED <<others, place, visit, flag, doubt, ready, kept, cache, detail, offer>>

RecommendInFeed ==
  /\ thing = "recommend" /\ place = "feed" /\ ready /\ ~Pending
  /\ heart' = AsSeen(heart = "off")
  /\ SendWrite(~flag, "feed", visit)
  /\ UNCHANGED <<others, place, visit, flag, doubt, ready, kept, cache, detail, offer>>

(* toggleBookmark of the feed: not while the profile is under review; a      *)
(* second click does not wait for the first.                                 *)
SaveInFeed ==
  /\ thing = "save" /\ place = "feed" /\ status = "approved"
  /\ SendWrite(~flag, "feed", visit)
  /\ UNCHANGED <<others, pageVars, kept, cache, detail, offer>>

(* toggleLike and toggleRecommendation of the home's page wait for the       *)
(* answer, toggleBookmark does not.                                          *)
ActAtHome ==
  /\ place = "home" /\ ready
  /\ thing # "save" => ~Pending
  /\ thing = "save" => status = "approved"
  /\ SendWrite(~flag, "home", visit)
  /\ UNCHANGED <<others, pageVars, kept, cache, detail, offer>>

(* The error message of a recommendation or bookmark of the feed. *)
TryAgain ==
  /\ offer # NoOffer /\ offer' = NoOffer
  /\ SendWrite(offer.want = "on", "feed", offer.visit)
  /\ UNCHANGED <<others, pageVars, kept, cache, detail>>

WriteServed(r) ==
  /\ ~r.served /\ r.from # "nobody" /\ standing = "approved"
  /\ writes' = (writes \ {r}) \cup {[r EXCEPT !.served = TRUE]}
  /\ kept' = r.want
  /\ UNCHANGED <<others, pageVars, cache, detail, loads, offer, acts>>

Doubted(e) == [e EXCEPT !.doubt = TRUE]
Patched(r) == IF thing = "like" /\ detail.value # "none"
              THEN [value |-> AsSeen(r.want), fresh |-> TRUE, doubt |-> r.doubt]
              ELSE detail

(* A mutant: the list of recommendations is kept. *)
CacheAfterKept(r) == IF r.from = "feed" /\ thing = "recommend" THEN cache ELSE Doubted(cache)

(* The cache after an answer: only the feed's recommendations drop it. *)
CacheAfter(r) == IF r.from = "feed" /\ thing = "recommend" THEN NotCached ELSE Doubted(cache)

(* onLike, toggleRecommendation, toggleBookmark of the feed: what was asked  *)
(* for is noted.                                                             *)
FeedAnswered(r) ==
  /\ r.from = "feed" /\ r.served
  /\ writes' = writes \ {r}
  /\ IF place = "feed" /\ r.visit = visit
     THEN flag' = r.want /\ doubt' = r.doubt
     ELSE flag' = flag /\ doubt' = TRUE
  /\ cache' = CacheAfter(r) /\ detail' = Patched(r)
  /\ UNCHANGED <<others, place, visit, heart, ready, kept, loads, offer, acts>>

(* The home's page turns what it shows by then. *)
HomeAnswered(r) ==
  /\ r.from = "home" /\ r.served
  /\ writes' = writes \ {r}
  /\ IF place = "home" /\ r.visit = visit
     THEN flag' = ~flag /\ doubt' = (doubt \/ r.doubt)
     ELSE flag' = flag /\ doubt' = TRUE
  /\ cache' = CacheAfter(r) /\ detail' = Patched(r)
  /\ UNCHANGED <<others, place, visit, heart, ready, kept, loads, offer, acts>>

TryOffered(r) == IF r.from = "feed" /\ thing # "like"
                 THEN [want |-> AsSeen(r.want), visit |-> r.visit] ELSE offer

(* It is refused, or its answer is lost: the page says so and stays as it    *)
(* is, and so does the feed's own button.                                    *)
WriteFails(r) ==
  /\ r.from # "nobody"
  /\ writes' = writes \ {r} /\ offer' = TryOffered(r)
  /\ doubt' = (doubt \/ r.served)
  /\ cache' = IF r.served THEN Doubted(cache) ELSE cache
  /\ detail' = IF r.served THEN Doubted(detail) ELSE detail
  /\ UNCHANGED <<others, place, visit, flag, heart, ready, kept, loads, acts>>

(* requestApi gives it up after twelve seconds, or the connection breaks:    *)
(* the page takes it for failed, and the server may do it yet.               *)
WriteGivenUp(r) ==
  /\ r.from # "nobody" /\ ~r.served
  /\ writes' = (writes \ {r}) \cup {[r EXCEPT !.from = "nobody", !.doubt = TRUE]}
  /\ offer' = TryOffered(r)
  /\ doubt' = TRUE /\ cache' = Doubted(cache) /\ detail' = Doubted(detail)
  /\ UNCHANGED <<others, place, visit, flag, heart, ready, kept, loads, acts>>

StrayEnds(r) ==
  /\ r.from = "nobody"
  /\ writes' = writes \ {r}
  /\ kept' \in {kept} \cup (IF standing = "approved" THEN {r.want} ELSE {})
  /\ UNCHANGED <<others, pageVars, cache, detail, loads, offer, acts>>

-----------------------------------------------------------------------------
(* The student's profile is approved, which makes the account a student's.   *)
StandingChanges ==
  /\ standing = "pending" /\ standing' = "approved"
  /\ UNCHANGED <<thing, account, status, kept, pageVars, cache, detail, writes, loads, offer, acts>>

(* The loads of the two pages. *)
StatusSeen ==
  /\ thing # "like" /\ place # "away" /\ status = "unknown" /\ status' = standing
  /\ UNCHANGED <<thing, standing, account, kept, pageVars, cache, detail, writes, loads, offer, acts>>

(* refreshStatus, in a feed that knows of no approval: the cached user is    *)
(* dropped, and not asked for before a feed is opened.                       *)
RefreshStatus ==
  /\ place = "feed" /\ status = "pending" /\ standing = "approved"
  /\ status' = "approved" /\ account' = "none"
  /\ UNCHANGED <<thing, standing, kept, pageVars, cache, detail, writes, loads, offer, acts>>

(* The user is read again: by a feed that found an old copy, or elsewhere.   *)
(* A feed that is shown takes its status from it.                            *)
AccountCached ==
  /\ thing # "like" /\ account' = Role
  /\ status' = IF place = "feed" THEN standing ELSE status
  /\ UNCHANGED <<thing, standing, kept, pageVars, cache, detail, writes, loads, offer, acts>>

FeedInit ==
  /\ thing \in {"like", "recommend", "save"} /\ kept \in BOOLEAN
  /\ standing \in {"pending", "approved"} /\ (thing = "like" => standing = "approved")
  /\ standing = "pending" => ~kept
  /\ account \in {"none", Role} /\ (thing = "like" => account = Role)
  /\ asks = TRUE /\ status = "unknown"
  /\ place = "away" /\ visit = 0 /\ flag = FALSE /\ doubt = TRUE
  /\ heart = "none" /\ ready = FALSE
  /\ cache = NotCached /\ detail = NotCached
  /\ writes = {} /\ loads = {} /\ offer = NoOffer /\ acts = 0

FeedNext ==
  \/ OpenFeedForLikes \/ OpenFeedForIds \/ OpenHomeForLikes \/ OpenHomeForIds
  \/ LeavePage \/ PrefetchHome \/ RefreshFeed \/ CacheAges \/ ListDropped
  \/ \E l \in loads : \/ LoadServed(l) \/ HomesArrive(l) \/ PageArrives(l)
                      \/ EntryArrives(l) \/ LoadFails(l)
  \/ LikeInFeed \/ RecommendInFeed \/ SaveInFeed \/ ActAtHome \/ TryAgain
  \/ \E r \in writes : WriteServed(r) \/ FeedAnswered(r) \/ HomeAnswered(r) \/ WriteFails(r)
                       \/ WriteGivenUp(r) \/ StrayEnds(r)
  \/ StandingChanges \/ StatusSeen \/ RefreshStatus \/ AccountCached

FeedSpec == FeedInit /\ [][FeedNext]_feedVars

-----------------------------------------------------------------------------
(* Pages, caches and writes have their types. *)
FeedTypeOK ==
  /\ thing \in {"like", "recommend", "save"}
  /\ {kept, flag, doubt, ready, asks} \subseteq BOOLEAN
  /\ account \in {"none", "unverified", "student"}
  /\ standing \in {"pending", "approved"} /\ status \in {"unknown", "pending", "approved"}
  /\ place \in {"away", "feed", "home"} /\ visit \in 0..MaxVisits
  /\ heart \in Seen /\ offer \in Offer
  /\ cache \in Entry /\ detail \in Entry
  /\ writes \subseteq Write /\ loads \subseteq Load /\ acts \in 0..MaxActs

(* A page at rest shows what is kept, in whatever order pages were opened  *)
(* and left, caches aged and writes failed, unless a known reason speaks   *)
(* against it: an answer lost, a write given up, writes or reads that        *)
(* crossed, a read that failed, a cache that a like, a bookmark or a         *)
(* recommendation on the home's page leaves as it was, or a page that did    *)
(* not find the cached user to be a student (dashboard/page.tsx,             *)
(* dashboard/listings/[id]/page.tsx, api.ts cachedApiFetch).                 *)
PageShowsStored ==
  place # "away" /\ asks /\ writes = {} /\ loads = {} /\ ~doubt => flag = kept

(* So it does for a page that did not find the user in the cache:            *)
(* setBookmarked(false) in listings/[id]/page.tsx is for other roles.        *)
UnaskedShowsStored ==
  place # "away" /\ ~asks /\ writes = {} /\ loads = {} /\ ~doubt => flag = kept

(* "Rollback handled by LikeButton's optimistic toggle": with no request     *)
(* under way the feed's button shows what is kept.                         *)
ButtonRollsBack ==
  place = "feed" /\ thing = "like" /\ writes = {} /\ loads = {} /\ ~doubt =>
    heart = AsSeen(kept)

=============================================================================
