------------------------------ MODULE Comments ------------------------------
(***************************************************************************)
(* The comments of one home: the dialog of one user, which lists, posts    *)
(* and answers them, the cached list behind it, and the rows everybody     *)
(* adds to.                                                                *)
(***************************************************************************)
EXTENDS Naturals, FiniteSets

CONSTANTS
  MaxComments,  \* bound: rows
  MaxLists,     \* bound: GETs of the list under way
  ListLimit     \* 500 in the code

ASSUME CommentsAssumption == MaxComments \in Nat /\ ListLimit \in Nat

VARIABLES
  comments,    \* how many rows there are; comment c is the c-th
  parentOf,    \* listing_comments.parentId, 0 for null
  cachedList,  \* the client cache of the list; 0 \in it stands for no entry
  cacheFresh,  \* it is younger than ten minutes
  dialog,      \* closed, loading, ready
  listings,    \* GETs of the list: the dialog's own, for a cached one, of dialogs closed since
  thread,      \* what the dialog lists
  listedTwice,    \* comments it lists twice
  replyTo,     \* replyParentId
  posting,     \* the POST of the dialog
  own,         \* history: comments this dialog posted and was answered
  crossing     \* history: comments posted while the dialog was loading

commentVars == <<comments, parentOf, cachedList, cacheFresh, dialog, listings, thread, listedTwice,
                 replyTo, posting, own, crossing>>

Comment == 1..MaxComments
NoEntry == {0}
Listing == [shown : BOOLEAN, served : BOOLEAN, got : SUBSET Comment]
NewListing(shown) == [shown |-> shown, served |-> FALSE, got |-> {}]
NoPost == [pc |-> "idle", parent |-> 0, row |-> 0, crossed |-> FALSE]

(* The tree: first-level comments and the answers to them; an answer to an   *)
(* answer is listed but has no place in it.                                  *)
InTree == {c \in thread : parentOf[c] = 0 \/ (parentOf[c] \in thread /\ parentOf[parentOf[c]] = 0)}

-----------------------------------------------------------------------------
(* ListingsService *)

(* getListingComments: the oldest 500. *)
Listed == {c \in 1..comments : c <= ListLimit}

(* addListingComment: the parent belongs to the home. *)
AddComment(parent) ==
  /\ comments < MaxComments /\ comments' = comments + 1
  /\ parent \in 0..comments
  /\ parentOf' = [parentOf EXCEPT ![comments + 1] = parent]

CommentElsewhere ==
  /\ \E parent \in {0} \cup {c \in 1..comments : parentOf[c] = 0} : AddComment(parent)
  /\ UNCHANGED <<cachedList, cacheFresh, dialog, listings, thread, listedTwice, replyTo, posting,
                 own, crossing>>

-----------------------------------------------------------------------------
(* The dialog loads: from the cache, and when that is old refreshes the      *)
(* cache; or it waits for the list.  A GET of an earlier dialog may still be *)
(* under way.                                                                *)
OpenComments ==
  /\ dialog = "closed" /\ Cardinality(listings) < MaxLists
  /\ IF cachedList # NoEntry
     THEN /\ dialog' = "ready" /\ thread' = cachedList
          /\ listings' = IF cacheFresh THEN listings ELSE listings \cup {NewListing(FALSE)}
     ELSE /\ dialog' = "loading" /\ thread' = {}
          /\ listings' = listings \cup {NewListing(TRUE)}
  /\ listedTwice' = {} /\ own' = {} /\ crossing' = {} /\ replyTo' = 0
  /\ UNCHANGED <<comments, parentOf, cachedList, cacheFresh, posting>>

ListServed(l) ==
  /\ ~l.served
  /\ listings' = (listings \ {l}) \cup {[l EXCEPT !.served = TRUE, !.got = Listed]}
  /\ UNCHANGED <<comments, parentOf, cachedList, cacheFresh, dialog, thread, listedTwice, replyTo,
                 posting, own, crossing>>

(* A mutant: the dialog takes whatever list arrives. *)
ListArrivesAlways(l) ==
  /\ l.served
  /\ cachedList' = l.got /\ cacheFresh' = TRUE
  /\ IF dialog # "closed"
     THEN thread' = l.got /\ listedTwice' = {} /\ dialog' = "ready"
     ELSE UNCHANGED <<thread, listedTwice, dialog>>
  /\ listings' = listings \ {l}
  /\ UNCHANGED <<comments, parentOf, replyTo, posting, own, crossing>>

(* The list goes to the cache, and to the dialog that waits for it; that of  *)
(* a dialog closed since (active) goes to the cache alone.                   *)
ListArrives(l) ==
  /\ l.served
  /\ cachedList' = l.got /\ cacheFresh' = TRUE
  /\ IF l.shown
     THEN thread' = l.got /\ listedTwice' = {} /\ dialog' = "ready"
     ELSE UNCHANGED <<thread, listedTwice, dialog>>
  /\ listings' = listings \ {l}
  /\ UNCHANGED <<comments, parentOf, replyTo, posting, own, crossing>>

ListFails(l) ==
  /\ listings' = listings \ {l}
  /\ dialog' = IF l.shown THEN "ready" ELSE dialog
  /\ UNCHANGED <<comments, parentOf, cachedList, cacheFresh, thread, listedTwice, replyTo, posting,
                 own, crossing>>

ListAges ==
  /\ cacheFresh /\ cachedList # NoEntry /\ cacheFresh' = FALSE
  /\ UNCHANGED <<comments, parentOf, cachedList, dialog, listings, thread, listedTwice, replyTo,
                 posting, own, crossing>>

-----------------------------------------------------------------------------
(* startReply, onCancelReply *)
ChooseParent(c) ==
  /\ dialog # "closed" /\ replyTo # c
  /\ c \in {0} \cup InTree
  /\ replyTo' = c
  /\ UNCHANGED <<comments, parentOf, cachedList, cacheFresh, dialog, listings, thread, listedTwice,
                 posting, own, crossing>>

(* submitComment: the composer is locked until the answer. *)
SubmitComment ==
  /\ dialog # "closed" /\ posting.pc = "idle"
  /\ posting' = [NoPost EXCEPT !.pc = "sent", !.parent = replyTo, !.crossed = dialog = "loading"]
  /\ UNCHANGED <<comments, parentOf, cachedList, cacheFresh, dialog, listings, thread, listedTwice,
                 replyTo, own, crossing>>

CommentStored ==
  /\ posting.pc = "sent"
  /\ AddComment(posting.parent)
  /\ posting' = [posting EXCEPT !.pc = "stored", !.row = comments + 1]
  /\ UNCHANGED <<cachedList, cacheFresh, dialog, listings, thread, listedTwice, replyTo, own,
                 crossing>>

(* The answer: the comment is put in front of whatever is listed by now.     *)
CommentAnswered ==
  LET c == posting.row IN
  /\ posting.pc = "stored" /\ dialog # "closed"
  /\ thread' = thread \cup {c}
  /\ listedTwice' = IF c \in thread THEN listedTwice \cup {c} ELSE listedTwice
  /\ own' = own \cup {c}
  /\ crossing' = IF posting.crossed THEN crossing \cup {c} ELSE crossing
  /\ replyTo' = 0 /\ posting' = NoPost
  /\ UNCHANGED <<comments, parentOf, cachedList, cacheFresh, dialog, listings>>

(* The text stays for another try. *)
CommentFails ==
  /\ posting.pc # "idle" /\ dialog # "closed"
  /\ posting' = NoPost
  /\ UNCHANGED <<comments, parentOf, cachedList, cacheFresh, dialog, listings, thread, listedTwice,
                 replyTo, own, crossing>>

(* A POST under way may still reach the server; a GET no longer shows its    *)
(* list.                                                                     *)
CloseComments ==
  /\ dialog # "closed" /\ dialog' = "closed"
  /\ thread' = {} /\ listedTwice' = {} /\ own' = {} /\ crossing' = {} /\ replyTo' = 0
  /\ \/ posting.pc = "sent" /\ AddComment(posting.parent)
     \/ UNCHANGED <<comments, parentOf>>
  /\ posting' = NoPost
  /\ listings' = {[l EXCEPT !.shown = FALSE] : l \in listings}
  /\ UNCHANGED <<cachedList, cacheFresh>>

-----------------------------------------------------------------------------
CommentsInit ==
  /\ comments = 0 /\ parentOf = [c \in Comment |-> 0]
  /\ cachedList = NoEntry /\ cacheFresh = TRUE
  /\ dialog = "closed" /\ listings = {} /\ thread = {} /\ listedTwice = {}
  /\ replyTo = 0 /\ posting = NoPost /\ own = {} /\ crossing = {}

CommentsNext ==
  \/ CommentElsewhere \/ OpenComments \/ CloseComments
  \/ (\E l \in listings : ListServed(l) \/ ListArrives(l) \/ ListFails(l)) \/ ListAges
  \/ \E c \in {0} \cup thread : ChooseParent(c)
  \/ SubmitComment \/ CommentStored \/ CommentAnswered \/ CommentFails

CommentsSpec == CommentsInit /\ [][CommentsNext]_commentVars

-----------------------------------------------------------------------------
(* Rows, cache and dialog have their types. *)
CommentsTypeOK ==
  /\ comments \in 0..MaxComments /\ parentOf \in [Comment -> 0..MaxComments]
  /\ cachedList \subseteq 0..MaxComments /\ cacheFresh \in BOOLEAN
  /\ dialog \in {"closed", "loading", "ready"}
  /\ listings \subseteq Listing
  /\ thread \subseteq Comment /\ listedTwice \subseteq thread /\ replyTo \in 0..MaxComments
  /\ posting \in [pc : {"idle", "sent", "stored"}, parent : 0..MaxComments,
                  row : 0..MaxComments, crossed : BOOLEAN]
  /\ own \subseteq Comment /\ crossing \subseteq Comment

(* A comment the user sent once the dialog had its list is in the tree once, *)
(* whatever lists arrive later - of a dialog closed before, or to refresh    *)
(* the cache - and whatever others post meanwhile, unless it answers one     *)
(* that was sent earlier, or an answer (ListingComments.tsx).                *)
OwnCommentsShown ==
  \A c \in own \ crossing :
    \/ c \in InTree /\ c \notin listedTwice
    \/ parentOf[c] \in crossing
    \/ parentOf[c] # 0 /\ parentOf[parentOf[c]] # 0

(* What was sent while the dialog still waited for its list is shown as      *)
(* well.  The code does not keep it: the list, served earlier, replaces it.  *)
CrossingCommentsShown == crossing \subseteq thread

=============================================================================
