----------------------------- MODULE Storefront ------------------------------
(***************************************************************************)
(* What the visitors of one store do on its pages and its product's        *)
(* (apps/flutter, apps/market/views/user_views.py, apps/comment): they     *)
(* look, like, bookmark, report and comment, each on several devices,      *)
(* while staff moderate the comments and both go on and off line.          *)
(*                                                                         *)
(* The two buttons read a row and write its opposite later; the bookmark's *)
(* form for a given state locks the Market row first.  A new row's foreign *)
(* key waits for that lock.  Each figure of a page is a query of its own.  *)
(***************************************************************************)
EXTENDS Naturals, FiniteSets

CONSTANTS
  Visitors,
  Keepers,      \* the owner and staff: they see the store while nobody else does
  Calls,        \* requests under way
  Marks,        \* what a visitor may mark: pairs of a button and a page
  MaxComments,  \* bound on the comments; they are numbered as they are made
  RootLimit,    \* PUBLIC_ROOT_LIMIT
  Texts

Pages == {"market", "product"}
StoreBookmark == <<"bookmark", "market">>

ASSUME StorefrontAssumption ==
  /\ IsFiniteSet(Visitors) /\ Visitors # {} /\ Keepers \subseteq Visitors
  /\ Marks \subseteq {"like", "bookmark"} \X Pages /\ StoreBookmark \in Marks
  /\ MaxComments \in Nat \ {0} /\ RootLimit \in Nat \ {0} /\ Texts # {}

VARIABLES
  published,  \* the pages that are
  access,     \* the visitors with an active StoreAccess
  reports,    \* whoever reported a page
  mark,       \* mark[u][m]: the row of visitor u and mark m
  call,    \* call[r]: what it has read
  promised,   \* history: promised[u]: the state of the bookmark that u was told
              \* last by the form, until one of the buttons writes to it
  comment,    \* comment[c]: the Comment row
  post,       \* post[u]: a comment that is checked and not made yet
  form,       \* the row on the form that staff have open, if any
  reader      \* a listing of comments: what it has read, and shows

pageVars == <<published, access>>
markVars == <<mark, call, promised>>
commentVars == <<comment, post, form, reader>>
storefrontVars == <<pageVars, reports, markVars, commentVars>>

MarkState == {"none", "on", "off"}
(* "toggle": on is what the button will write.  "put": on is what the form *)
(* was asked for; found: there was a row, and it is locked.  "page": the   *)
(* likes are counted, the visitor's own is read next; steady: it was not   *)
(* written since, or else the count is not kept.                           *)
CallRow == [at: {"idle", "toggle", "put", "page"}, by: Visitors, of: Marks,
             on: BOOLEAN, found: BOOLEAN,
             likes: 0..Cardinality(Visitors), steady: BOOLEAN]

(* root: 0, or the comment it replies to.  It stays public: nothing writes *)
(* is_public or is_removed.                                                *)
CommentRow == [at: {"new", "there", "gone"}, page: Pages, by: Visitors,
               root: 0..MaxComments, text: Texts]
PostRow == [ready: BOOLEAN, page: Pages, root: 0..MaxComments]
FormRow == [of: 0..MaxComments, row: CommentRow]
ReaderRow == [at: {"none", "roots", "shown"}, roots: SUBSET (1..MaxComments),
              found: SUBSET (1..MaxComments), shown: SUBSET (1..MaxComments)]

NoCall == [at |-> "idle", by |-> CHOOSE u \in Visitors : TRUE, of |-> StoreBookmark,
              on |-> FALSE, found |-> FALSE, likes |-> 0, steady |-> TRUE]
NoComment == [at |-> "new", page |-> "market", by |-> CHOOSE u \in Visitors : TRUE,
              root |-> 0, text |-> CHOOSE x \in Texts : TRUE]
NoPost == [ready |-> FALSE, page |-> "market", root |-> 0]
NoForm == [of |-> 0, row |-> NoComment]
NoReader == [at |-> "none", roots |-> {}, found |-> {}, shown |-> {}]

StorefrontTypeOK ==
  /\ published \subseteq Pages /\ access \subseteq Visitors
  /\ reports \subseteq Visitors \X Pages
  /\ mark \in [Visitors -> [Marks -> MarkState]]
  /\ call \in [Calls -> CallRow]
  /\ promised \in [Visitors -> MarkState]
  /\ comment \in [1..MaxComments -> CommentRow]
  /\ post \in [Visitors -> PostRow] /\ form \in FormRow /\ reader \in ReaderRow

StorefrontInit ==
  /\ published = Pages /\ access = {}
  /\ reports = {}
  /\ mark = [u \in Visitors |-> [m \in Marks |-> "none"]]
  /\ call = [r \in Calls |-> NoCall]
  /\ promised = [u \in Visitors |-> "none"]
  /\ comment = [c \in 1..MaxComments |-> NoComment]
  /\ post = [u \in Visitors |-> NoPost] /\ form = NoForm /\ reader = NoReader

----------------------------------------------------------------------------
(* Who sees what *)

(* viewable_markets *)
Viewable(u) == u \in Keepers \/ (u \in access /\ "market" \in published)
IsOpen(page) == {"market", page} \subseteq published
PublicTo(u, page) == Viewable(u) /\ IsOpen(page)

(* Fault: the form does not lock the Market row. *)
StoreFreeAnyhow(rs) == TRUE

StoreFree(rs) == \A r \in DOMAIN rs : rs[r].at # "put"

(* Staff, referrals: what the pages depend on. *)
Publish(page) ==
  /\ page = "market" => StoreFree(call)
  /\ published' = IF page \in published THEN published \ {page} ELSE published \cup {page}
  /\ UNCHANGED <<access, reports, markVars, commentVars>>

ChangeAccess(u) ==
  /\ access' = IF u \in access THEN access \ {u} ELSE access \cup {u}
  /\ UNCHANGED <<published, reports, markVars, commentVars>>

----------------------------------------------------------------------------
(* The buttons and the form *)

RowFree(u, m) ==
  \A r \in Calls : ~(/\ call[r].at = "put" /\ call[r].found
                        /\ call[r].by = u /\ call[r].of = m)

(* The row of u and m is written under a page, which keeps no count then. *)
Unsteady(q, u, m) ==
  IF call[q].at = "page" /\ call[q].by = u /\ call[q].of = m
  THEN [call[q] EXCEPT !.likes = 0, !.steady = FALSE] ELSE call[q]

(* The row is written while call r goes on as row. *)
Writes(u, m, state, r, row) ==
  /\ mark' = [mark EXCEPT ![u][m] = state]
  /\ call' = [q \in Calls |-> IF q = r THEN row ELSE Unsteady(q, u, m)]

Toggling(u, m, on) == [NoCall EXCEPT !.at = "toggle", !.by = u, !.of = m, !.on = on]

(* get_or_create finds the row and reads it ... *)
ToggleFinds(r, u, m) ==
  /\ call[r].at = "idle" /\ PublicTo(u, m[2])
  /\ mark[u][m] # "none"
  /\ call' = [call EXCEPT ![r] = Toggling(u, m, mark[u][m] = "off")]
  /\ UNCHANGED <<pageVars, reports, mark, promised, commentVars>>

Unpromised(u, m) ==
  promised' = IF m = StoreBookmark THEN [promised EXCEPT ![u] = "none"] ELSE promised

(* ... or makes it.                                                        *)
ToggleMakes(r, u, m) ==
  /\ call[r].at = "idle" /\ PublicTo(u, m[2])
  /\ mark[u][m] = "none"
  /\ m[2] = "market" => StoreFree(call)
  /\ Writes(u, m, "on", r, Toggling(u, m, TRUE))
  /\ Unpromised(u, m)
  /\ UNCHANGED <<pageVars, reports, commentVars>>

SaveToggle(r) ==
  LET u == call[r].by
      m == call[r].of
  IN /\ call[r].at = "toggle" /\ RowFree(u, m)
     /\ Writes(u, m, IF call[r].on THEN "on" ELSE "off", r, NoCall)
     /\ Unpromised(u, m)
     /\ UNCHANGED <<pageVars, reports, commentVars>>

BeginPut(r, u, on) ==
  /\ call[r].at = "idle" /\ "market" \in published
  /\ StoreFree(call) /\ RowFree(u, StoreBookmark)
  /\ call' = [call EXCEPT ![r] =
       [NoCall EXCEPT !.at = "put", !.by = u, !.on = on,
                         !.found = mark[u][StoreBookmark] # "none"]]
  /\ UNCHANGED <<pageVars, reports, mark, promised, commentVars>>

EndPut(r) ==
  LET u == call[r].by
      now == mark[u][StoreBookmark]
  IN /\ call[r].at = "put"
     /\ Writes(u, StoreBookmark,
               IF call[r].on THEN "on" ELSE IF call[r].found THEN "off" ELSE now,
               r, NoCall)
     /\ promised' = [promised EXCEPT ![u] = IF call[r].on THEN "on" ELSE "off"]
     /\ UNCHANGED <<pageVars, reports, commentVars>>

(* Both make the row: the button waits for the Market row and the form for *)
(* the button's row, until the database ends one of them.  This is the     *)
(* form; of a button that it ends, nothing is left.                        *)
PutLoses(q, r, m) ==
  LET u == call[q].by
  IN /\ call[q].at = "put" /\ call[q].on /\ ~call[q].found
     /\ m = StoreBookmark /\ mark[u][m] = "none"
     /\ call[r].at = "idle" /\ PublicTo(u, m[2])
     /\ mark' = [mark EXCEPT ![u][m] = "on"]
     /\ call' = [x \in Calls |-> IF x = q THEN NoCall
                                 ELSE IF x = r THEN Toggling(u, m, TRUE)
                                 ELSE Unsteady(x, u, m)]
     /\ Unpromised(u, m)
     /\ UNCHANGED <<pageVars, reports, commentVars>>

----------------------------------------------------------------------------
(* The pages *)

(* Fault: the rows that were switched off are counted, too. *)
AllRows(m) == Cardinality({u \in Visitors : mark[u][m] # "none"})

Likes(m) == Cardinality({u \in Visitors : mark[u][m] = "on"})

(* The store's page, with its MarketView, is shown to its keepers although *)
(* it is not published.                                                    *)
OpenPage(r, u, m) ==
  /\ call[r].at = "idle"
  /\ IF m[2] = "market" THEN Viewable(u) /\ StoreFree(call) ELSE PublicTo(u, m[2])
  /\ call' = [call EXCEPT ![r] = [NoCall EXCEPT !.at = "page", !.by = u, !.of = m,
                                                  !.likes = Likes(m)]]
  /\ UNCHANGED <<pageVars, reports, mark, promised, commentVars>>

(* The page is shown; or a request ends on the way, with its process.      *)
Leave(r) ==
  /\ call[r].at # "idle"
  /\ call' = [call EXCEPT ![r] = NoCall]
  /\ UNCHANGED <<pageVars, reports, mark, promised, commentVars>>

(* Of the two addresses for stores, one asks whether it may be viewed.     *)
Report(u, page) ==
  /\ IF page = "market" THEN StoreFree(call) ELSE PublicTo(u, page)
  /\ reports' = reports \cup {<<u, page>>}
  /\ UNCHANGED <<pageVars, markVars, commentVars>>

----------------------------------------------------------------------------
(* The comments *)

IsThere(c) == comment[c].at = "there"
IsRoot(c) == comment[c].root = 0
Unmade == {c \in 1..MaxComments : comment[c].at = "new"}

CheckPost(u, page, root) ==
  /\ ~post[u].ready /\ IsOpen(page)
  /\ root # 0 => IsThere(root) /\ IsRoot(root) /\ comment[root].page = page
  /\ post' = [post EXCEPT ![u] = [ready |-> TRUE, page |-> page, root |-> root]]
  /\ UNCHANGED <<pageVars, reports, markVars, comment, form, reader>>

(* Fault: replies do not refer to their roots in the database. *)
AnyRoot(root) == TRUE

(* A row is inserted only with its root, if it has one. *)
RootStands(root) == root # 0 => IsThere(root)

(* The page that it was checked for may be closed by now. *)
MakePost(u, text) ==
  LET p == post[u]
      c == CHOOSE d \in Unmade : \A e \in Unmade : d <= e
  IN /\ p.ready /\ Unmade # {}
     /\ comment' = IF RootStands(p.root)
                   THEN [comment EXCEPT ![c] = [at |-> "there", page |-> p.page, by |-> u,
                                                root |-> p.root, text |-> text]]
                   ELSE comment
     /\ post' = [post EXCEPT ![u] = NoPost]
     /\ UNCHANGED <<pageVars, reports, markVars, form, reader>>

EditComment(u, c, text) ==
  /\ IsThere(c) /\ comment[c].by = u /\ IsOpen(comment[c].page)
  /\ comment' = [comment EXCEPT ![c].text = text]
  /\ UNCHANGED <<pageVars, reports, markVars, post, form, reader>>

(* The form of staff has no field of the comment's ... *)
StaffOpen(c) ==
  /\ form.of = 0 /\ IsThere(c)
  /\ form' = [of |-> c, row |-> comment[c]]
  /\ UNCHANGED <<pageVars, reports, markVars, comment, post, reader>>

(* ... and saves the row as it was read: over what the author wrote, and   *)
(* again if it was deleted meanwhile.                                      *)
StaffSave ==
  /\ form.of # 0
  /\ comment' = IF IsThere(form.of) \/ RootStands(form.row.root)
                THEN [comment EXCEPT ![form.of] = form.row] ELSE comment
  /\ form' = NoForm
  /\ UNCHANGED <<pageVars, reports, markVars, post, reader>>

(* Fault: the replies stay. *)
JustIt(c) == {c}

WithReplies(c) == {c} \cup {d \in 1..MaxComments : IsThere(d) /\ comment[d].root = c}

StaffDelete(c) ==
  /\ IsThere(c)
  /\ comment' = [d \in 1..MaxComments |->
       IF d \in WithReplies(c) THEN [comment[d] EXCEPT !.at = "gone"] ELSE comment[d]]
  /\ UNCHANGED <<pageVars, reports, markVars, post, form, reader>>

(* The newest roots ... *)
ListRoots(page) ==
  LET roots == {c \in 1..MaxComments : IsThere(c) /\ IsRoot(c) /\ comment[c].page = page}
  IN /\ reader.at # "roots" /\ IsOpen(page)
     /\ reader' = [NoReader EXCEPT !.at = "roots", !.roots =
          {c \in roots : Cardinality({d \in roots : d > c}) < RootLimit}]
     /\ UNCHANGED <<pageVars, reports, markVars, comment, post, form>>

(* ... and what is left of them, and under them, by now.  A reply is shown *)
(* below its root, if that was found as well.                              *)
ListComments ==
  LET found == {c \in 1..MaxComments :
                  IsThere(c) /\ (c \in reader.roots \/ comment[c].root \in reader.roots)}
  IN /\ reader.at = "roots"
     /\ reader' = [reader EXCEPT !.at = "shown", !.found = found,
          !.shown = {c \in found : IsRoot(c) \/ comment[c].root \in found}]
     /\ UNCHANGED <<pageVars, reports, markVars, comment, post, form>>

----------------------------------------------------------------------------
PagesNext == \E page \in Pages : Publish(page)

ReportsNext ==
  \/ PagesNext
  \/ \E u \in Visitors \ Keepers : ChangeAccess(u)
  \/ \E u \in Visitors, page \in Pages : Report(u, page)

MarksNext ==
  \/ PagesNext
  \/ \E u \in Visitors \ Keepers : ChangeAccess(u)
  \/ \E r \in Calls :
       \/ SaveToggle(r) \/ EndPut(r) \/ Leave(r)
       \/ \E u \in Visitors :
            \/ \E on \in BOOLEAN : BeginPut(r, u, on)
            \/ \E m \in Marks : ToggleFinds(r, u, m) \/ ToggleMakes(r, u, m) \/ OpenPage(r, u, m)
       \/ \E q \in Calls, m \in Marks : PutLoses(q, r, m)

CommentsNext ==
  \/ PagesNext
  \/ ListComments \/ \E page \in Pages : ListRoots(page)
  \/ StaffSave
  \/ \E c \in 1..MaxComments : StaffOpen(c) \/ StaffDelete(c)
  \/ \E u \in Visitors :
       \/ \E page \in Pages, root \in 0..MaxComments : CheckPost(u, page, root)
       \/ \E text \in Texts : \/ MakePost(u, text)
                              \/ \E c \in 1..MaxComments : EditComment(u, c, text)

StorefrontSpec == StorefrontInit /\ [][ReportsNext \/ MarksNext \/ CommentsNext]_storefrontVars
----------------------------------------------------------------------------
(* Properties *)

(* What the form said of a bookmark is so, however forms of one visitor    *)
(* overtake one another, until a button writes to it                       *)
(* (MarketBookmarkUpdateAPIView).                                          *)
PromisesStand ==
  \A u \in Visitors : promised[u] # "none" =>
    (promised[u] = "on") = (mark[u][StoreBookmark] = "on")

(* A page that is about to show the visitor's own like has counted it, and *)
(* one that is about to show none has not; unless it was switched since    *)
(* the count (PublicProductDetailSerializer).                              *)
PagesAddUp ==
  \A r \in Calls :
    call[r].at = "page" /\ call[r].steady =>
      IF mark[call[r].by][call[r].of] = "on" THEN call[r].likes > 0
      ELSE call[r].likes < Cardinality(Visitors)

(* A reader misses no reply: whatever is posted or saved while staff       *)
(* delete, each reply that a listing finds has a root to be shown below    *)
(* (ContentCommentsView, CommentView, CommentAdmin).                       *)
RepliesAreShown == reader.shown = reader.found

PagesAgree == PromisesStand /\ PagesAddUp /\ RepliesAreShown
=============================================================================
