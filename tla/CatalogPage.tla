----------------------------- MODULE CatalogPage -----------------------------
(***************************************************************************)
(* The paged lists of the console: tenants, models, the members of a tenant, *)
(* the audit log.  The controls are the tenant whose members are listed, the *)
(* search text, the page and its size; every change of them sends a request,  *)
(* and whatever answer comes is shown.  A tenant or a model that was saved    *)
(* sends one too, for the controls of the render that the save began in.     *)
(***************************************************************************)
EXTENDS ConsolePage

CONSTANTS
  Tenants,        \* whose members may be listed
  Queries,        \* search texts and outcome filters
  NoQuery,        \* the one nothing is filtered by
  Sizes,          \* rows per page
  EditIds,        \* bound: saves and switches in flight
  Matches         \* how many rows match a text; the same for every tenant

\* A list: whether its total comes with each row, so that an empty page has none, whether
\* it is opened for one tenant, whether it shows nothing but its state while it loads, and
\* what its dialogs send before they load it again.
TenantList ==
  [totalInRows |-> TRUE, ofTenant |-> FALSE, blanks |-> FALSE, edits |-> {"save", "create"}]
ModelList ==
  [totalInRows |-> FALSE, ofTenant |-> FALSE, blanks |-> FALSE, edits |-> {"save", "switch"}]
TenantMemberList ==
  [totalInRows |-> TRUE, ofTenant |-> TRUE, blanks |-> FALSE, edits |-> {}]
AuditList ==
  [totalInRows |-> FALSE, ofTenant |-> FALSE, blanks |-> TRUE, edits |-> {}]

Lists == [tenants |-> TenantList, models |-> ModelList, tenant_members |-> TenantMemberList,
          audit |-> AuditList]
ListViews == DOMAIN Lists
List == Lists[view]

Controls ==
  [target : Tenants \union {None}, query : Queries, page : Nat \ {0}, size : Sizes]
Answers == [about : Controls, rows : Nat, total : Nat]

ASSUME CatalogAssumption ==
  /\ NoQuery \in Queries /\ Sizes \subseteq Nat \ {0} /\ Sizes # {}
  /\ Matches \in [Queries -> Nat]
  /\ Tenants # {} /\ None \notin Tenants \union Answers

VARIABLES
  controls,       \* what the person chose
  asked,          \* requests in flight, oldest first
  shown,          \* the answer on the page, None for none
  listLoading,    \* the flag the first answer clears
  listFailed,     \* the flag an error sets and the next request clears
  edits,          \* saves and switches in flight
  misshown,       \* history: the answer on the page is older than one that came before it
  hasty,          \* history: the page was turned by the row count of another list
  outdated        \* history: the newest request is for controls that were left before

catalogVars ==
  <<controls, asked, shown, listLoading, listFailed, edits, misshown, hasty, outdated>>

AtLeast(a, b) == IF a >= b THEN a ELSE b
AtMost(a, b) == IF a <= b THEN a ELSE b

---------------------------------------------------------------------------
(* The server: a page of the matching rows and their number, which the        *)
(* functions behind tenants and members return with each row.                 *)

RowsOn(c) ==
  LET skipped == (c.page - 1) * c.size
  IN IF Matches[c.query] <= skipped THEN 0 ELSE AtMost(c.size, Matches[c.query] - skipped)

AnswerTo(c) ==
  [about |-> c, rows |-> RowsOn(c),
   total |-> IF List.totalInRows /\ RowsOn(c) = 0 THEN 0 ELSE Matches[c.query]]

---------------------------------------------------------------------------
(* The controls.                                                           *)

\* A request; the save button waits for the one that a save sent.
Asking(c, held) == [about |-> c, overtaken |-> FALSE, held |-> held]

Ask(requests) ==
  asked' = asked \o requests /\ listLoading' = TRUE /\ listFailed' = FALSE

\* The effect that loads runs when one of the controls changed.
Choose(c) ==
  /\ view \in ListViews /\ Begun
  /\ controls' = c
  /\ IF c = controls \/ c.target = None THEN UNCHANGED <<asked, listLoading, listFailed, outdated>>
     ELSE Ask(<<Asking(c, FALSE)>>) /\ outdated' = FALSE
  /\ UNCHANGED edits

Visible == List.ofTenant => controls.target # None

\* An error before there is any list to show; it takes the place of the list, and of the
\* search field too unless the list is the one in a dialog.
Broken == listFailed /\ shown = None /\ ~List.blanks
HasSearch == Visible /\ (Broken => List.ofTenant)

\* Faulty: the search leaves the page where it is.
SearchOnThisPage(q) ==
  /\ HasSearch /\ Choose([controls EXCEPT !.query = q])
  /\ hasty' = FALSE /\ UNCHANGED <<shown, misshown>>

\* The text that stood still for a moment, or the outcome; always with the first page.
Search(q) ==
  /\ HasSearch /\ Choose([controls EXCEPT !.query = q, !.page = 1])
  /\ hasty' = FALSE /\ UNCHANGED <<shown, misshown>>

\* The pagination counts pages by the list that is shown and shows a page within them.
\* The audit page has none while it loads or shows no event.
ShownTotal == IF shown = None THEN 0 ELSE shown.total
PageCount == AtLeast(1, (ShownTotal + controls.size - 1) \div controls.size)
CurrentPage == AtMost(controls.page, PageCount)
HasPagination ==
  Visible /\ ~Broken /\ (List.blanks => ~listLoading /\ shown # None /\ shown.rows > 0)

ChangeSize(s) ==
  /\ HasPagination /\ Choose([controls EXCEPT !.size = s, !.page = 1])
  /\ hasty' = FALSE /\ UNCHANGED <<shown, misshown>>

TurnTo(page) ==
  /\ HasPagination /\ page \in 1..PageCount
  /\ Choose([controls EXCEPT !.page = page])
  /\ hasty' = (hasty \/ shown = None \/ shown.about.query # controls.query
                 \/ shown.about.size # controls.size)
  /\ UNCHANGED <<shown, misshown>>

NextPage == TurnTo(CurrentPage + 1)
PreviousPage == TurnTo(CurrentPage - 1)

\* The member list of a tenant starts over when it is opened and when it is closed.
FirstControls(t) == [controls EXCEPT !.target = t, !.query = NoQuery, !.page = 1]

ViewMembers(t) ==
  /\ List.ofTenant /\ (controls.target = None) # (t = None)
  /\ Choose(FirstControls(t))
  /\ shown' = None /\ misshown' = FALSE /\ hasty' = FALSE

\* The button beside the error.
Retry ==
  /\ view \in ListViews /\ Visible /\ Broken /\ Begun
  /\ Ask(<<Asking(controls, FALSE)>>) /\ outdated' = FALSE
  /\ UNCHANGED <<controls, shown, edits, misshown, hasty>>

---------------------------------------------------------------------------
(* The dialogs of tenants and models.  They may be closed while what they     *)
(* sent is on its way, and the person goes on with the list.                 *)

NoEdit == [kind |-> "none", from |-> None]

Saving ==
  \/ \E e \in EditIds : edits[e].kind \in {"save", "create"}
  \/ \E i \in DOMAIN asked : asked[i].held

\* One save at a time; the switches that allocate a model wait for nothing.
SubmitEdit(e, kind) ==
  /\ view \in ListViews /\ kind \in List.edits /\ ~Broken /\ Begun
  /\ kind # "switch" => ~Saving
  /\ edits[e] = NoEdit
  /\ edits' = [edits EXCEPT ![e] = [kind |-> kind, from |-> controls]]
  /\ UNCHANGED <<controls, asked, shown, listLoading, listFailed, misshown, hasty, outdated>>

\* Stored: the list is loaded with the controls of the render that sent it.  After a
\* creation the page is the first, and the effect that a turned page runs loads as well.
AnswerEdit(e) ==
  LET q == edits[e]
      first == [controls EXCEPT !.page = 1]
      turns == q.kind = "create" /\ controls # first
  IN /\ q.kind # "none"
     /\ controls' = IF turns THEN first ELSE controls
     /\ Ask(<<Asking(q.from, q.kind # "switch")>>
               \o (IF turns THEN <<Asking(first, FALSE)>> ELSE <<>>))
     /\ outdated' = (~turns /\ q.from # controls)
     /\ hasty' = (hasty /\ ~turns)
     /\ edits' = [edits EXCEPT ![e] = NoEdit]
     /\ UNCHANGED <<shown, misshown, pageVars>>

\* Refused or without an answer; or the new tenant waits for its activation.
DropEdit(e) ==
  /\ edits[e].kind # "none"
  /\ edits' = [edits EXCEPT ![e] = NoEdit]
  /\ UNCHANGED <<controls, asked, shown, listLoading, listFailed, misshown, hasty, outdated, pageVars>>

---------------------------------------------------------------------------
(* Answers, in any order.                                                  *)

Rest(i) ==
  [k \in 1..Len(asked) - 1 |->
     IF k < i THEN [asked[k] EXCEPT !.overtaken = TRUE] ELSE asked[k + 1]]

Answer(i) ==
  /\ shown' = AnswerTo(asked[i].about) /\ misshown' = asked[i].overtaken
  /\ asked' = Rest(i) /\ listLoading' = FALSE
  /\ UNCHANGED <<controls, listFailed, edits, hasty, outdated, pageVars>>

\* A list keeps what it shows, the audit page shows nothing.
Fail(i) ==
  /\ shown' = IF List.blanks THEN None ELSE shown
  /\ misshown' = TRUE
  /\ asked' = Rest(i) /\ listLoading' = FALSE /\ listFailed' = TRUE
  /\ UNCHANGED <<controls, edits, hasty, outdated, pageVars>>

---------------------------------------------------------------------------
CatalogInit ==
  /\ controls \in [target : {IF view \in ListViews /\ List.ofTenant THEN None ELSE CHOOSE t \in Tenants : TRUE},
                   query : {NoQuery}, page : {1}, size : Sizes]
  /\ asked = IF view \in ListViews /\ List.ofTenant THEN <<>>
             ELSE <<Asking(controls, FALSE)>>
  /\ listLoading = (asked # <<>>) /\ listFailed = FALSE
  /\ edits = [e \in EditIds |-> NoEdit]
  /\ shown = None /\ misshown = FALSE /\ hasty = FALSE /\ outdated = FALSE

CatalogNext ==
  \/ \E q \in Queries : Search(q)
  \/ \E s \in Sizes : ChangeSize(s)
  \/ NextPage \/ PreviousPage \/ Retry
  \/ \E t \in Tenants \union {None} : ViewMembers(t)
  \/ \E e \in EditIds, kind \in {"save", "create", "switch"} : SubmitEdit(e, kind)
  \/ \E e \in EditIds : AnswerEdit(e) \/ DropEdit(e)
  \/ \E i \in DOMAIN asked : Answer(i) \/ Fail(i)

---------------------------------------------------------------------------
Answered == view \in ListViews /\ asked = <<>> /\ Visible /\ ~misshown /\ ~outdated

\* When every request was answered, and no answer came out of order or was an error,
\* the page shows the list that the controls on it ask for; and a search that matches
\* rows shows some of them, unless the page was turned while the row count of an
\* earlier list stood below the new one.  Excepted is the list that a save loaded last
\* although the controls were changed while it was on its way: it is the list of before.
ListAnswersTheControls ==
  Answered => /\ shown # None /\ shown.about = controls
              /\ Matches[controls.query] > 0 => hasty \/ shown.rows > 0
=============================================================================
