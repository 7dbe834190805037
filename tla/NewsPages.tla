------------------------------ MODULE NewsPages -----------------------------
(***************************************************************************)
(* The news scripts of the old TardisBank web site: a reader clicks links  *)
(* and gets articles, an editor publishes and deletes.  Handlers run one   *)
(* at a time; requests run concurrently, are answered in any order, and    *)
(* any of them may fail before or after the server has acted.  The         *)
(* browser shows one of the two pages; other editors are at work, too.     *)
(***************************************************************************)
EXTENDS Naturals, Sequences, FiniteSets, SequencesExt

CONSTANTS
  Connections,   \* requests a browser has under way at a time
  Texts,         \* what the editor may type
  Empty,         \* an empty form, an empty article
  Loading,       \* "Loading..."
  Shown,         \* length of the list of the latest, 10 in the code
  MaxPublished   \* bound: announcements ever stored

NewsAssumption ==
  /\ {Empty, Loading} \cap Texts = {} /\ Empty # Loading
  /\ Shown \in Nat /\ MaxPublished \in Nat

VARIABLES
  announcements,   \* the server's: text and whether deleted; the id is the place
  requests,        \* what is under way on each connection, or Free
  links,           \* reader: ids in #news
  details,         \* reader: #announcementDetails
  clicked,         \* reader: the link clicked last (history)
  overtaken,       \* reader: a later click had been made when the article
                   \* shown came (history)
  rows,            \* editor: ids in #publishedAnnouncements
  form,            \* editor: title and content
  page             \* "view" or "edit", or "login" after an answer 401

vars == <<announcements, requests, links, details, clicked, overtaken, rows, form, page>>

Free == [kind |-> "none"]
\* A request: what it is for, whether the row it was clicked in is still in
\* the list, or the link still the last one clicked, and the answer once the
\* server has given it.
Request(kind, argument) == [kind |-> kind, of |-> argument, current |-> TRUE, answer |-> <<>>]

\* The requests of this kind are no longer what the page is about.
Outdated(kind) ==
  [c \in Connections |-> IF requests[c].kind = kind THEN [requests[c] EXCEPT !.current = FALSE]
                         ELSE requests[c]]

Ids == DOMAIN announcements
Published == {i \in Ids : ~announcements[i].deleted}

\* The newest first.
Latest ==
  LET all == Cardinality(Published)
  IN [n \in 1 .. IF all < Shown THEN all ELSE Shown |->
        CHOOSE i \in Published : Cardinality({j \in Published : j > i}) = n - 1]

Init ==
  /\ announcements = <<>>
  /\ requests = [c \in Connections |-> Free]
  /\ links = <<>> /\ details = Empty /\ clicked = 0 /\ overtaken = FALSE
  /\ rows = <<>> /\ form = Empty
  /\ page \in {"view", "edit"}

SendAlso(request, others) ==
  \E c \in Connections : requests[c] = Free /\ requests' = [others EXCEPT ![c] = request]

Send(request) == SendAlso(request, requests)

(***************************************************************************)
(* news.view.js                                                            *)
(***************************************************************************)
ViewLatest ==
  /\ page = "view" /\ links = <<>>
  /\ Send(Request("links", 0))
  /\ UNCHANGED <<announcements, links, details, clicked, overtaken, rows, form, page>>

\* Not the code: the article shown stays until another has come.
DisplayAnnouncementOver(i) ==
  /\ page = "view" /\ SendAlso(Request("get", i), Outdated("get"))
  /\ clicked' = i /\ overtaken' = FALSE
  /\ UNCHANGED <<announcements, links, details, rows, form, page>>

DisplayAnnouncement(i) ==
  /\ page = "view" /\ SendAlso(Request("get", i), Outdated("get"))
  /\ clicked' = i /\ overtaken' = FALSE
  /\ details' = Loading
  /\ UNCHANGED <<announcements, links, rows, form, page>>

(***************************************************************************)
(* news.edit.js                                                            *)
(***************************************************************************)
LoadAnnouncements ==
  /\ page = "edit" /\ Send(Request("latest", 0))
  /\ UNCHANGED <<announcements, links, details, clicked, overtaken, rows, form, page>>

Type(text) ==
  /\ page = "edit" /\ form # text
  /\ form' = text
  /\ UNCHANGED <<announcements, requests, links, details, clicked, overtaken, rows, page>>

AddNewAnnouncement ==
  /\ page = "edit" /\ form # Empty
  /\ Send(Request("post", form))
  /\ UNCHANGED <<announcements, links, details, clicked, overtaken, rows, form, page>>

Removed(i) ==
  IF i \in ToSet(rows) THEN RemoveAt(rows, CHOOSE p \in DOMAIN rows : rows[p] = i) ELSE rows

\* Not the code: the row goes when it is clicked.
DeleteAnnouncementNow(i) ==
  /\ page = "edit" /\ Send(Request("delete", i))
  /\ rows' = Removed(i)
  /\ UNCHANGED <<announcements, links, details, clicked, overtaken, form, page>>

DeleteAnnouncement(i) ==
  /\ page = "edit" /\ Send(Request("delete", i))
  /\ UNCHANGED <<announcements, links, details, clicked, overtaken, rows, form, page>>

(***************************************************************************)
(* The server, and what happens to an answer.                              *)
(***************************************************************************)
Store(text) ==
  /\ Len(announcements) < MaxPublished
  /\ announcements' = Append(announcements, [text |-> text, deleted |-> FALSE])

Erase(i) == announcements' = [announcements EXCEPT ![i].deleted = TRUE]

OtherEditor ==
  /\ (\E text \in Texts : Store(text)) \/ (\E i \in Published : Erase(i))
  /\ UNCHANGED <<requests, links, details, clicked, overtaken, rows, form, page>>

Serve(c) ==
  /\ requests[c] # Free /\ requests[c].answer = <<>>
  /\ CASE requests[c].kind = "post" ->
            /\ Store(requests[c].of)
            /\ requests' = [requests EXCEPT ![c].answer = <<Len(announcements')>>]
       [] requests[c].kind = "delete" ->
            /\ Erase(requests[c].of)
            /\ requests' = [requests EXCEPT ![c].answer = <<"OK">>]
       [] requests[c].kind = "get" ->
            /\ requests' = [requests EXCEPT ![c].answer =
                              <<IF requests[c].of \in Published THEN requests[c].of ELSE Empty>>]
            /\ UNCHANGED announcements
       [] requests[c].kind \in {"links", "latest"} ->
            /\ requests' = [requests EXCEPT ![c].answer = <<Latest>>]
            /\ UNCHANGED announcements
  /\ UNCHANGED <<links, details, clicked, overtaken, rows, form, page>>

Answered(c, kind) == requests[c].kind = kind /\ requests[c].answer # <<>>

ShowLinks(c) ==
  /\ Answered(c, "links")
  /\ links' = links \o requests[c].answer[1]
  /\ requests' = [requests EXCEPT ![c] = Free]
  /\ UNCHANGED <<announcements, details, clicked, overtaken, rows, form, page>>

ShowAnnouncement(c) ==
  /\ Answered(c, "get")
  /\ details' = requests[c].answer[1]
  /\ overtaken' = ~requests[c].current
  /\ requests' = [requests EXCEPT ![c] = Free]
  /\ UNCHANGED <<announcements, links, clicked, rows, form, page>>

\* Not the code: the old rows stay.
AppendAnnouncements(c) ==
  /\ Answered(c, "latest")
  /\ rows' = rows \o requests[c].answer[1]
  /\ requests' = [Outdated("delete") EXCEPT ![c] = Free]
  /\ UNCHANGED <<announcements, links, details, clicked, overtaken, form, page>>

\* All rows are new; those that deletions under way belong to are gone.
DisplayAnnouncements(c) ==
  /\ Answered(c, "latest")
  /\ rows' = requests[c].answer[1]
  /\ requests' = [Outdated("delete") EXCEPT ![c] = Free]
  /\ UNCHANGED <<announcements, links, details, clicked, overtaken, form, page>>

\* The form is emptied and the list loaded, on the connection now free.
Posted(c) ==
  /\ Answered(c, "post")
  /\ form' = Empty
  /\ requests' = [requests EXCEPT ![c] = Request("latest", 0)]
  /\ UNCHANGED <<announcements, links, details, clicked, overtaken, rows, page>>

\* Not the code: the row is looked for in the list that is shown by now.
DeletedById(c) ==
  /\ Answered(c, "delete")
  /\ rows' = Removed(requests[c].of)
  /\ requests' = [requests EXCEPT ![c] = Free]
  /\ UNCHANGED <<announcements, links, details, clicked, overtaken, form, page>>

\* The row that was clicked goes, wherever it is.
Deleted(c) ==
  /\ Answered(c, "delete")
  /\ rows' = IF requests[c].current THEN Removed(requests[c].of) ELSE rows
  /\ requests' = [requests EXCEPT ![c] = Free]
  /\ UNCHANGED <<announcements, links, details, clicked, overtaken, form, page>>

\* Not the code: the form is emptied after a failure, too.
FailAndClear(c) ==
  /\ requests[c] # Free
  /\ form' = IF requests[c].kind = "post" THEN Empty ELSE form
  /\ requests' = [requests EXCEPT ![c] = Free]
  /\ UNCHANGED <<announcements, links, details, clicked, overtaken, rows, page>>

\* Timeout, lost answer, error of the server: the handlers set the status
\* text or nothing.
Fail(c) ==
  /\ requests[c] # Free
  /\ requests' = [requests EXCEPT ![c] = Free]
  /\ UNCHANGED <<announcements, links, details, clicked, overtaken, rows, form, page>>

\* Only what an editor does needs a login.  The login page takes the place of
\* this one, with what was typed and all that is under way.
AjaxError(c) ==
  /\ requests[c].kind \in {"post", "delete"} /\ requests[c].answer = <<>>
  /\ page' = "login"
  /\ requests' = [d \in Connections |-> Free]
  /\ form' = Empty /\ rows' = <<>>
  /\ UNCHANGED <<announcements, links, details, clicked, overtaken>>

Next ==
  \/ ViewLatest
  \/ \E i \in ToSet(links) : DisplayAnnouncement(i)
  \/ LoadAnnouncements
  \/ \E text \in Texts : Type(text)
  \/ AddNewAnnouncement
  \/ \E i \in ToSet(rows) : DeleteAnnouncement(i)
  \/ OtherEditor
  \/ \E c \in Connections : \/ Serve(c) \/ Fail(c) \/ AjaxError(c)
                            \/ ShowLinks(c) \/ ShowAnnouncement(c)
                            \/ DisplayAnnouncements(c) \/ Posted(c) \/ Deleted(c)

Spec == Init /\ [][Next]_vars

(***************************************************************************)
(* Properties.                                                             *)
(***************************************************************************)
\* No announcement is listed twice to the editor, however loads and
\* deletions overlap.
NoRowTwice == \A i, j \in DOMAIN rows : rows[i] = rows[j] => i = j

RowsLeave ==
  page' # "login" /\ (\A c \in Connections : ~DisplayAnnouncements(c)) =>
    \A i \in ToSet(rows) \ ToSet(rows') :
      /\ i \notin Published
      /\ \E c \in Connections : /\ requests[c].kind = "delete" /\ requests[c].of = i
                               /\ requests[c].current /\ requests[c].answer # <<>>

\* Unless the list is loaded anew or the page left, a row leaves it only when
\* it was clicked in this list and the server has deleted the announcement.
RowsLeaveWhenDeleted == [][RowsLeave]_vars

\* Under the link clicked last there is never the article of another, not even
\* after a failure, unless the answer for an earlier click has come after it.
DetailsAreTheClicked == overtaken \/ details \in {clicked, Empty, Loading}

TextIsKept ==
  form # Empty /\ form' = Empty =>
    \/ page' = "login"
    \/ \E i \in Ids : announcements[i].text = form
    \/ \E c \in Connections : /\ requests[c].kind = "post" /\ requests[c].of # form
                             /\ requests[c].answer # <<>> /\ requests'[c] # requests[c]

\* The page empties the form only when the server has stored what was in it,
\* or what had been in it when the editor published and typed on; or when the
\* login has expired and the page is left.
TextKeptUntilPublished == [][TextIsKept]_vars
=============================================================================
