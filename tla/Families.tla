------------------------------- MODULE Families -----------------------------
(***************************************************************************)
(* The users of TardisBank: parents register, get a mail with an           *)
(* activation key and activate, create and delete children, ask for a new  *)
(* password and leave.  Each request is a transaction that reads, sends    *)
(* its mail and then commits, or fails; the mail is out either way.        *)
(*                                                                         *)
(* User names stand for the mailboxes of parents, ids for activation keys, *)
(* which are fresh GUIDs.  A parent is a row in two tables, Users and      *)
(* Parents; an update writes all columns of a table in which one has       *)
(* changed, as they were read, and there is no version.  A child refers to *)
(* its parent by a foreign key.                                            *)
(***************************************************************************)
EXTENDS Naturals

CONSTANTS
  Names,
  Requests,        \* requests that run concurrently
  MaxUsers         \* bound: users ever created

FamiliesAssumption == MaxUsers \in Nat

VARIABLES
  smtpServer,     \* one is configured
  publishThrows,  \* IMediator.Publish throws what a handler throws; in
                  \* version 9 it returns a task, which nobody awaits
  users,      \* the rows, by id
  created,    \* ids and keys given so far
  delivered,  \* keys that a mail has brought to their parent (history)
  writes,     \* what each request is about to commit
  missed,     \* since a request has read, another has committed a user of
              \* the same name (history)
  overlapped  \* users written by a request that had missed something (history)

setting == <<smtpServer, publishThrows>>
vars == <<setting, users, created, delivered, writes, missed, overlapped>>

Ids == 1 .. MaxUsers
None == [kind |-> "none"]
Nothing == [kind |-> "nothing", rows |-> [i \in {} |-> None]]

\* knownPassword (history): the owner has chosen or been told the password.
Users == [kind : {"parent", "child"}, name : Names, active : BOOLEAN, hasKey : BOOLEAN,
          parent : Ids \cup {0}, knownPassword : BOOLEAN]

Existing == {i \in Ids : users[i] # None}
ChildrenOf(p) == {i \in Existing : users[i].parent = p}

TypeOK ==
  /\ users \in [Ids -> Users \cup {None}]
  /\ created \in 0 .. MaxUsers
  /\ delivered \subseteq 1 .. created
  /\ \A r \in Requests :
       /\ writes[r].kind \in {"nothing", "insert", "activate", "reset", "delete"}
       /\ \A i \in DOMAIN writes[r].rows : writes[r].rows[i] \in Users \cup {None}
  /\ missed \in [Requests -> BOOLEAN] /\ overlapped \subseteq Ids
  /\ \A i \in Existing : IF users[i].kind = "child" THEN users[i].parent \in Existing \ {i}
                                                   ELSE users[i].parent = 0

\* Without a server nothing is thrown that Publish could throw again.
Init ==
  /\ smtpServer \in BOOLEAN /\ publishThrows \in BOOLEAN
  /\ ~smtpServer => publishThrows
  /\ users = [i \in Ids |-> None]
  /\ created = 0
  /\ delivered = {}
  /\ writes = [r \in Requests |-> Nothing]
  /\ missed = [r \in Requests |-> FALSE]
  /\ overlapped = {}

MayBegin(r) == writes[r] = Nothing

Prepare(r, kind, rows) == writes' = [writes EXCEPT ![r] = [kind |-> kind, rows |-> rows]]

NameTaken(name) == \E i \in Existing : users[i].name = name

\* The outcomes of SendEmail: without a server nothing is sent and nothing
\* thrown.
SendEmail == IF smtpServer THEN {"sent", "threw"} ELSE {"skipped"}

(***************************************************************************)
(* The requests up to their commit.                                        *)
(***************************************************************************)
NewParent(name, active) ==
  [kind |-> "parent", name |-> name, active |-> active, hasKey |-> ~active,
   parent |-> 0, knownPassword |-> TRUE]

\* Not the code: the name is not looked up.
RegisterAgain(r, name) ==
  /\ MayBegin(r) /\ created < MaxUsers
  /\ created' = created + 1
  /\ delivered' = delivered \cup {created'}
  /\ Prepare(r, "insert", [i \in {created'} |-> NewParent(name, ~smtpServer)])
  /\ UNCHANGED users

\* Not the code: what a handler throws is caught.
RegisterAnyway(r, name) ==
  /\ MayBegin(r) /\ created < MaxUsers /\ ~NameTaken(name)
  /\ created' = created + 1
  /\ \E mail \in SendEmail :
       /\ delivered' = IF mail = "sent" THEN delivered \cup {created'} ELSE delivered
       /\ Prepare(r, "insert", [i \in {created'} |-> NewParent(name, ~smtpServer)])
  /\ UNCHANGED users

\* Not the code: the parent is active although a mail has been sent.
RegisterActive(r, name) ==
  /\ MayBegin(r) /\ created < MaxUsers /\ ~NameTaken(name)
  /\ created' = created + 1
  /\ Prepare(r, "insert", [i \in {created'} |-> NewParent(name, TRUE)])
  /\ UNCHANGED <<users, delivered>>

\* The mail is sent by Initialise, before the parent is saved.
Register(r, name) ==
  /\ MayBegin(r) /\ created < MaxUsers /\ ~NameTaken(name)
  /\ created' = created + 1
  /\ \E mail \in SendEmail :
       /\ delivered' = IF mail = "sent" THEN delivered \cup {created'} ELSE delivered
       /\ IF mail = "threw" /\ publishThrows THEN UNCHANGED writes
          ELSE Prepare(r, "insert", [i \in {created'} |-> NewParent(name, ~smtpServer)])
  /\ UNCHANGED users

\* Not the code: the child refers to itself.
AddOrphan(r, p, name) ==
  /\ MayBegin(r) /\ created < MaxUsers /\ ~NameTaken(name)
  /\ users[p].kind = "parent" /\ users[p].active
  /\ created' = created + 1
  /\ Prepare(r, "insert", [i \in {created'} |->
       [NewParent(name, TRUE) EXCEPT !.kind = "child", !.parent = created']])
  /\ UNCHANGED <<users, delivered>>

\* A child is active from the start.
AddChild(r, p, name) ==
  /\ MayBegin(r) /\ created < MaxUsers /\ ~NameTaken(name)
  /\ users[p].kind = "parent" /\ users[p].active
  /\ created' = created + 1
  /\ Prepare(r, "insert", [i \in {created'} |-> [kind |-> "child", name |-> name, active |-> TRUE,
                                                 hasKey |-> FALSE, parent |-> p, knownPassword |-> TRUE]])
  /\ UNCHANGED <<users, delivered>>

\* Not the code: the key is used up, but the parent stays inactive.
ActivateKeyOnly(r, i) ==
  /\ MayBegin(r) /\ i \in delivered
  /\ users[i].kind = "parent" /\ users[i].hasKey
  /\ Prepare(r, "activate", [k \in {i} |-> [users[i] EXCEPT !.hasKey = FALSE]])
  /\ UNCHANGED <<users, created, delivered>>

\* A parent follows the link in the mail; the key must be that of a row.
Activate(r, i) ==
  /\ MayBegin(r) /\ i \in delivered
  /\ users[i].kind = "parent" /\ users[i].hasKey
  /\ Prepare(r, "activate", [k \in {i} |-> [users[i] EXCEPT !.active = TRUE, !.hasKey = FALSE]])
  /\ UNCHANGED <<users, created, delivered>>

\* Not the code: the password is reset although the mail could not be sent.
ForgotAnyway(r, i) ==
  /\ MayBegin(r) /\ i \in Existing
  /\ \E mail \in SendEmail :
       Prepare(r, "reset", [k \in {i} |-> [users[i] EXCEPT !.knownPassword = mail = "sent"]])
  /\ UNCHANGED <<users, created, delivered>>

\* A child's password goes to its parent.  SendEmail is called directly, so
\* what it throws ends the request.
Forgot(r, i) ==
  /\ MayBegin(r) /\ i \in Existing
  /\ \E mail \in SendEmail :
       /\ mail # "threw"
       /\ Prepare(r, "reset", [k \in {i} |-> [users[i] EXCEPT !.knownPassword = mail = "sent"]])
  /\ UNCHANGED <<users, created, delivered>>

DeleteChild(r, p, c) ==
  /\ MayBegin(r) /\ users[p].kind = "parent" /\ users[p].active
  /\ c \in ChildrenOf(p)
  /\ Prepare(r, "delete", [i \in {c} |-> None])
  /\ UNCHANGED <<users, created, delivered>>

\* The children are deleted one by one, and then the parent.
DeleteParent(r, p) ==
  /\ MayBegin(r) /\ users[p].kind = "parent" /\ users[p].active
  /\ Prepare(r, "delete", [i \in ChildrenOf(p) \cup {p} |-> None])
  /\ UNCHANGED <<users, created, delivered>>

(***************************************************************************)
(* Commit and failure.                                                     *)
(***************************************************************************)
\* The row as stored after an update: a new password leaves table Parents alone.
Updated(stored, kind, new) ==
  LET user == [stored EXCEPT !.active = new.active, !.knownPassword = new.knownPassword]
  IN IF kind = "reset" THEN user ELSE [user EXCEPT !.hasKey = new.hasKey]

Written(r) ==
  [i \in Ids |-> IF i \notin DOMAIN writes[r].rows THEN users[i]
                 ELSE IF writes[r].kind \in {"activate", "reset"}
                      THEN Updated(users[i], writes[r].kind, writes[r].rows[i])
                      ELSE writes[r].rows[i]]

NamesOf(rows) == {rows[i].name : i \in {k \in DOMAIN rows : rows[k] # None}}

SameName(r, s) == NamesOf(writes[r].rows) \cap NamesOf(writes[s].rows) # {}

\* Rows that are updated or deleted must be there, and the foreign keys of
\* children must hold.
Commit(r) ==
  /\ writes[r] # Nothing
  /\ writes[r].kind # "insert" => DOMAIN writes[r].rows \subseteq Existing
  /\ \A i \in Ids : Written(r)[i].kind = "child" => Written(r)[Written(r)[i].parent] # None
  /\ users' = Written(r)
  /\ writes' = [writes EXCEPT ![r] = Nothing]
  /\ missed' = [s \in Requests |-> s # r /\ (missed[s] \/ SameName(r, s))]
  /\ overlapped' = {i \in Existing' : i \in overlapped \/ (missed[r] /\ i \in DOMAIN writes[r].rows)}
  /\ UNCHANGED <<created, delivered>>

Fail(r) ==
  /\ writes[r] # Nothing
  /\ writes' = [writes EXCEPT ![r] = Nothing]
  /\ missed' = [missed EXCEPT ![r] = FALSE]
  /\ UNCHANGED <<users, created, delivered, overlapped>>

RequestStep ==
  \E r \in Requests :
    \/ /\ \/ \E name \in Names : Register(r, name) \/ \E p \in Existing : AddChild(r, p, name)
          \/ \E i \in Ids : Activate(r, i) \/ Forgot(r, i) \/ DeleteParent(r, i)
          \/ \E p, c \in Existing : DeleteChild(r, p, c)
       /\ UNCHANGED <<missed, overlapped>>
    \/ Commit(r)
    \/ Fail(r)

Next == RequestStep /\ UNCHANGED setting

Spec == Init /\ [][Next]_vars

(***************************************************************************)
(* Properties.                                                             *)
(***************************************************************************)
\* A name is given to two users only if one was registered while the other
\* was: neither request looked the name up after the commit of the other.
NamesUnique ==
  \A i, j \in Existing :
    users[i].name = users[j].name => i = j \/ {i, j} \cap overlapped # {}

\* If the mediator throws what a handler throws: a parent who has to activate
\* has been sent the key, and the row still has it unless two requests wrote
\* the row at the same time.  The name is taken, so registering again is no
\* way out.
NobodyLockedOut ==
  publishThrows =>
    \A i \in Existing :
      users[i].kind = "parent" /\ ~users[i].active =>
        i \in delivered /\ (users[i].hasKey \/ i \in overlapped)

\* Where mail is in use, only parents who got theirs are active, whatever
\* other requests wrote to the same row meanwhile.
ActiveIsConfirmed ==
  smtpServer => \A i \in Existing : users[i].kind = "parent" /\ users[i].active => i \in delivered

\* Where mail is in use, a password that nobody knows is never stored.
PasswordsAreKnown == smtpServer => \A i \in Existing : users[i].knownPassword
=============================================================================
