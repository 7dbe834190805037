----------------------------- MODULE UnitOfWork -----------------------------
(***************************************************************************)
(* What a unit of work promises, whatever the storage behind it.           *)
(*                                                                         *)
(* A request collects writes.  While a unit is open nothing the request    *)
(* did becomes durable except by Commit, and Commit takes everything.      *)
(* Abandoning a unit makes nothing durable.  Outside a unit every write    *)
(* stands for itself.  A closed request changes nothing any more.          *)
(***************************************************************************)
CONSTANTS
  Requests,
  Writes,
  Owner      \* Owner[w]: the request that makes write w

VARIABLES
  inUnit,    \* inUnit[r]: request r has a unit of work open
  pending,   \* pending[r]: writes of r that are not durable yet
  durable,   \* the writes the database holds for good
  closed     \* closed[r]: request r is over

vars == <<inUnit, pending, durable, closed>>

TypeOK ==
  /\ inUnit \in [Requests -> BOOLEAN]
  /\ pending \in [Requests -> SUBSET Writes]
  /\ durable \in SUBSET Writes
  /\ closed \in [Requests -> BOOLEAN]

Init ==
  /\ inUnit = [r \in Requests |-> FALSE]
  /\ pending = [r \in Requests |-> {}]
  /\ durable = {}
  /\ closed = [r \in Requests |-> FALSE]

Begin(r) ==
  /\ ~closed[r]
  /\ ~inUnit[r]
  /\ inUnit' = [inUnit EXCEPT ![r] = TRUE]
  /\ UNCHANGED <<pending, durable, closed>>

Write(r, w) ==
  /\ ~closed[r]
  /\ Owner[w] = r
  /\ pending' = [pending EXCEPT ![r] = @ \cup {w}]
  /\ UNCHANGED <<inUnit, durable, closed>>

Commit(r) ==
  /\ ~closed[r]
  /\ inUnit[r]
  /\ durable' = durable \cup pending[r]
  /\ pending' = [pending EXCEPT ![r] = {}]
  /\ inUnit' = [inUnit EXCEPT ![r] = FALSE]
  /\ UNCHANGED closed

\* What is kept may still be committed by a later unit of the request.
Abandon(r, kept) ==
  /\ ~closed[r]
  /\ inUnit[r]
  /\ kept \subseteq pending[r]
  /\ pending' = [pending EXCEPT ![r] = kept]
  /\ inUnit' = [inUnit EXCEPT ![r] = FALSE]
  /\ UNCHANGED <<durable, closed>>

\* Outside a unit a set of writes, new or pending, is stored one by one.
WriteThrough(r, stored, kept) ==
  /\ ~closed[r]
  /\ \A w \in stored : Owner[w] = r
  /\ ~inUnit[r]
  /\ durable' = durable \cup stored
  /\ kept \subseteq pending[r]
  /\ pending' = [pending EXCEPT ![r] = kept]
  /\ UNCHANGED <<inUnit, closed>>

\* The end of the request: an open unit is abandoned, the rest forgotten.
Close(r) ==
  /\ ~closed[r]
  /\ closed' = [closed EXCEPT ![r] = TRUE]
  /\ pending' = [pending EXCEPT ![r] = {}]
  /\ inUnit' = [inUnit EXCEPT ![r] = FALSE]
  /\ UNCHANGED durable

Next ==
  \E r \in Requests :
    \/ Begin(r)
    \/ \E w \in Writes : Write(r, w)
    \/ Commit(r)
    \/ \E kept \in SUBSET Writes : Abandon(r, kept)
    \/ \E stored, kept \in SUBSET Writes : WriteThrough(r, stored, kept)
    \/ Close(r)

Spec == Init /\ [][Next]_vars

=============================================================================
