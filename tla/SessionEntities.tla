--------------------------- MODULE SessionEntities --------------------------
(***************************************************************************)
(* One versioned row, and the entity that each of several sessions has for *)
(* it: the extension methods that evict, force a new version and ask for   *)
(* changes, among the saves, changes, deletes and flushes of the program.  *)
(* Every session works in a transaction; what it flushes locks the row and *)
(* is seen by the others when it commits.                                  *)
(***************************************************************************)
EXTENDS Naturals

CONSTANTS
  Sessions,
  Values,      \* what the entity may hold
  NoRow,       \* the row is not there
  Unwritten,   \* the transaction has not written the row
  MaxVersion   \* bound: versions of the row

Rows == [version : Nat \ {0}, value : Values]

SessionAssumption ==
  /\ NoRow # Unwritten
  /\ {NoRow, Unwritten} \cap Rows = {}
  /\ MaxVersion \in Nat

VARIABLES
  row,      \* the committed row
  image,    \* the row as written by each transaction
  entry,    \* the entry of the entity in the session, with its property
  saved,    \* the entity has been created (its id is taken)
  broken,   \* sessions whose queue has an insert without its entity
  touched,  \* how often the row was written or claimed by a commit (history)
  claims    \* what each session has read of that, and if it claims (history)

vars == <<row, image, entry, saved, broken, touched, claims>>

Nothing == [read |-> 0, made |-> FALSE]

NoEntry == [status |-> "None"]
Entry(status, value, loaded, version, forced) ==
  [status |-> status, value |-> value, loaded |-> loaded, version |-> version, forced |-> forced]

Init ==
  /\ row = NoRow /\ saved = FALSE
  /\ image = [s \in Sessions |-> Unwritten]
  /\ entry = [s \in Sessions |-> NoEntry]
  /\ broken = {}
  /\ touched = 0
  /\ claims = [s \in Sessions |-> Nothing]

Visible(s) == IF image[s] = Unwritten THEN row ELSE image[s]
Locked(s) == \E t \in Sessions \ {s} : image[t] # Unwritten
Enter(s, e) == entry' = [entry EXCEPT ![s] = e]
Write(s, r) == image' = [image EXCEPT ![s] = r]
Held(s) == entry[s] # NoEntry
Claim(s) == claims' = [claims EXCEPT ![s].made = TRUE]

(***************************************************************************)
(* The session as the program uses it.                                     *)
(***************************************************************************)
\* The insert waits in the queue until the flush.
Save(s, v) ==
  /\ ~saved /\ ~Held(s)
  /\ saved' = TRUE
  /\ Enter(s, Entry("New", v, v, 1, FALSE))
  /\ UNCHANGED <<row, image, broken, touched, claims>>

Get(s) ==
  /\ ~Held(s) /\ Visible(s) # NoRow
  /\ LET r == Visible(s) IN Enter(s, Entry("Loaded", r.value, r.value, r.version, FALSE))
  /\ claims' = IF image[s] = Unwritten THEN [claims EXCEPT ![s].read = touched] ELSE claims
  /\ UNCHANGED <<row, image, saved, broken, touched>>

Change(s, v) ==
  /\ Held(s) /\ entry[s].status # "Deleted"
  /\ Enter(s, [entry[s] EXCEPT !.value = v])
  /\ UNCHANGED <<row, image, saved, broken, touched, claims>>

Delete(s) ==
  /\ Held(s) /\ entry[s].status = "Loaded"
  /\ Enter(s, [entry[s] EXCEPT !.status = "Deleted"])
  /\ UNCHANGED <<row, image, saved, broken, touched, claims>>

(***************************************************************************)
(* A flush: the queued insert, the update of what is dirty, the delete.    *)
(* Updates and deletes name the version they expect.                       *)
(***************************************************************************)
Dirty(e) == e.value # e.loaded
Writes(s) == Held(s) /\ (entry[s].status \in {"New", "Deleted"} \/ Dirty(entry[s]))

\* The row is still the one the session has read.
Current(s) ==
  LET e == entry[s]
  IN e.status = "New" \/ (Visible(s) # NoRow /\ Visible(s).version = e.version)

MayFlush(s) == s \notin broken /\ (Writes(s) => ~Locked(s) /\ Current(s))

\* What a flush writes, and the entry after it.
Flushed(s) ==
  LET e == entry[s]
      version == e.version + (IF Dirty(e) THEN 1 ELSE 0)
  IN CASE ~Writes(s) -> [image |-> image[s], entry |-> e]
       [] Writes(s) /\ e.status = "Deleted" -> [image |-> NoRow, entry |-> NoEntry]
       [] OTHER -> [image |-> [version |-> version, value |-> e.value],
                    entry |-> Entry("Loaded", e.value, e.value, version, e.forced)]

Bounded(s) == Held(s) => entry[s].version < MaxVersion

Flush(s) ==
  /\ MayFlush(s) /\ Bounded(s)
  /\ Write(s, Flushed(s).image)
  /\ Enter(s, Flushed(s).entry)
  /\ IF Writes(s) THEN Claim(s) ELSE UNCHANGED claims
  /\ UNCHANGED <<row, saved, broken, touched>>

\* The entry goes with the changes it has; a queued insert stays in the queue.
Evict(s) ==
  /\ Held(s)
  /\ Enter(s, NoEntry)
  /\ broken' = IF entry[s].status = "New" THEN broken \cup {s} ELSE broken
  /\ UNCHANGED <<row, image, saved, touched, claims>>

\* Not the code: the entity is evicted before the flush.
EvictAndFlush(s) == Evict(s)

FlushAndEvict(s) ==
  /\ Held(s)
  /\ MayFlush(s) /\ Bounded(s)
  /\ Write(s, Flushed(s).image)
  /\ Enter(s, NoEntry)
  /\ IF Writes(s) THEN Claim(s) ELSE UNCHANGED claims
  /\ UNCHANGED <<row, saved, broken, touched>>

\* SaveAndEvictAsync of the repository: there is no flush in between.
SaveAndEvict(s) ==
  /\ ~saved /\ ~Held(s)
  /\ saved' = TRUE
  /\ broken' = broken \cup {s}
  /\ UNCHANGED <<row, image, entry, touched, claims>>

(***************************************************************************)
(* IncrementVersion.  A lock that is held already is not taken again; one  *)
(* on a row that is not there yet fails as a flush does.                   *)
(***************************************************************************)
Ignored(s) == ~Held(s) \/ entry[s].status = "Deleted"

\* Not the code: the row is locked without a new version.
LockOnly(s) ==
  /\ ~Ignored(s) /\ ~entry[s].forced
  /\ ~Locked(s) /\ Visible(s) # NoRow /\ Current(s)
  /\ Enter(s, [entry[s] EXCEPT !.forced = TRUE])
  /\ Claim(s)
  /\ UNCHANGED <<row, image, saved, broken, touched>>

\* Not the code: the entry keeps the version it was read with.
ForceOnly(s) ==
  /\ ~Ignored(s) /\ ~entry[s].forced
  /\ ~Locked(s) /\ Visible(s) # NoRow /\ Current(s) /\ Bounded(s)
  /\ Write(s, [Visible(s) EXCEPT !.version = @ + 1])
  /\ Enter(s, [entry[s] EXCEPT !.forced = TRUE])
  /\ Claim(s)
  /\ UNCHANGED <<row, saved, broken, touched>>

IncrementVersion(s) ==
  /\ ~Ignored(s) /\ ~entry[s].forced
  /\ ~Locked(s) /\ Visible(s) # NoRow /\ Current(s) /\ Bounded(s)
  /\ Write(s, [Visible(s) EXCEPT !.version = @ + 1])
  /\ Enter(s, [entry[s] EXCEPT !.version = @ + 1, !.forced = TRUE])
  /\ Claim(s)
  /\ UNCHANGED <<row, saved, broken, touched>>

(***************************************************************************)
(* IsModified.                                                             *)
(***************************************************************************)
\* Not the code: what is deleted is not dirty.
IsDirty(s) == Held(s) /\ entry[s].status # "Deleted" /\ Dirty(entry[s])

IsModified(s) == Held(s) /\ (entry[s].status = "Deleted" \/ Dirty(entry[s]))

(***************************************************************************)
(* The end of the transaction, and of the session with it.                 *)
(***************************************************************************)
Close(s) ==
  /\ Enter(s, NoEntry)
  /\ Write(s, Unwritten)
  /\ broken' = broken \ {s}
  /\ claims' = [claims EXCEPT ![s] = Nothing]

Claims(s) == claims[s].made \/ Writes(s)

Commit(s) ==
  /\ Held(s) \/ image[s] # Unwritten
  /\ MayFlush(s) /\ Bounded(s)
  /\ row' = IF Flushed(s).image = Unwritten THEN row ELSE Flushed(s).image
  /\ touched' = IF Claims(s) THEN touched + 1 ELSE touched
  /\ Close(s)
  /\ UNCHANGED saved

\* The program gives up, or a flush has failed.
RollBack(s) ==
  /\ Held(s) \/ image[s] # Unwritten \/ s \in broken
  /\ Close(s)
  /\ UNCHANGED <<row, saved, touched>>

Next ==
  \E s \in Sessions :
    \/ \E v \in Values : Save(s, v) \/ Change(s, v)
    \/ Get(s) \/ Delete(s) \/ Flush(s) \/ Evict(s)
    \/ FlushAndEvict(s) \/ SaveAndEvict(s) \/ IncrementVersion(s)
    \/ Commit(s) \/ RollBack(s)

Spec == Init /\ [][Next]_vars

(***************************************************************************)
(* Properties.                                                             *)
(***************************************************************************)
\* One transaction at a time has written the row, and its session knows the
\* version it has written.
TypeOK ==
  /\ row \in Rows \cup {NoRow}
  /\ \A s \in Sessions : image[s] \in Rows \cup {NoRow, Unwritten}
  /\ \A s \in Sessions : image[s] # Unwritten => ~Locked(s)
  /\ \A s \in Sessions : image[s] \in Rows /\ Held(s) => entry[s].version = image[s].version

\* FlushAndEvict loses no change: the row as the transaction sees it has it.
EvictedIsStored ==
  [][\A s \in Sessions : FlushAndEvict(s) /\ Writes(s) =>
       IF entry[s].status = "Deleted" THEN Visible(s)' = NoRow
       ELSE Visible(s)' # NoRow /\ Visible(s)'.value = entry[s].value]_vars

\* IsModified is true when a flush would change the row and false when it
\* would not, whatever other sessions have committed.
ModifiedIsWhatFlushWrites ==
  \A s \in Sessions :
    Held(s) /\ entry[s].status # "New" /\ Current(s) =>
      LET after == IF Flushed(s).image = Unwritten THEN row ELSE Flushed(s).image
      IN IsModified(s) <=> after # Visible(s)

\* A version that is forced keeps others out: who commits a write or a forced
\* version has read the row as the last such commit left it.
WritersAreCurrent ==
  [][\A s \in Sessions : Commit(s) /\ Claims(s) => claims[s].read = touched]_vars
=============================================================================
