--------------------------- MODULE DuplicateCheck ---------------------------
(***************************************************************************)
(* EntityDuplicateChecker and what it is for: sessions that look for a     *)
(* duplicate of the domain signature of an entity before they save it.     *)
(*                                                                         *)
(* The checker sets the flush mode of the session to Manual, so that the   *)
(* query does not write what the session has pending, and puts the old     *)
(* mode back whether the query answers or throws.  Between the answer and  *)
(* the commit nothing holds the row the query did not find: two sessions   *)
(* may both be told that they are alone.  Two histories say when.          *)
(***************************************************************************)
CONSTANTS
  Sessions,       \* sessions, each with one entity of the class
  Signatures,     \* values of the domain signature
  NoRow,          \* the entity has no row
  NullIsDistinct  \* "not (id = null)" holds of every row, or no id is null

ASSUME DuplicateAssumption ==
  /\ NoRow \notin Signatures
  /\ NullIsDistinct \in BOOLEAN

FlushModes == {"Auto", "Commit", "Manual"}

Verdicts == {"none", "unique", "duplicate", "failed"}

VARIABLES
  mode,       \* FlushMode of each session
  chosen,     \* the flush mode the program set last (history)
  previous,   \* the local previousFlushMode
  step,       \* how far each session is in DoesDuplicateExistWithTypedIdOf
  verdict,    \* what the last check of the entity as it is now has said
  signature,  \* the domain signature of each entity
  attached,   \* the entities given to Save
  row,        \* the row of each entity as its own session sees it
  committed,  \* the row as the other sessions see it
  missed,     \* sessions that have committed a row since the check of what
              \* this one has yet to commit (history)
  overlapped  \* pairs of which one committed its row having missed the
              \* other's (history)

vars == <<mode, chosen, previous, step, verdict, signature, attached, row, committed,
          missed, overlapped>>

TypeOK ==
  /\ mode \in [Sessions -> FlushModes]
  /\ chosen \in [Sessions -> FlushModes]
  /\ previous \in [Sessions -> FlushModes \cup {"unset"}]
  /\ step \in [Sessions -> {"idle", "asking", "leaving"}]
  /\ verdict \in [Sessions -> Verdicts]
  /\ signature \in [Sessions -> Signatures]
  /\ attached \subseteq Sessions
  /\ row \in [Sessions -> Signatures \cup {NoRow}]
  /\ committed \in [Sessions -> Signatures \cup {NoRow}]
  /\ missed \in [Sessions -> SUBSET Sessions]
  /\ overlapped \subseteq SUBSET Sessions

Init ==
  /\ mode = [s \in Sessions |-> "Auto"]
  /\ chosen = [s \in Sessions |-> "Auto"]
  /\ previous = [s \in Sessions |-> "unset"]
  /\ step = [s \in Sessions |-> "idle"]
  /\ verdict = [s \in Sessions |-> "none"]
  /\ signature \in [Sessions -> Signatures]
  /\ attached = {}
  /\ row = [s \in Sessions |-> NoRow]
  /\ committed = [s \in Sessions |-> NoRow]
  /\ missed = [s \in Sessions |-> {}]
  /\ overlapped = {}

Dirty(s) == s \in attached /\ row[s] # signature[s]

\* What a flush of the session writes.
Flushed(s) == IF s \in attached THEN [row EXCEPT ![s] = signature[s]] ELSE row

(***************************************************************************)
(* The checker.                                                            *)
(***************************************************************************)
\* Not the code: the flush mode is left as it is.
CheckUnguarded(s) ==
  /\ step[s] = "idle"
  /\ previous' = [previous EXCEPT ![s] = mode[s]]
  /\ step' = [step EXCEPT ![s] = "asking"]
  /\ UNCHANGED <<mode, chosen, verdict, signature, attached, row, committed, missed, overlapped>>

\* Not the code: the old mode is not kept.
CheckUnsaved(s) ==
  /\ step[s] = "idle"
  /\ mode' = [mode EXCEPT ![s] = "Manual"]
  /\ step' = [step EXCEPT ![s] = "asking"]
  /\ UNCHANGED <<chosen, previous, verdict, signature, attached, row, committed, missed, overlapped>>

\* The checker notes the flush mode and sets it to Manual.
Check(s) ==
  /\ step[s] = "idle"
  /\ previous' = [previous EXCEPT ![s] = mode[s]]
  /\ mode' = [mode EXCEPT ![s] = "Manual"]
  /\ step' = [step EXCEPT ![s] = "asking"]
  /\ UNCHANGED <<chosen, verdict, signature, attached, row, committed, missed, overlapped>>

\* The rows with the signature of the entity that its session sees, without
\* its own row.  GetId is null until the entity has been saved.
Duplicates(s) ==
  {t \in Sessions \ {s} : committed[t] = signature[s] /\ (s \in attached \/ NullIsDistinct)}

\* Not the code: the row of the entity is a duplicate as well.
DuplicatesWithSelf(s) ==
  {t \in Sessions : signature[s] = IF t = s THEN row[s] ELSE committed[t]}

\* The answer; it is about what the others have committed by now, unless the
\* session has flushed and not committed after an earlier check.
Answer(s, duplicate) ==
  /\ step[s] = "asking"
  /\ verdict' = [verdict EXCEPT ![s] = IF duplicate THEN "duplicate" ELSE "unique"]
  /\ missed' = [missed EXCEPT ![s] = IF row[s] = committed[s] THEN {} ELSE @]
  /\ step' = [step EXCEPT ![s] = "leaving"]
  /\ UNCHANGED <<mode, chosen, previous, signature, attached, committed, overlapped>>

\* Not the code: one duplicate is none.
QueryOffByOne(s) ==
  /\ Answer(s, \E t, u \in Duplicates(s) : t # u)
  /\ UNCHANGED row

\* Not the code: the row of the entity itself is found.
QuerySelf(s) ==
  /\ Answer(s, DuplicatesWithSelf(s) # {})
  /\ UNCHANGED row

\* criteria.List(), which flushes first in the mode Auto, and the verdict.
Query(s) ==
  /\ Answer(s, Duplicates(s) # {})
  /\ row' = IF mode[s] = "Auto" THEN Flushed(s) ELSE row

\* The query, or the criteria built for it, throws.
Throw(s) ==
  /\ step[s] = "asking"
  /\ verdict' = [verdict EXCEPT ![s] = "failed"]
  /\ step' = [step EXCEPT ![s] = "leaving"]
  /\ UNCHANGED <<mode, chosen, previous, signature, attached, row, committed, missed, overlapped>>

\* Not the code: the mode is put back after an answer only.
LeaveOnSuccess(s) ==
  /\ step[s] = "leaving"
  /\ mode' = [mode EXCEPT ![s] = IF verdict[s] = "failed" THEN mode[s] ELSE previous[s]]
  /\ step' = [step EXCEPT ![s] = "idle"]
  /\ UNCHANGED <<chosen, previous, verdict, signature, attached, row, committed, missed, overlapped>>

\* The finally block.
Leave(s) ==
  /\ step[s] = "leaving"
  /\ mode' = [mode EXCEPT ![s] = previous[s]]
  /\ step' = [step EXCEPT ![s] = "idle"]
  /\ UNCHANGED <<chosen, previous, verdict, signature, attached, row, committed, missed, overlapped>>

(***************************************************************************)
(* The program.  It saves, flushes and commits an entity only after a      *)
(* check of the entity as it is has found no duplicate.                    *)
(***************************************************************************)
Change(s) ==
  /\ step[s] = "idle"
  /\ \E v \in Signatures : signature' = [signature EXCEPT ![s] = v]
  /\ verdict' = [verdict EXCEPT ![s] = "none"]
  /\ UNCHANGED <<mode, chosen, previous, step, attached, row, committed, missed, overlapped>>

ChooseFlushMode(s) ==
  /\ step[s] = "idle"
  /\ \E f \in FlushModes :
       /\ mode' = [mode EXCEPT ![s] = f]
       /\ chosen' = [chosen EXCEPT ![s] = f]
  /\ UNCHANGED <<previous, step, verdict, signature, attached, row, committed, missed, overlapped>>

Save(s) ==
  /\ step[s] = "idle"
  /\ verdict[s] = "unique"
  /\ attached' = attached \cup {s}
  /\ UNCHANGED <<mode, chosen, previous, step, verdict, signature, row, committed, missed, overlapped>>

Flush(s) ==
  /\ step[s] = "idle"
  /\ Dirty(s)
  /\ verdict[s] = "unique"
  /\ row' = Flushed(s)
  /\ UNCHANGED <<mode, chosen, previous, step, verdict, signature, attached, committed, missed, overlapped>>

\* The transaction manager commits; the session flushes unless Manual.
Commit(s) ==
  /\ step[s] = "idle"
  /\ Dirty(s) => verdict[s] = "unique"
  /\ row' = IF mode[s] = "Manual" THEN row ELSE Flushed(s)
  /\ committed' = [committed EXCEPT ![s] = row'[s]]
  /\ verdict' = [verdict EXCEPT ![s] = "none"]
  /\ IF row'[s] = committed[s] THEN UNCHANGED <<missed, overlapped>>
     ELSE /\ missed' = [t \in Sessions |-> IF t = s THEN {} ELSE missed[t] \cup {s}]
          /\ overlapped' = {pair \in overlapped : s \notin pair} \cup {{s, t} : t \in missed[s]}
  /\ UNCHANGED <<mode, chosen, previous, step, signature, attached>>

SessionStep(s) ==
  \/ Check(s) \/ Query(s) \/ Throw(s) \/ Leave(s)
  \/ Change(s) \/ ChooseFlushMode(s) \/ Save(s) \/ Flush(s) \/ Commit(s)

Next == \E s \in Sessions : SessionStep(s)

Spec == Init /\ [][Next]_vars

(***************************************************************************)
(* Properties.                                                             *)
(***************************************************************************)
\* Outside a check the session flushes the way the program has asked for,
\* also after a check that threw.
FlushModeKept == \A s \in Sessions : step[s] = "idle" => mode[s] = chosen[s]

\* A check writes nothing: what the session has pending stays pending.
CheckWritesNothing == [][\A s \in Sessions : step[s] # "idle" => row'[s] = row[s]]_vars

\* An entity is not a duplicate of itself: a check that finds one has found
\* the row of another entity.
SelfIsNoDuplicate ==
  [][\A s \in Sessions : verdict[s] # "duplicate" /\ verdict'[s] = "duplicate"
       => \E t \in Sessions \ {s} : committed[t] = signature[s]]_vars

\* What a check leaves of its session, and what it may say
\* (EntityDuplicateChecker.DoesDuplicateExistWithTypedIdOf).
CheckIsSafe == [](TypeOK /\ FlushModeKept) /\ CheckWritesNothing /\ SelfIsNoDuplicate

\* Two committed rows have the same domain signature only if one was committed
\* after the other session had checked and before it committed, so a check that
\* nobody gets in between of keeps signatures unique.
SignaturesUnique ==
  NullIsDistinct =>
    \A s, t \in Sessions :
      s # t /\ committed[s] # NoRow /\ committed[s] = committed[t] => {s, t} \in overlapped
=============================================================================
