------------------------------- MODULE Queries ------------------------------
(***************************************************************************)
(* The finders of the repositories over rows with nullable columns, while  *)
(* others change the rows: by property values or by an example in          *)
(* NHibernate, by a predicate in RavenDB.  A question is a record of       *)
(* column values; the predicates are those that compare each column, null  *)
(* with null, as a lambda does.                                            *)
(***************************************************************************)
EXTENDS FiniteSets, Naturals

CONSTANTS
  Ids,
  Columns,
  Values,
  Null

QueriesAssumption == Null \notin Values /\ IsFiniteSet(Ids)

VARIABLES
  rows,    \* by id
  answer   \* the last question and its answer, until a row changes

vars == <<rows, answer>>

Questions == UNION {[cs -> Values \cup {Null}] : cs \in (SUBSET Columns) \ {{}}}
Examples == [Columns -> Values \cup {Null}]

Unasked == [by |-> "nobody"]
Stored == DOMAIN rows

Init ==
  /\ rows \in UNION {[ids -> Examples] : ids \in SUBSET Ids}
  /\ answer = Unasked

(***************************************************************************)
(* Restrictions, as the database evaluates them: nothing equals NULL.      *)
(***************************************************************************)
Eq(i, column, value) == value # Null /\ rows[i][column] = value
IsNull(i, column) == rows[i][column] = Null

\* Not the code: null is compared like a value.
RestrictByEq(i, pairs) == \A c \in DOMAIN pairs : Eq(i, c, pairs[c])

Restrict(i, pairs) ==
  \A c \in DOMAIN pairs : IF pairs[c] # Null THEN Eq(i, c, pairs[c]) ELSE IsNull(i, c)

\* Not the code: the columns to exclude are forgotten.
LikeWhole(i, example, excluded) == \A c \in Columns : example[c] = Null \/ Eq(i, c, example[c])

\* NHibernate's Example leaves out what is null.
Like(i, example, excluded) ==
  \A c \in Columns \ excluded : example[c] = Null \/ Eq(i, c, example[c])

\* The database returns any rows of those that match, as many as asked for.
Limited(ids, maxResults) ==
  {found \in SUBSET ids : Cardinality(found) = maxResults \/ (found = ids /\ Cardinality(ids) < maxResults)}

(***************************************************************************)
(* Finders.                                                                *)
(***************************************************************************)
\* Bound: a question is asked once between two changes of the rows; it changes
\* none, so another one after it finds what it would have found before it.
Answer(by, asked, excluded, kind, found) ==
  /\ answer = Unasked
  /\ answer' = [by |-> by, asked |-> asked, excluded |-> excluded, kind |-> kind, found |-> found]

FindOne(by, asked, excluded, ids) ==
  \E found \in Limited(ids, 2) :
    Answer(by, asked, excluded,
           IF Cardinality(found) > 1 THEN "nonUnique" ELSE IF found = {} THEN "default" ELSE "one", found)

FindOneByPairs(pairs) ==
  /\ FindOne("pairs", pairs, {}, {i \in Stored : Restrict(i, pairs)})
  /\ UNCHANGED rows

FindOneByExample(example, excluded) ==
  /\ FindOne("example", example, excluded, {i \in Stored : Like(i, example, excluded)})
  /\ UNCHANGED rows

Satisfies(i, asked) == \A c \in DOMAIN asked : rows[i][c] = asked[c]

\* SingleOrDefault throws on two; a null result is then taken for the same.
FindOneWhere(asked) ==
  /\ LET found == {i \in Stored : Satisfies(i, asked)}
     IN  Answer("where", asked, {}, IF Cardinality(found) = 1 THEN "one" ELSE "invalid", found)
  /\ UNCHANGED rows

First(asked) ==
  /\ \E found \in Limited({i \in Stored : Satisfies(i, asked)}, 1) :
       Answer("first", asked, {}, IF found = {} THEN "invalid" ELSE "one", found)
  /\ UNCHANGED rows

Write(i, row) ==
  /\ rows' = [k \in Stored \cup {i} |-> IF k = i THEN row ELSE rows[k]]
  /\ answer' = Unasked

Delete(i) ==
  /\ i \in Stored
  /\ rows' = [k \in Stored \ {i} |-> rows[k]]
  /\ answer' = Unasked

Next ==
  \/ \E pairs \in Questions : FindOneByPairs(pairs) \/ FindOneWhere(pairs) \/ First(pairs)
  \/ \E example \in Examples, excluded \in SUBSET Columns : FindOneByExample(example, excluded)
  \/ \E i \in Ids : Delete(i) \/ \E row \in Examples : Write(i, row)

Spec == Init /\ [][Next]_vars

(***************************************************************************)
(* Properties.                                                             *)
(***************************************************************************)
Agrees(ids) ==
  CASE answer.kind = "one" -> answer.found = ids
    [] answer.kind = "default" -> ids = {}
    [] OTHER -> Cardinality(ids) > 1

\* A single entity by property values is the only one that has them all, null
\* among them, "none" is said only when there is none, and several are never
\* passed off as one.
FindOneIsExact ==
  answer # Unasked /\ answer.by = "pairs" => Agrees({i \in Stored : Satisfies(i, answer.asked)})

\* An example that has no null in the columns that count finds what a
\* predicate over them would.
ExampleIsExact ==
  answer # Unasked /\ answer.by = "example" =>
    LET columns == Columns \ answer.excluded
    IN  (\A c \in columns : answer.asked[c] # Null) =>
          Agrees({i \in Stored : \A c \in columns : rows[i][c] = answer.asked[c]})
=============================================================================
