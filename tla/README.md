# S#arp Architecture: a TLA+ model

S#arp Architecture is a C# library for web applications on NHibernate or RavenDB:
entities with identity and domain signatures, repositories, transaction managers, and an
ASP.NET Core filter that wraps controller actions in a transaction.  This directory holds
TLA+ modules that model its logic, TLC configurations that check them on small instances,
and theorems checked by TLAPS.  Paths below are relative to the repository; `Src/...` is the
library, `Samples/...` the sample applications.

## Inventory

| part | state | operations | talks to | what is hard |
| --- | --- | --- | --- | --- |
| Transaction filter: `Src/SharpArch.Web.AspNetCore/Transaction` | per request: the effective `TransactionAttribute`, the manager; per process: a static attribute cache behind a lock | `GetTransactionAttribute`, `OnActionExecutionAsync` before and after `next()` | MVC, `ITransactionManager` | the action may end the transaction itself, handle exceptions, invalidate the model, the client may leave, the commit may fail; the cache is read outside its lock |
| NHibernate transaction manager: `Src/SharpArch.NHibernate/TransactionManager.cs` | none of its own: the session's current transaction | begin, commit, rollback, flush, `IsActive` | `ISession` | a second begin returns the first transaction; a rollback keeps the session's queue; a failed commit may leave the transaction open, closed or applied |
| RavenDB transaction manager: `Src/SharpArch.RavenDb/TransactionManager.cs` | `_transaction`, a `TransactionScope` | begin, commit, rollback, `IsActive` | `IAsyncDocumentSession`, `System.Transactions` | scopes nest, disposing one may throw and leave a dead scope in the field; rollback leaves the session's changes pending; every repository makes its own manager |
| Repositories: `NHibernateRepositoryBase.cs`, `LinqRepository.cs`, `RavenDbRepository.cs`, `RepositoryExtensions.cs` | none of their own | get, find, save, delete, evict | session, manager | save and evict without a flush; find-one on several results |
| Session extensions: `Src/SharpArch.NHibernate/SessionExtensions.cs` | none | flush and evict, force a version increment, dirty test | NHibernate persistence context | the increment depends on lock modes and dirtiness |
| Duplicate check and validation: `EntityDuplicateChecker.cs`, `DataAnnotationsEventListener.cs`, `Validation/*` | the session's `FlushMode`, saved and restored | `DoesDuplicateExistWithTypedIdOf`, pre-insert and pre-update listeners | session, container | check-then-insert between sessions, pending work invisible to the check, a query that throws half way |
| Entity identity: `Src/SharpArch.Domain/DomainModel` | `_cachedHashcode`, the id | `Equals`, `GetHashCode`, `HasSameObjectSignatureAs`, `IsTransient` | hash collections | the hash is cached while transient and the id arrives later |
| Signature cache: `Src/SharpArch.Domain/Reflection` | a concurrent dictionary of property descriptors | find, get-or-add | every `BaseObject` | two threads build the same descriptor |
| Registration: `Src/SharpArch.NHibernate.DependencyInjection` | container instances per scope | `AddNHibernateWithSingleDatabase` | ASP.NET Core scopes | lifetimes decide what requests share |
| Session factory builder: `NHibernateSessionFactoryBuilder.cs` | configuration pieces, the cached configuration | the fluent `Use...` calls, `BuildConfiguration`, `BuildSessionFactory` | NHibernate, FluentNHibernate | order of the calls; which of them accumulate and which replace |
| Logging: `Src/SharpArch.Infrastructure/Logging` | none | one property per level | `ILogger` | which level gates which |
| Test support: `Src/Common`, `Src/SharpArch.Testing*` | cached configuration and factory, a session per fixture | initialise, flush and clear, dispose | NHibernate | order of set-up and disposal |
| TardisBank sample: `Samples/TardisBank` | accounts with transactions, payment schedules, messages | deposits, withdrawals, scheduled payments, archiving of old transactions | repositories, MediatR | the archived balance, the schedule's dates, a withdrawal whose notification fails |
| TardisBank web: `Samples/TardisBank/Src/*.WebApi`, `*.Tasks`, and the older `Samples/old` | users, announcements; in the browser, lists and forms | registering, activating, forgotten passwords, news pages | repositories, mail, XMLHttpRequest | mail before commit, answers out of order |
| TransactionAttribute sample: `Samples/TransactionAttribute` | a stub transaction manager | begin, commit, rollback | the transaction filter | shows attribute overriding |


What makes each part correct: the filter and a transaction manager must together be a unit of
work (all of a request's writes or none, the right level, nothing left open, nothing shared);
the cache must be invisible; repositories and extensions must keep the session consistent; the
duplicate check must restore the session it borrows; equality and hash codes must agree for as
long as an entity sits in a hash collection; the builder and the fixtures must
do what their documentation says of the order and number of calls; an account's balance must be
the sum of all amounts ever booked; a due date is paid once; nobody is locked out or confirmed by
a mail that never went; a page shows what was asked for.  Every hazard is listed in PROJECT.json
at the line where it bites, with the properties that cover it or the reason why none does.

## Modules

| module | models | composed with |
| --- | --- | --- |
| `TransactionPolicy` | `TransactionAttribute`, the effective policy of an action, and the test that chooses rollback or commit | extended by all below |
| `UnitOfWork` | abstract: what a unit of work promises, whatever the storage | implemented by `NHibernateUnitOfWork` |
| `NHibernateUnitOfWork` | `AutoTransactionHandler` around an action, `NHibernate/TransactionManager.cs`, the scoped registrations, and the writes of repositories | extends `TransactionPolicy` |
| `AttributeCache` | `ApplyTransactionFilterBase.GetTransactionAttribute` step by step | extends `TransactionPolicy` |
| `WebApplication` | the whole filter: lookup in the shared cache, then the request | extends `NHibernateUnitOfWork`, with an instance of `AttributeCache` |
| `RavenUnitOfWork` | the same handler over `RavenDb/TransactionManager.cs` with nested scopes | extends `TransactionPolicy` |
| `EntityIdentity` | `Entity`, `BaseObject`: equality and hash codes of entities through their lives | |
| `SignatureCache` | `TypePropertyDescriptorCache` and its use by `BaseObject`, step by step | supplies what `EntityIdentity` compares |
| `DuplicateCheck` | `EntityDuplicateChecker`, and sessions that check and then save | |
| `ValidatedFlush` | `DataAnnotationsEventListener` within a flush | listeners come from `SessionFactoryBuilder` |
| `SessionEntities` | `SessionExtensions`, `RepositoryExtensions`: one row and the entities of two sessions | |
| `Queries` | the finders of both repositories that can be ambiguous | |
| `SessionFactoryBuilder` | `NHibernateSessionFactoryBuilder` | |
| `Registration` | `AddNHibernateWithSingleDatabase` in a container with scopes | justifies `SessionOf` of `NHibernateUnitOfWork` |
| `TestDatabase` | `TestDatabaseSetup` and the base classes of database tests | |
| `Ledger` | abstract: an account that books amounts and forgets none | implemented by `Account` |
| `Account` | `Account`, `Child`: payments, withdrawals, archiving | used by the two below |
| `ScheduledPayments` | `PaymentSchedule`, `SchedulerService`: calendar, clock and scheduler | extends `Account` |
| `BankSessions` | concurrent requests that read, book, message and commit | each commit is a step of an `Account` instance |
| `Families` | registration, activation, children, forgotten passwords, mail | |
| `NewsPages` | the scripts of the old news pages and the announcements controller | |
| `Library`, `Persistence`, `TardisBank` | four or five parts each, of which one moves, see below | extend one part and instantiate the others |
| `MC*` | instances for TLC: values of constants | |
| `*_proofs` | theorems, see below | |

### TransactionPolicy

`Filters[a][s]` is the attribute an action has in the global, controller and action scope;
`EffectivePolicy` takes the most specific, as MVC's `FindEffectivePolicy` does (external).
`MustRollBack` is the condition in `AutoTransactionHandler.cs:43-44`.  An exception that an inner
filter handled is still in the context, so `Exceptions` has three values.

### NHibernateUnitOfWork

A request goes through `pc`: *arrived*, *action* (inside `next()`), *executed*, *closing* (the
handler has returned or thrown), *done*.  The attribute, the model state and the exception are
what the MVC contexts hold; `fault` tells which call made the handler itself throw.  A session
is its current transaction's isolation level, the `queued` writes that wait for a flush, and the
`flushed` ones executed in the open transaction; `durable` is the database.  `asked` and
`tookOver` are history.

| action | code |
| --- | --- |
| `BeginWith`, `BeginFailsWith` | `OnActionExecutionAsync` up to `next()`; the database may refuse the transaction |
| `Save`, `SaveIdentity` | repository `SaveAsync`, `SaveOrUpdateAsync`, `DeleteAsync`; an entity with a generated id is inserted at once |
| `Flush`, `FlushOutside`, `FlushThrows` | `FlushChangesAsync` or a query that flushes, in or out of a transaction, whole or part way |
| `ActionBegins`, `ActionCommits`, `ActionRollsBack` | the action uses the transaction manager itself, or disposes what `BeginTransaction` returned |
| `AddModelError`, `ActionEnds`, `ClientAborts` | `ModelState`, the end of the action with or without an exception, `RequestAborted` |
| `HandlerLeaves`, `HandlerRollsBack`, `HandlerCommits` | the three ways through the handler after `next()`; the commit may be cancelled, fail in its flush, or fail at the database, where the failure may be a lost acknowledgement |
| `DisposeScope` | the request's scope disposes the session |

`SessionOf(r) = r` is the scoped lifetime of session and manager in
`NHibernateRegistrationExtensions.cs`.  The session itself is NHibernate's; the model keeps what
the properties need: a second begin returns the open transaction, a rollback keeps the queue, a
flush outside a transaction commits statement by statement, disposing rolls back.

### AttributeCache and WebApplication

The static dictionary is a function, replaced as a whole.  Each request is at one `stage` of the
lookup; the unlocked read, the lock, `FindEffectivePolicy` with `ContainsKey`, the construction
of the new dictionary, the assignment and the release are steps of their own.  With `StaleReads`
the unlocked read may miss an entry that exists, since the field is neither volatile nor locked
there; what it reads is otherwise an entry once cached, and entries do not change
(`EntriesStay`).  `WebApplication` begins a request with the result of its lookup and leaves the
rest to `NHibernateUnitOfWork`.

### RavenUnitOfWork

Each `TransactionManager` has a field that is null, the root scope of the ambient transaction, a
member that joined it, an orphan whose transaction is over, or a scope already disposed.
`doomed` says that the ambient transaction can only abort: a member was disposed without
completion, or the timeout has passed.  RavenDB's client does not enlist: `pending` changes
become `durable` in `SaveChanges`, before the scope is completed.  The handler's manager is
`Injected`; a repository's constructor makes another over the same session
(`RavenDbRepository.cs:45`).  The actions correspond to the code as above; `ActionDisposes` is a
`using` block around `BeginTransaction`, which leaves a dead scope in the field.

### Entities

`EntityIdentity` has objects that are transient, saved or loaded again, proxies in front of
them, and a hash set.  `Equals`, `HasSameNonDefaultIdAs` and `GetHashCode` are operators over
the state of the objects; `GetHashCode` is an action too, since it caches.  Codes do not
collide: a code is the data it was computed from.  What the signature properties of a class are
comes from `SignatureCache`, in which each thread looks, computes and adds in steps of its own
while the cache may be cleared; the entity cannot tell which thread's descriptor it got
(`OneDescriptorPerType`), and for a value object with signature attributes the factory throws
for every thread, every time (`AmbiguousAlwaysRefused`).

### NHibernate around the entities

`DuplicateCheck` follows `DoesDuplicateExistWithTypedIdOf` through its `try`/`finally`: the flush
mode is borrowed, the query may throw.  Nothing holds the row that a query did not find, so two
sessions may check before either commits: `missed` says which commits a session's last check could
not know, and `overlapped` which pairs of rows were committed that way.  `ValidatedFlush`
distinguishes the object as it was saved, as it is, and as it is in the database: an insert writes
the first, the listener judges the second.  `SessionEntities` has, per session, the entity's status
and the snapshot it was loaded with, and the row with its version; what a flush writes locks the
row.  `SessionFactoryBuilder` is a sequence of calls with a build at any moment; `files` are the
configuration files there are.  One that was named is read, and otherwise `hibernate.cfg.xml` if it
is there; it brings settings and listeners, before which the validator is inserted.  `Registration`
resolves services of the three lifetimes in scopes, with an explicit container state (`Provide`,
`Resolved`).  In `Queries` the database compares as SQL does, and a finder's answer is compared
with the rows.  `TestDatabase` runs the classes of a test assembly, failing or not, over databases
in memory, on a server and live.

### TardisBank

`Account` keeps `MaxTransactions` (100 in the code) transactions and an old balance;
`ImplementsLedger` maps it to `Ledger`, whose balance moves by every amount booked and covers
every withdrawal: archiving that drops an amount, or adds it twice, is no step of the ledger.
`ScheduledPayments` adds schedules, days, months of different lengths and the scheduler's run,
which pays what is due up to the end of the day; a schedule may pay a negative amount
(`AddScheduleViewModel.cs:14`), which nothing tests against the balance.  `BankSessions` splits a
request into its reads, its change in memory and its commit at read committed.  `Families` does
the same for users.  A parent is a row in `Users` and one in `Parents` (a joined subclass); an
update writes all columns of the tables in which one has changed, as they were read, so that a
new password writes an old `IsActive` and leaves the activation key alone.  The mail leaves before
the commit.  In `NewsPages` each handler of the scripts is an action, requests are answered in any
order, and may fail before or after the server has acted; an expired login answers 401, and the
login page takes the place of the editor's.

None of this is serialized by the code, and no property assumes that it is.  Where a promise fails
because two requests overlap, a history variable records the overlap (`missed` and `overlapped` in
`BankSessions`, `Families` and `DuplicateCheck`, `overtaken` in `NewsPages`), and the property says
that the promise holds for every interleaving in which it did not happen, or for the rows that
were not so written.  An overlap is what the code cannot see: a request commits after another has
committed something that it had read, or looked for, in an earlier state.

The variables `smtpServer` and `publishThrows` in `Families` are settings chosen at the start:
whether a mail server is configured, and whether the mediator lets a handler's exception out (as
that of the old web site does) or not.

### Parts that share a run

Parts without common state are checked in one run each for the library, for what surrounds
entities and sessions, and for the sample.  A variable `moving`, chosen at the start, names the
part that moves; the others rest in one initial state of theirs, so the states of the run are
those of the parts one after the other, not their product.  `Library`, `Persistence` and
`TardisBank` have one property per part, or two, which is the conjunction of the type invariant
and the named properties of that part.

## Runs

| run | instance | what it shows |
| --- | --- | --- |
| `nhibernate_unit_of_work` | one request, three writes (one with a generated id), three actions (no attribute, lenient inherited, strict overriding), two levels | `FailureLeavesNothing`: a failed request in the handler's transaction leaves no write; `SuccessKeepsEverything`: a committed one has stored all; `NoStrayTransaction`; `IsolationKept`; `AbortedStoresNothing`; `EveryRequestEnds` with its transaction closed |
| `nhibernate_concurrent` | two requests, one with a queued write and an identity insert, one with a queued write | `IsUnitOfWork`: the session under the handler implements `UnitOfWork`: a request's writes become durable together or not at all, and never another's |
| `nhibernate_handled_exception` | one request | violation, see findings |
| `nhibernate_no_status` | a manager without `ISupportsTransactionStatus` | violation, see findings |
| `attribute_cache` | three requests, three actions, one of them without attribute | `AnswersRight`, `AddNeverThrows`, `AnswersAreKept`, `EntriesStay`, `EveryLookupEnds` |
| `web_application` | two requests, one write, two actions, one level, stale reads | `RunsUnderItsPolicy`: what a request finds in the shared cache is what its transaction is begun and ended by |
| `raven_unit_of_work` | one request, two managers, two changes, three actions, two levels | `FailureLeavesNothing`, `SuccessKeepsEverything`, `NoStrayScope`, `DoomIsReported` |
| `raven_rollback`, `raven_scope_leak` | the same | violations, see findings |
| `library` | `MCLibrary`: two sessions that check; three threads and two types; a builder of four calls and two configuration files; two classes of two tests | see the next table |
| `persistence` | `MCPersistence`: three objects, a proxy and two classes; two sessions and five versions of a row; two entities in a flush; three rows with two nullable columns; two scopes with two consumers | see the next table |
| `tardisbank` | `MCTardisBank`: an account of three transactions and eight bookings; two schedules over three days, which may give or take; two requests with four bookings; two users and two requests; two connections and two announcements | see the next table |

| run, part | property | what it conjoins |
| --- | --- | --- |
| `library`, `DuplicateCheck` | `CheckIsSafe` | `FlushModeKept`: outside a check the session has the flush mode the program chose, even after a query that threw; `CheckWritesNothing`; `SelfIsNoDuplicate` |
| | `SignaturesUnique` | two committed rows have one signature only if one was committed between the check and the commit of the other |
| `library`, `SignatureCache` | `DescriptorsAgree` | `OneDescriptorPerType` for all racing threads; `AmbiguousAlwaysRefused`, not only the first time |
| `library`, `SessionFactoryBuilder` | `FactoryIsAsSaid` | `FactoryHasWhatWasSaid`: mappings and properties are what the calls and the configuration file add up to; `ListenersKeepTheirPlaces`: the validator first, then those of the file, then the program's |
| `library`, `TestDatabase` | `TestsAreIsolated` | a test sees what it wrote and nothing of other tests, however those ended |
| `persistence`, `EntityIdentity` | `EntitiesAreIdentified` | `EqualityIsEquivalence`, `MembersStayFindable`, `LoadedMembersDistinct` |
| | `IdentityIsStable` | no step separates or joins persistent entities |
| `persistence`, `SessionEntities` | `SessionsKeepRows` | `EvictedIsStored`; `ModifiedIsWhatFlushWrites`; `WritersAreCurrent`: who commits a write or a forced version has read the row as it is |
| `persistence`, `ValidatedFlush` | `FlushIsGuarded` | `CommittedRowsAreValid` although inserts write an older state than the one judged; `RefusedForAReason` |
| `persistence`, `Queries` | `FindersAreExact` | `FindOneIsExact`; `ExampleIsExact` |
| `persistence`, `Registration` | `ServicesBelongToScopes` | `OneFactory`; `OneSessionPerScope`; `SessionsAreTheirOwn` |
| `tardisbank`, `Account` | `ImplementsLedger` | archiving neither loses nor repeats an amount, nor lets a withdrawal exceed the balance |
| `tardisbank`, `Account`, `ScheduledPayments` | `AccountsAreRight` | `BalanceIsTotal`, `NeverOverdrawn`, `ArchivesWhenFull`; `PaymentsFollowPlan`: every due date is paid once, in order, never early; `PaymentsAreBooked` |
| | `DueDatesGetPaid` | a schedule that stays overdue is paid until it is not |
| `tardisbank`, `BankSessions` | `CommitsFollowTheAccount` | whatever others do before or meanwhile, the commit of a request that has missed none does to the stored account what `Account` does |
| | `BookingsAreRight` | `EachBookedOnce`; `OnlyMissedCommitsHarm`: no amount is lost otherwise; `NewestMessagesKept`: the parent is told of the withdrawals that are booked and no others; `DueDatesPaidOnce`: none is skipped, one is paid twice only by a payment that missed a commit |
| `tardisbank`, `Families` | `UsersAreConsistent` | `NamesUnique` and `NobodyLockedOut` but for users written by overlapping requests; `ActiveIsConfirmed`, `PasswordsAreKnown` where mail is in use |
| `tardisbank`, `NewsPages` | `NewsPagesAreTrue` | `NoRowTwice`, `RowsLeaveWhenDeleted`; `DetailsAreTheClicked` unless an earlier answer came late; `TextKeptUntilPublished` unless the login expires |

Each property has a mutant, and each conjunct has one of its own: an operator marked "Not the
code" in the modules, with which TLC finds the property violated.

*Bounds.*  A request's fate depends on the order of its calls, not on how many writes it has:
two queued writes let a flush stop between them, an identity insert adds the write that skips
the queue, two levels let the action ask for another than the attribute's.  Requests touch only
their own session and the durable set, so two suffice to interfere, and an insert at once with a
queued write beside it is a request of which a part could be stored; in the cache a third request
lets one wait for the lock while two others interleave.  Two managers are enough for a scope to
nest, to doom and to outlive its root.  Up to here nothing else is bounded: no counter is cut
off, and the runs visit all reachable states of their instance.

The other modules name their bounds as constants.  Accounts keep two or three transactions instead
of 100, since archiving does the same at any limit, and see more bookings than they keep
(`MaxBookings`), so that what was archived is archived over again; amounts are one and two, so that
a withdrawal may fit, not fit, or fit exactly; a schedule gives two or takes one.  The calendar has
months of one and two days and weeks of two, so that a monthly schedule meets a day that a month
lacks; no schedule starts on the last day, so that each has a date to be paid.  `MaxVersion` lets
both sessions overwrite the other twice, and `MaxPublished` with the two places of the list fills
the page.  Four calls of a builder are enough for two sources of one setting, a listener and a
second thought about each.  `MaxUsers` lets two parents of one name exist, or a parent and a child;
what the properties say is of one user, two users, or a child and its parent.  The two sessions of
the duplicate check, and those of `SessionEntities`, are symmetric.  In `Queries` a column of three
rows has none, one, two or three matches, so the limit of two is met and exceeded; one question is
asked of each table, since an answer depends on the table alone.

*Deadlock.*  The request modules stop when every request is done, so their runs do not check
for deadlock; neither do the three runs of several parts, some of which stop at a bound (bookings,
users, versions, days, tests), at the login page, when the host has stopped, or when every object
has had its life.  The attribute cache never stops, and its run does check it.

*Fairness.*  `NHibernateUnitOfWork!FairSpec` has weak fairness on the handler's steps, on the end
of the action and on the disposal of the scope: the server runs the pipeline of a request to its
end, and an action that runs returns some time.  `AttributeCache!FairSpec` has weak fairness on
each request's lookup steps: its thread is scheduled.  No strong fairness is assumed of the lock:
an action is added once, and from then on its requests do not need the lock.  That argument
breaks if reads were stale for ever, which no processor does; the run `attribute_cache` therefore
has fresh reads, and `web_application` the stale ones.  In `TardisBank` the clock and the
scheduler are weakly fair: `ScheduleRunnerController.cs:25` is there to be called by a job from time
to time, and a job that stops calling pays nobody.

## Proofs

All theorems hold for every value of the constants under the named assumptions
`PolicyAssumption`, `CacheAssumption`, `UnitOfWorkAssumption`, `RavenAssumption`,
`WebApplicationAssumption`, `EntityAssumption`, `NoneAssumption`, `DuplicateAssumption`,
`AccountAssumption`, `LibraryAssumption`, `PersistenceAssumption` and `TardisBankAssumption`.
They say that the parameters have the right types and that the distinguished values (no row,
nothing written, null, the root scope) differ from the others.  Three say a little more: a table
has finitely many ids; the calendar goes on for a month after the last one the clock reaches, so
that every schedule has a next date; and the default configuration is no file's name, and no file
registers the validating listener itself.  None assumes that requests or sessions take turns.

- `TransactionPolicy_proofs`: the effective policy is an attribute or none.
- `NHibernateUnitOfWork_proofs`: type correctness; `FailureLeavesNothing`,
  `SuccessKeepsEverything`, `NoStrayTransaction`, `IsolationKept`, `AbortedStoresNothing`, and that
  the module implements `UnitOfWork`.  None of the invariants is inductive: they speak of finished
  requests.  The inductive invariant says what holds on the way: while the handler owns the
  transaction it is open at the attribute's level, nothing of the request is durable, and all it
  asked for is in the session; and what is in a session belongs to its request.  A step of one
  request leaves the part of the invariant that speaks of another alone (lemmas `Locality` and
  `OthersUntouched`).  The refinement is proved step by step: each action maps to a step of
  `UnitOfWork` or to a stutter.
- `AttributeCache_proofs`: the inductive invariant is mutual exclusion of the stages after the
  lock, that who is about to add has seen the key missing and nobody has added it since, that a
  dictionary about to be stored extends the cache by one right entry, and that all entries are
  right.  All safety properties of the run follow.
- `WebApplication_proofs`: the cache's steps in the composition are steps of `AttributeCache`, so
  its invariant carries over from its proof; a request that has begun has its answer and runs under
  it, which together give `RunsUnderItsPolicy`.
- `RavenUnitOfWork_proofs`: the inductive invariant has the scopes (one root at most, present
  just when there is an ambient transaction) and says that until the handler acts every change
  asked for is pending or durable, that nothing is durable unless the action has saved, and that
  the handler's scope is still in its manager unless the action closed it.  All properties of
  the run follow.

The other three modules prove every safety property, action property and refinement of a run of
several parts.  A part is proved by its own inductive invariant; a lemma `...MovesAlone`
says that a step of the composition is a step of the part or leaves it alone, so the invariant
carries over.

`Library_proofs`:

- *DuplicateCheck.*  During a check the mode to restore is remembered, and outside it is the
  session's own; a session whose turn it is not has no answer pending.  From it: the flush mode
  survives checks that throw, no check writes, none finds the entity to be its own duplicate.
  A signature that two sessions have committed, or that one has committed while another has written
  it or is allowed to, was missed by a check (`OverlapInv`): for any number of sessions,
  interleaved in any way, two equal rows tell of such an overlap (with `NullIsDistinct`).
- *SignatureCache.*  What lookups have returned since the last `Clear` is what the cache holds,
  and a thread about to return has read it there unless the cache was cleared meanwhile.
- *SessionFactoryBuilder.*  The fields of the builder are what its calls add up to: a field that is
  replaced has the argument of the last call of its name, the mappings are in the order of their
  calls (the rank of a call among those of its name is its place), a property has its last value.
  From it the factory's settings, mappings and listeners after any sequence of calls, with any
  configuration files present (`FileIsAsSaid`: the file read is the one named last, or else the
  default one if there is one) and any listeners registered in them.
- *TestDatabase.*  Of the rows of tests a session sees at most the one its own test wrote: the
  database on a server has one test at a time, the others end with their session.

`Persistence_proofs`:

- *EntityIdentity.*  A member of a set still has the code it was put under, an object from the
  database has codes of its id only, and a set holds one object of each row.  From it: equality is
  an equivalence whatever the mix of entities, copies and proxies, and members are found for good;
  persistent entities are neither joined nor separated by any step.
- *Registration.*  The container is sound: every object is the one cached for its service in the
  place that owns it, only the root owns factories, and an object uses what its place has cached,
  made before it.  What a consumer holds belongs to its own scope, which is open.
- *ValidatedFlush.*  A queued insert has the state the object was loaded with, and an invalid row
  that is not committed is on its way to be updated, deleted or refused before the flush ends.
  That intermediate state is why "committed rows are valid" is not inductive.
- *Queries.*  That two results are enough to refuse, and one result matches alone, is a lemma on the
  cardinality of finite sets.
- *SessionEntities.*  One transaction at most has written the row; its version is newer than the
  committed one, and who has written or forced a version has read the row as it is; a session that
  only reads holds no newer version than the row.  From it the dirty test, the eviction and the
  versions, for any number of sessions.

`TardisBank_proofs`:

- *Account.*  For every limit and all positive amounts the account is full before it archives and
  stays full, and it implements `Ledger` step by step, balance included.  The balance is a sum: the
  sum of a sequence is a recursive function, whose existence is proved by the least element of the
  set of lengths without one, since the prover cannot instantiate the induction theorems.  From
  the same lemmas (a sum grows by what is appended, shrinks by the head) come `BalanceIsTotal`,
  `NeverOverdrawn` and that folding the oldest amount into the old balance moves nothing
  (`BalanceMoves`).
- *Families.*  The invariant of the rows alone says nothing of a request that has read and not yet
  written, so it is joined by what is pending (`PendingInv`): it is right by itself, and it fits
  the rows as they are, or else the request has missed a commit of the same name.  A stale update
  cannot take a parent's key without making him active, unless it was marked as overlapped.
- *BankSessions.*  The archive and the list are the bookings in order, without a gap, so what a
  request is going to delete is the oldest row, or gone (`Deletes`).  A request that has missed
  nothing knows the old balance, the due date and what to drop as they are (`Knows`); the others
  still know that the dates before the one they have read are paid (`FollowsPaid`).  From it what
  `BookingsAreRight` conjoins, and that the commit of a request that has missed nothing is a step
  of `Account` (`CommitFollows`), for every number of sessions and amounts of either sign.
- *ScheduledPayments.*  Every schedule goes on with its own plan at the date after those paid,
  different schedules have different plans, and the account has received what the paid dates add up
  to.  The scheduler's loop over the schedules is reasoned about as a sequence of intermediate
  accounts (`RunsExist`); that a monthly date stays on the day the shortest month so far had is
  `ShortestNext` and `NextDue`.
- *NewsPages.*  What a request is for exists on the server, and an answer stays true, since
  announcements are never removed and a deleted one stays deleted.  A request for the link clicked
  last is for what is shown under it.  That the list of the latest has no announcement
  twice follows from their ranks (`Ranked`).

Only model-checked is liveness: `EveryRequestEnds`, `EveryLookupEnds` and `DueDatesGetPaid` need
fairness and ENABLED, which are beyond the prover.  Every other property of a passing run is a
theorem.

## Findings

- `nhibernate_handled_exception`: `AutoTransactionHandler.cs:43` rolls back whenever an exception
  is in the context, also when it was handled; the remarks of `TransactionAttribute` (lines
  25-26) promise a commit unless an exception was unhandled.
- `nhibernate_no_status`: with a manager that does not report its status the handler begins a
  transaction and never ends it (`AutoTransactionHandler.cs:34`); `TransactionAttribute.cs:20`
  says that it is committed or rolled back.
- `raven_rollback`: `RavenDb/TransactionManager.cs:71` disposes the scope and keeps the session's
  changes, which the next save stores; `ITransactionManager.cs:37` says that a rollback discards
  any changes.
- `raven_scope_leak`: when the save inside the handler's commit fails
  (`RavenDb/TransactionManager.cs:63`), the scope stays open after the request;
  `TransactionAttribute.cs:20` as above.

## Observations without a run

What else the models made visible: places where the code disagrees with its documentation, or
where a promise needs something the code does not give.  No property of a run states them; the
properties above say how far the code goes.

- `Entity.cs:130` keeps the hash code of a transient entity after its id has come; a copy of the
  row has another code and is equal.  `EntityTests.cs:565` says that equal ids generate equal hash
  codes.
- `EntityDuplicateChecker.cs:62`: two sessions may check before either commits, and both save;
  `SignaturesUnique` therefore speaks of all other rows.
  `HasUniqueDomainSignatureAttributeBase.cs:36` speaks of a look-up to ensure uniqueness.
- `DataAnnotationsEventListener.cs:31`: in the listener no service but the session can be resolved,
  so a class with a unique-signature attribute cannot be stored under it;
  `NHibernateSessionFactoryBuilder.cs:148` offers it for validation.
- `RepositoryExtensions.cs:31` (save and evict) evicts before a queued insert has run; every later
  flush of the session fails.
- `RavenDbRepository.cs:90` says "more than one result" when there is none;
  `IRavenDbRepository.cs:39` has the exception for more than one.
- `NHibernateRegistrationExtensions.cs:81` and `:93` register as scoped what lines 22 and 28
  document as transient and singleton.  For the manager the code is right; for the stateless
  session, one consumer disposes what another is using.
- `EnabledLogger.cs:39-74`: every level asks whether Trace is enabled.
- `Account.cs:54`: a run of the scheduler pays one of several overdue dates;
  `SchedulerService.cs:26` says all.  Later runs pay the others (`DueDatesGetPaid`).
- `Child.cs:65`, `Account.cs:43`: accounts have no version, so two requests at a time may overdraw
  one, lose an archived amount, or both add to a list that never shrinks again, since
  `RemoveOldTransactions` removes one at a time (`User.cs:64` does the same for messages).
- `AddScheduleViewModel.cs:14` admits schedules from -1000000 to 1000000, and `Account.cs:46-57`
  pays them unchecked: a negative one takes more than there is, without any overlap.
- `PasswordController.cs:74` resets the password of a parent that it has read, active or not.  If he
  activates meanwhile, the update puts back the inactive row of `Users`, while his key, which is in
  `Parents`, is gone: he can neither log in nor activate.
- `UserController.cs:89`: two registrations at a time may take one name.
- `common.js:19-30` answers a 401 with the login page; an announcement typed for longer than the
  login lasts is lost.  After a post the form is emptied, whatever has been typed since
  (`news.edit.js:58`); a row that was clicked before a reload stays in the list, though its
  announcement has been deleted (`news.edit.js:25`); and an article that was asked for earlier and
  comes later is shown under the link clicked last (`news.view.js:23`).
- `NHibernateSessionFactoryBuilder.cs:280-283`: a `hibernate.cfg.xml` beside the program is read
  although `UseConfigFile` was never called.
- `Parent.cs:30` drops the task that carries the failure of the mail, so a mediator that does not
  throw synchronously loses it; and `PasswordController.cs:83` resets a password without an SMTP
  server and tells nobody.

## Assumptions

Payments and withdrawals are positive; scheduled amounts are not.  A list mapped without an order
comes back by id.  The generator of ids is hilo, as in the sample, so that inserts are queued.  A
session is not used after it has thrown, as NHibernate demands.  A lock mode that forces an
increment is taken once per load.  A row refers to its parent by a foreign key.  A row that is
updated or deleted must be there, or the flush fails.  With `NullIsDistinct` the row of a transient
entity (whose id is null) is compared with every other.  Live tests neither commit nor roll back
themselves.

## Not modelled

NHibernate, RavenDB, `System.Transactions`, MVC, the container, MediatR and the browser are
external: their behaviour is modelled as the code uses it and marked so in PROJECT.json.
The logging wrapper (`EnabledLogger`) keeps no state and tests one level per property.
Specifications are filters without state, and FluentNHibernate's conventions are naming rules.
RavenDB's deferred delete of string ids, lists, and get, load and merge pass their arguments on.
`Samples/old` is superseded but for what `NewsPages` and `Families` take from it: login, logout and
the change of one's own password touch one row; the "Delete" button outside the list refers to an
undefined id and its request always fails; the account pages call what `BankSessions` models.

The JavaScript libraries under `Samples/old/.../Scripts` (jQuery, jQuery UI, jQuery Validate,
Bootstrap, JsRender, Modernizr, Respond) are copies of third-party code.  They make up nearly all
of the JavaScript in the repository and none of S#arp Architecture, whose logic is in C#; they
are not modelled.  The scripts that belong to the program (`Scripts/app`) are.

## Limits

- The three runs of several parts have small instances of each part, so that they end within
  minutes; the theorems have no such limit.  A part can be given a larger one by changing its
  constants and its `moving` alone.
- Where overlapping requests break a promise the properties say which ones may, not how much harm
  they do: an account that has lost an amount is only known to have seen a missed commit.
- Raven's `FindOneWhere` and `First` are actions of `Queries` without a property of their own: what
  they answer is the predicate they are given.
- `TestDatabase` has no property for the session that is lost when the schema export throws
  (`TestDatabaseSetup.cs:225`): nothing promises that it is closed.
