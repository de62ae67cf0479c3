# A TLA+ model of V7Library's active-record and cache protocol

V7Library is a TypeScript utility layer over MySQL and Memcached. Its core is
`DatabaseRecord` (1008 of the 1641 lines under `src/src/`): an active record
whose instances read and write one row of a table, one row of an optional
"extra" table, and one Memcached item that every process shares. There are no
transactions and no locks. What keeps the three in step is a protocol of
`gets`/`cas`/`add`/`set`/`del` requests and SQL statements, each an `await` at
which other calls may run. This project models that protocol, and around it the
cold start of a class's metadata, the events that methods fire and the keys
under which rows are addressed; it checks them with TLC and proves most of what
it claims of the protocol, the events and the keys with TLAPS.

Paths below are relative to the repository (`src/DatabaseRecord.ts`); numbers
are its lines.

## 1. Inventory

| component | state | operations | interacts through |
| --- | --- | --- | --- |
| `DatabaseRecord`, instances | per instance: `record`, its columns as properties of the object, `casToken`, `forceRead`, `inCache`, `keyValues` (73-87) | `load`, `insert`, `update`, `delete`, `unCache`, `readExtraData`, `isInCache` | requests to `Cache` and `DatabasePool`, events |
| `DatabaseRecord`, table metadata | per class: `metadata`, `dependencies`; one Memcached item per table | `getMetadata`, `getExtraFields`, `resolveDependencies`, `cacheMetadata`, `clearMetaCache` | read on the first call of each class, by every process |
| `DatabaseRecord`, events | `eventsDisabled` per instance, `events` per class | `fireEvent`, `fireFieldEvents`, `disableEvents`, `enableEvents` | `EventBus.emit`, synchronously, inside a method |
| `DatabaseRecord`, keys and SQL fragments | none | `makeCacheKey`, `buildKeyClause`, `buildKeyValuesFromInsert`, `buildInsertFragments`, `extractExtraTableData` | pure |
| `Cache` | one client | `get`, `gets`, `set`, `add`, `cas`, `del`, `flush` | the Memcached server |
| `DatabasePool` | one pool | `query`, `execute`, `fetchOne` | the MySQL server |
| `EventBus` | one emitter | `on`, `once`, `off`, `emit` | listeners |
| `Logger`, `Configuration`, `index.ts` | settings | formatting, constants, re-exports | - |

What is hard here:

* **Interleaving.** Every method is a chain of awaits. Between the SELECT of a
  load and its `add`, between the CAS of an update and its UPDATE, between
  `del` and the deletion marker, anything may happen to the item and the rows.
* **Shared instances.** `record` and `casToken` belong to the instance; nothing
  stops two methods of one instance from overlapping.
* **Partial failure.** Cache errors are swallowed (the method goes on with
  SQL), SQL errors reject - after the cache may have been changed. A request
  may have been carried out although its client reports an error.
* **Eviction.** Memcached may drop the item at any time; the CAS is then
  refused and the read-back finds nothing.
* **Derived data.** Computed columns are cached next to the columns they come
  from, and an update of a parent has to remove them, also in a CAS retry. Both
  are also properties of the instance, which adopts whole records from others.
* **Cold start.** The first calls of a class resolve its metadata together, in
  two statics per process and one shared item, each from its own copy.
* **Re-entrancy.** Listeners run inside a method and inside an emit, and may
  emit, subscribe, dispose and throw.

What makes each component correct:

* records and cache: the cached columns agree with the row once writers are
  done; a CAS loses nobody's update; computed columns never outlive their
  parents; an acknowledged write to a record that has its row is in the tables; a
  deletion marker is not overwritten by old data; every call settles;
* instances: an object shows its record, and an update leaves its own values
  there with nothing computed from those it replaced;
* metadata: each call works with the extra fields and dependencies of the schema,
  whatever first calls race, and the class lacks them only for a while;
* events: a listener that is subscribed throughout hears of each completed
  operation once per event; `once` means once; a disposer ends one subscription;
* keys: the cache key and the WHERE clause address the same row.

`PROJECT.json` lists each hazard at its line with the property that covers it,
and a note where none does or where it holds under a premise only.

## 2. Modules

```
RecordTypes          columns, payloads, rows; the pure operations on payloads
  Promises           the promise each call awaits
    Cache            Cache.ts over one Memcached item
    DatabasePool     DatabasePool.ts over the two rows of a record
      DatabaseRecord every operation on every instance, await by await
        RecordConsistency      the properties   --INSTANCE-->  CoherentCache
          MCDatabaseRecord     instances for TLC
          DerivedProofs        theorems: types, derived columns
            TokenProofs        theorems: CAS tokens, the deletion marker, what instances show
              CoherentProofs   theorems: agreement, the refinement, an update's own values
                WriterProofs   theorems: acknowledged writes, extra columns

Metadata             the metadata of one class in several processes
  MetadataProperties           the properties
    MCMetadata                 instances for TLC
    MetadataProofs             theorems

EventBus             EventBus.ts and the stack of emits and listeners
  RecordEvents       what the methods of a record fire
    EventProperties            the properties
      MCEvents                 an instance for TLC
      EventProofs              theorems

RecordKeys           cache keys, key clauses, keys of inserted rows
  KeyProperties                the properties
    KeyProofs                  theorems
    MCKeys                     instances for TLC
```

`DatabaseRecord` assumes of metadata what `ReadyMeansResolved` of `Metadata`
states, of events that some listener may throw (which `RecordEvents` has them
do), and of keys that one row has one item (`RecordKeys`). Composing the four in
one state space would only multiply states that do not meet.

**RecordTypes.** A payload is the code's `RecordPayload` reduced to what the control
can tell apart: a function from columns to values (`Absent` is a property that is
not there, `Null` is `null` and SQL NULL, `Literal` are `SqlExpression` objects),
which primary key it holds (`id`: none, the record's own, or the default of a column
of that name), and `extraTableRead`. `ApplyUpdate` is `applyUpdateToRecord` (null
removes the property, derived columns of a touched parent go), `MergeRecord` is
`mergeRecord`, `Sanitise` is `sanitiseUpdatePayload`, `DecorateRecord` makes the
payload of a selected row, `ExtraPayload` that of the extra row, `DefaultsPayload`
what `readExtraData` merges when there is none (346-348, 862): the defaults of every
column of the extra table, its key column included. Where that column bears the name
of the primary key (`SharedExtraKey`; it does when `extraPrimaryKey` is not
declared, 412), the record's key is overwritten by its default. `Assign` is what
`SET` does with values and SQL expressions. `Derived(d, col)` is the value of
computed column `d`: an arbitrary function `Computed[d]` of the parents that
`derivedFields` declares.

**Promises, Cache, DatabasePool.** `reply[c]` is the promise call `c` awaits.
A server action carries the request out and settles it; with faults enabled
it may report an error instead, before or after it did the work. `Cache` gives
every stored item a new CAS id from `casSeq`. `DatabasePool` carries out one
SQL statement at a time; a duplicate key is an error. What MySQL puts in extra
columns that an INSERT omits (`ExtraOmitted`) need not be what `getExtraFields`
reports as their default (`ExtraDefault`): line 865 makes an empty string of a
default that is NULL. A statement on the extra table names the key of the instance's
record (`OwnKey`); with another key it leaves this record's extra row alone and may
find, add or refuse whatever it likes.

**DatabaseRecord.** `inst[i]` is an instance, `call[c]` the locals of a call.
`pc` names the request a call is awaiting. A call is in turn

* `Start(c)`: the method is called and runs to its first await;
* `Serve(c)`: the server carries out the request (`CacheServe`, `DbServe`);
* `Continue(c)`: the code from the answer to the next await, one action per
  await (`Cached`, `Selected`, `Stored`, `Fresh`, `CasAnswered`, `Refreshed`,
  `Reread`, `UpdatedBase`, ...).

The synchronous code between two awaits is a composition of functions on
*frames* (`f.k` the call, `f.o` its instance) that carry the names of the methods:
`Update`, `UpdateCache`, `PerformCasUpdate`, `PersistUpdate`, `ReadExtraData`,
`Initialise`, `EnsureRecordLoaded`. So an action models a whole handler with
everything it calls.

| pc | request | code |
| --- | --- | --- |
| `cached` | `Cache.gets` | `tryLoadFromCache` 495-518 |
| `select` | SELECT of the row with its computed columns | `loadFromDatabase` 520-551 |
| `store`, `fresh` | `set` (forceRead) or `add`, then `gets` | `writeToCache` 553-578 |
| `cas`, `refresh`, `reread` | `cas`; `gets` after success; `gets` after refusal | `performCasUpdate` 602-649 |
| `updateBase`, `updateExtra`, `insertExtra` | the statements of an update or insert | `persistUpdate` 676-715, `insert` 205-261 |
| `insertBase` | INSERT | `insert` |
| `deleteBase`, `deleteExtra`, `del`, `mark` | DELETEs, `del`, `add` of the marker | `delete` 184-202, `invalidateCache` 717-733 |
| `selectExtra` | SELECT of the extra row | `readExtraData` 329-357 |

An instance has its record twice: `record`, and `view`, the columns as
properties of the object (`Object.assign(this, ...)`, 462-468), which is how
services read them. `SetRecord` assigns both; assigning leaves a property alone
that the record lacks, so the two can differ. An instance is `Keyed` if its record has
a key: it has not when `load` found no row, and `update` then made a record of its
own payload (454-460).

**Metadata.** `class[p]` holds the statics `metadata` and `dependencies` of the
class in process p, `shared` the metadata item in Memcached, `call[c].known` the
metadata object the call works with. A metadata object is the set of parts it has
(`dependencies`, `extraTableFields`); the parts themselves never differ.
`GetMetadata`, `ResolveDependencies`, `GetExtraFields` are frame functions as
above and `Got`, `Added`, `DependenciesSet`, `ColumnsShown`, `ExtraSet` the
continuations of their awaits. `load` and `insert` go on to their row (`work`,
`insertRow`, `insertExtra`, one await each). A `Restart` loses the statics and the
calls of a process. Two conventions: an await of a promise that is resolved
already (`getMetadata` with metadata at hand) is no point where others run: it
delays the call by a turn of its process's microtask queue, and the model leaves
those turns out; and the branch of `getExtraFields` for
a class without an extra table (853-856) is left out, because both callers test
for the table first.

**EventBus, RecordEvents.** `subs` is the emitter's list for each event, `stack`
the JavaScript stack: a method at the bottom with the events it has yet to fire,
emits with the listeners they have yet to call (a copy taken when the emit
began), and listeners. While a listener is on top it may do whatever a service
may: `SubscribeOn`, `SubscribeOnce`, `Dispose`, `CancelOnce`, `EmitDirectly`,
`SwitchEvents` (disable or enable the record's events), return, or throw, which
unwinds to a listener that catches it or ends the method. `removeListener` takes
the last matching entry off the list (`DropLast`). An entry of the events map
whose field is not in the update makes the method pass over `NoEvent`, the empty
name, so that what a method fires is a function of the map's entries. From its first
`fireEvent` on a method of the record runs without an await, so a method is one
stack. `Audit` is a listener that is subscribed to every event after all
others at start and never taken off; `heard`, `runs`, `open` and `muted` are
history for the properties.

**RecordKeys.** Several rows of a table, the items cached for them, and each
operation as one step (interleavings on one row are `DatabaseRecord`'s subject).
A string is a sequence of tokens; `MakeCacheKey` lower-cases and joins with dots
what `KeyClause` compares column by column, as MySQL does under a collation
that ignores case. `KeyValuesFromInsert` makes the key of an inserted row from
the data or the insertId, and throws where the code does (`Underivable`). The caller
gives each field of the key as a string, an expression or null (`Null`, which also
stands for the 0 that AUTO_INCREMENT takes for it), or omits it. Null passes
for a value (930-935): MySQL generates another where it can, and the load
that follows asks for `field = NULL`, which no row satisfies.

**CoherentCache** is the abstract specification: a row, a cached copy, and for
each column the value that is published but *due* to be written. Readers fill
an empty cache with the row, writers publish columns nobody else is
writing and then persist them. Its theorem is `CacheLeads`: the cache shows the
row, or what is due to be in it.

**RecordConsistency**, **MetadataProperties**, **EventProperties** and
**KeyProperties** state the properties; each has a comment that says what it means
for the code. The **MC** modules define the instances TLC checks: for each run of
the record protocol, a table of what every call may be (which operation,
instance, payload).

### Assumptions of the model

* `DatabaseRecord` has one row and its item; rows interact through keys only.
* Its metadata and dependencies have been resolved (no request before the first
  await named above); `Metadata` has how they are.
* Base, extra and derived columns have different names (`FieldAssumption`), and none
  that the class uses for itself (a column `record` or `casToken` would overwrite the
  field). The key columns of the two tables may share a name (`SharedExtraKey`). With
  that and overlapping methods the key a statement carries would have to be kept from
  when it was sent; the model reads it from the instance, so `SettingAssumption`
  excludes `Overlap` together with `SharedExtraKey`.
* An insert into a class with an extra table whose key column shares the name omits
  the key, as its first statement leaves out every column of the extra table (905):
  given, it is missing there, and the second statement names that column twice and is
  refused.
* The default of an extra key column with a name of its own is merged into the record
  by `readExtraData`; it is no column of the record type and is left out.
* The log transport does not throw (thrown inside a `catch`, its error would make
  a cache failure reject the method).
* A class does not inherit from another record class (statics, 810 and 976).
* The hooks `noRecord` and `foundRecord` are the subclass's; here they do nothing.
* Column values are those JSON gives back unchanged (no dates, no bigints).
* Timestamps and lifetimes are left out: the item may vanish at any step when
  `Evictions` is set.
* `SELECT`, `UPDATE`, ... are atomic and see the latest committed row.
* Statement parameters are those of the code; where `persistUpdate` combines
  the columns of an INSERT with parameters of an UPDATE whose SQL expressions
  have none (708-711), the statement is malformed and rejected (`WellFormed`).
* `affectedRows` counts the rows a statement matched, which is how mysql2 connects
  by default; so an UPDATE that changes nothing still counts as one.
* The memcached client answers `gets` with `{value, cas}`, which `Cache.gets`
  destructures (80), as the mocks of the tests do, and a refused `add` or `cas` with
  false. mysql2 answers an INSERT with an insertId (`insert` returns null without
  one, 233-235). A caller
  gets an instance only when its `load` or `insert` has resolved.

## 3. Runs

The runs of the record protocol use a base table with columns `name` and `age`,
values `x`, `y`, NULL, `label` computed from both, and, except in `coherent`, an
extra table with the column `bio`, in `writer` also `tag`.
`MaxCasAttempts` is 5 as in the code, except in `settles`.

### Runs that pass

| run | properties | instance |
| --- | --- | --- |
| `coherent` | `ColumnAgreement`, `RefinesCoherentCache`, `InstanceShowsRecord`, `ReadYourWrites` | instance i1 updates `name` twice, i2 updates `age`, i3 loads at any time; no faults |
| `contended` | `TypeOK`, `DerivedAgrees`, `CasPreserves`, `MarkerHolds` | i1 updates `name` (also to NULL, also with a SQL expression) or `bio` or reads extra data; i2, loaded with or without forceRead, updates, deletes with a marker, un-caches or reads extra data; the extra row exists; the two tables' keys share a name (`SharedExtraKey`); evictions, cache errors, lost answers |
| `writer` | `IdleExtraAgreement`, `AckMeansStored` | insert or load, then two methods over one instance with base and extra columns (also both in one update), with or without a row and an extra row; the columns an update does not name get the default that is reported for them; another instance loads |
| `settles` | `EveryCallSettles` | insert with or without an extra row; update (also of an extra column with an expression) or delete with a throwing listener; load and update of a second instance, so that both may insert the extra row; `SharedExtraKey`; every fault and eviction; two CAS attempts |
| `metadata` | `MetaTypeOK`, `ReadyMeansResolved`, `PoorOnlyWhileResolving`, `EveryCallSettles` | the first calls of a class with derived fields and an extra table: a load and an insert in process p, a load or `clearMetaCache` in q; evictions; one call's cache requests and another's statements may fail; p may restart |
| `events` | `EventTypeOK`, `OnceAtMostOnce`, `DisposersBalance`, `Delivered` | an events map with two fields that fire the same event; up to two methods (two kinds of update, one method that fires an event of its own which the class does not declare) and three uses of the bus, before, between or inside listeners |
| `keys` | `ServesItsRow`, `CachedRowsExist`, `InsertLoadsInserted` | single and composite key, values `a`, `A`, `aa`; keys given, omitted, null or an expression; three operations, expiry at any time |

* `RefinesCoherentCache` is the positive result: **one writer per column, no
  evictions, no errors, no deletion** is enough for the protocol to implement
  `CoherentCache`. `due` maps to the update of a call between its CAS taking
  effect in the server and its UPDATE being carried out. Three instances are the
  smallest setting in which a CAS is refused by one writer's success while
  a load finds any intermediate item; a second update by i1 exercises the
  token and record that the first one left behind.
* `InstanceShowsRecord` relates the two copies an instance has, `ReadYourWrites`
  the end of an update to what it was asked: the record an update ends with may
  be another writer's, read back after its CAS, and still its own values are
  there and no derived column of those it replaced is left.
* `CasPreserves` says that no CAS undoes another writer's columns, even with
  evictions, errors, delete and forceRead around it; `MarkerHolds` that only a
  forced load overwrites the deletion marker; `DerivedAgrees` that the cache never
  pairs a computed column with other parents.
* `AckMeansStored` is the acknowledgement: when `insert` resolves, or `update` over
  an instance that is `Keyed`, the row is there and the tables hold what was asked
  for, including the columns `sanitiseUpdatePayload` left out because the instance
  had them already. The premise on updates is needed. Run `writer` also starts without
  a row: then `load` finds nothing and resolves (528-531), `update` merges its payload
  into the instance, the UPDATE matches no row, nobody looks at `affectedRows` (699),
  and the update resolves with nothing stored. Line 163 ("Updates both the cache
  and the underlying tables.") makes no such exception; with the premise taken out
  TLC reports this history.
  `IdleExtraAgreement` says the same of the cached extra columns: those that
  `readExtraData` selected, or took from the defaults because there was no extra
  row, and those that updates published before their statements. It takes a second
  extra column to tell an UPDATE that found no row from the INSERT that follows it.
* `ReadyMeansResolved` is what `DatabaseRecord` relies on. `PoorOnlyWhileResolving`
  says how far a race may go: `getMetadata` and `resolveDependencies` may replace a
  complete object by a poorer one, but then the call that did so is on its way to
  SHOW COLUMNS, or its SHOW COLUMNS failed. An insert that looks just then loses
  its extra row: run `cold_insert`.
* `Delivered` counts: each event reaches a listener that is there throughout as
  often as the update has fields mapped to it, the method's own event first,
  whatever other listeners do. `OnceAtMostOnce` needs an emit inside an emit to
  be violated, `DisposersBalance` one function subscribed by two services. Premises:
  a function is subscribed with `on` or with `once`, not both, and a disposer is
  called once; Node removes by function, so without them one service
  can take away another's subscription.
* `InsertLoadsInserted`: an insert that does not reject returns the record of
  the row it wrote, or, where a field of the key was given as null, no record:
  the row is written under a generated key, and `insert` resolves to an instance
  that does not have it (935). It never returns another row's record.
* The premises of `keys` are needed, as TLC shows when they are dropped: the
  columns' collations ignore case as the key does (`IgnoresCase`), callers give a
  key's fields in one order (`AnyOrder` is FALSE), and values have no dot, which
  matters for composite keys only (`id.a.pos.b.pos.c` is spelt by two of them). Three
  operations are enough to write a row, load it under another spelling and delete
  it under a third.
* In `settles`, two CAS attempts instead of five keep the liveness graph small;
  the loop is left by success, by exhaustion, by error and by a missing entry
  with two as with five. In `metadata` two calls meet in one process because
  that is where statics are overwritten, and one in another because the item is
  shared.

**Fairness** (`FairSpec` of `DatabaseRecord` and of `Metadata`): weak fairness on
`Serve(c)` and `Continue(c)` of each call. Both clients answer or report an error
in the end, and Node's event loop runs every settled promise's continuation.
Callers owe nothing: there is no fairness on `Start`, nor on `Evict` or `Restart`.

**Deadlock** is checked in every run. `Quiet` is a stutter that is enabled only
when no call is under way and none can start (in `RecordEvents`: when the stack is
empty; in `RecordKeys`: when the bound is reached), so a call that nothing will
ever resume is reported.

### Runs that end in a counterexample

Each checks one property that a comment of the code states and that the code
does not keep in that setting.

| run | property | what happens |
| --- | --- | --- |
| `same_column` | `IdleAgreement` | u1's CAS, u2's CAS, u2's UPDATE, u1's UPDATE: the cache keeps u2's value, the row u1's, until the item expires |
| `expired_item` | `AckMeansStored` | the item is evicted, the update writes the row but not `this.record`; an update back to the old value is dropped |
| `delete_race` | `DeletedNotCached` | a load that selected before the DELETE adds the record between `del` and the marker, which is refused |
| `stale_view` | `InstanceDerivedAgrees` | a load selects the row with its `label`; another instance's CAS changes `age` and removes `label`; the load's `add` is refused and it adopts that entry, but the object keeps the selected `label` next to the new `age` |
| `cold_insert` | `InsertKeepsExtra` | a load is still in `getMetadata` while an insert in the same process resolves everything; the load's answer replaces the class's metadata by `{}`, the insert finds no extra columns (948) and resolves without writing them |

These runs say why the premises of the passing runs are there: `coherent` gives
each column one writer (`same_column`), `writer` has no evictions
(`expired_item`), and so on; they are premises of the theorems too (section 4).
Behaviours of the same kinds, which the model has and which the premises of the
passing runs exclude:

* a load with forceRead, or one whose entry was evicted, stores the row it selected
  before an update (559, 561): `coherent` has no forced loads and no evictions;
* methods that overlap on one instance: a CAS retry stores the record it read
  back but not its token (640), and the next update may send an older record with a
  token another method adopted: callers await each method (`Overlap` is FALSE).
  `CasPreserves` and the refinement need this premise, as TLC shows when it is
  dropped; `DerivedAgrees`, `MarkerHolds` and `InstanceShowsRecord` are proved
  without it;
* an UPDATE that fails leaves the published value in the cache, and the same
  update tried again finds nothing that differs from the record (762): `writer`
  has no database errors;
* there is no extra row, so `readExtraData` reports the default of each column, as
  an empty string for one that has none (865), and caches it; an update of another
  extra column inserts the row, where this one becomes NULL; the cache goes on
  showing the empty string, and an update to it is taken for no change. In `writer`
  `ExtraOmitted` is `ExtraDefault`; with NULL for it in that configuration TLC finds
  `IdleExtraAgreement` violated;
* the key column of the extra table bears the name of the primary key: where there is
  no extra row, `readExtraData` overwrites the key in the record by that column's default
  (346-348, 862), and the next update of an extra column writes under another key
  and resolves (702-712). `contended` and `settles` have this; in `writer`
  `SharedExtraKey` is FALSE, and with TRUE TLC finds `AckMeansStored` violated;
* an update of a record that load did not find (above, `AckMeansStored`);
* an update through an instance whose record predates another instance's update takes
  the old value for no change (762): `writer` has one writing instance;
* `readExtraData` puts an extra row back that another instance has meanwhile
  changed (344): `writer` has one writing instance;
* a SQL expression is cached as its `{sql, params}` object (662);
* a listener of the delete event that throws makes `delete` reject (199) before it
  invalidates the cache.

### Mutants

Each property of a passing run is broken by a fault in the model of the code. In
the record protocol: the retry that keeps its old record (`RetryFromOld`), a token
that is not adopted (`AdoptRecordOnly`), properties of the object that are not
assigned (`SetRecordOnly`) or not cleared (`ClearNothing`), derived columns that are
kept (`ApplyUpdateKeepingDerived`), the marker taken for a record
(`UsableOrDeleted`), null taken for undefined (`SanitiseDroppingNull`), the second
statement forgotten (`UpdatedBaseOnly`), SET of every column (`AssignAll`), a retry
of a missing entry (`RereadForever`). In the metadata: parts assigned to an object
that may be null (`FetchedInto`), the class asked instead of the object at hand
(`GetExtraFieldsOfClass`), the class left without what was resolved
(`ExtendInstance`), a cache error retried for ever (`GotOrRetry`). In the events: a
`once` that subscribes for good (`OnceAsOn`), a disposer that
removes every subscription of the function (`OffEvery`), null taken for absent
(`FieldEventsOfValues`), names of fields fired for events (`FieldNames`). In the
keys: values without their fields (`MakeCacheKeyOfValues`), case kept
(`MakeCacheKeyAsGiven`), a given key taken for generated (`KeyValuesFromInsertId`).

## 4. Proofs

`DerivedProofs` proves, for all columns, parents, computed functions, values, calls,
instances, tasks and settings (overlapping methods, evictions, cache and database
errors included):

* `TypeCorrect`: `Spec => []TypeOK`
* `CacheWellDerived`: `Spec => []DerivedAgrees`

Both follow from `DerivedInvariance`: `Spec => []DerivedInv`. `DerivedAgrees` alone is
not inductive: the next CAS or `add` stores a value that was computed some awaits
ago from a record an instance adopted some calls ago. `DerivedInv` therefore says of
everything on its way to the item that it is well derived: the value a call is
about to store or CAS, each reply that carries a record, and the record of an
instance **while it has a token**. The last condition is necessary: without a token
`mergeRecord` leaves derived columns as they are, so the record of such an instance may
be ill-derived - which is harmless for the cache because `updateCache` issues a CAS
only with a token. Two side facts complete it: updates contain no derived
columns (the tables have no such column to assign to, `TaskAssumption`), and what
`selectExtra` returns touches only extra columns, so that merging it into a record
with a token keeps the record well derived.

The proof follows the model's structure: lemmas about the operators on payloads
(`ApplyUpdate` and `DecorateRecord` produce well-derived payloads), lemmas that each
frame function maps sound frames to sound frames, one lemma for `Resume`, one for
`Settle`, one per action, and the temporal step. It rests on
`FieldAssumption`, `CellAssumption`, `ComputedAssumption`, `TaskAssumption`,
`BoundAssumption`, `SettingAssumption` and the two fault assumptions, all of which
TLC evaluates on every run.

`MetadataProofs` proves, for all processes, calls, tasks, settings and faults, with
evictions and restarts:

* `MetaTypeCorrect`: `Spec => []MetaTypeOK`
* `ReadyResolved`: `Spec => []ReadyMeansResolved`
* `PoorResolved`: `Spec => []PoorOnlyWhileResolving`

All three follow from `MetaInvariant`: `Spec => []MetaInv`. `MetaInv` says at which
awaits a call's frame has which parts (`FrameSound`: from `setExtra` on it has the
columns; past `ResolveDependencies` its class has the dependencies, which only a
restart takes away, with all its calls), that a statement fails only where it may
(`ReplySound`), and that for each poor class some call **owes** the columns. The
argument for the last is one lemma per frame function: a step that leaves the class
poor either owes, because the object it put there is its own and so makes it ask for
the columns (`Takes`), or left the class's metadata alone and did not owe before
(`Covers`), so that the call that owed is another and still does. It rests on
`MetadataAssumption`.

`TokenProofs` builds on `DerivedInv` and proves `TokenInvariance`:
`Spec => []TokenInv`, from which follow

* `MarkerStays`: `Spec => MarkerHolds`, with no premise;
* `CasLosesNothing`: `Spec => CasPreserves`, assuming `~Overlap`.

`TokenInv` is about the tokens that instances, frames and replies hold. Each
*fits*: it is one the server gave out, and not that of a deletion marker, so that
a CAS cannot replace one. A token is *stale* if it is not that of the item there
is; it stays so, because CAS ids grow. With one method at a time on each instance
(`Serial`), an instance with a token that is not stale holds the cached record but
for extra columns it has read, and the candidate of a CAS that can still succeed
agrees with the item outside what its update affects.

It also proves `InstanceShows`: `Spec => []InstanceShowsRecord`, assuming
`Lasting`: no evictions, no cache faults, no `delete` or `unCache`. Methods may
overlap and statements may fail. `ViewInv` says where the two copies may differ:
only from an update's CAS to its read-back, where the instance has been cleared of
what the update makes stale and its record has not. The premise is needed: where
the read-back finds nothing, the record stays as it was.

`CoherentProofs` proves, assuming `Orderly` (`Lasting`, no overlap, no database
faults, a row that exists, only loads without forceRead, updates without SQL
expressions on base columns, and reads of the extra row; and the updates of a base
column go through one instance):

* `ColumnsAgree`: `Spec /\ []Patient => []ColumnAgreement`
* `CacheCoherent`: `Spec /\ []Patient => RefinesCoherentCache`
* `AttemptsSuffice`: `Spec => []Patient`, assuming also `Few`
* `FewWritersAgree`: `Spec => []ColumnAgreement /\ RefinesCoherentCache`, assuming
  `Orderly` and `Few`

for any columns, instances and calls, where run `coherent` has three instances
(the run's constants satisfy `Orderly` and `Few`). `Patient` says that no call has
the last of its `MaxCasAttempts` CAS requests refused. It cannot be left out: a call
that gives up writes the row only (608-649), and then the cache does lag behind.
`Few` - at most `MaxCasAttempts` calls may publish - implies it: a token read in the
n-th attempt is at least n, CAS ids count the successes so far plus one for the
`add`, and each call succeeds once (`CountInv`).
`OrderlyInv` says that the cached columns are ahead of the row by what is due
(`Lead`), that a record on its way into an empty cache is the row, and which
answers a call may be waiting for. `CoherentStep` then maps each step: `Serve` of
the `add` of a load to `Fill`, of a CAS to `Publish` of the update's base columns,
of an UPDATE to `Persist` of them, everything else to a stutter.
`CacheLeads`, in `CoherentCache`, is what the abstract specification gives in turn:
`CSpec => []Leads`.

On top of `OrderlyInv` it proves, assuming `Owned` (`Orderly`, and what is updated
through one instance is neither updated nor, in the extra table, read through
another; the constants of `coherent` satisfy it):

* `ReadsOwnWrites`: `Spec /\ []Patient => ReadYourWrites`
* `FewWritersReadBack`: `Spec => ReadYourWrites`, assuming also `Few`

The record an update ends with is what it reads back after its CAS, and that may be
a later one. `OwnInv` says why it still has the update's values: a record that an
instance has with a token, or that is on its way to it, agrees with the item in the
instance's *own* columns (`Tracks`: but for those its call is about to publish),
and a candidate whose CAS can still succeed agrees with it in everybody else's
(`Foreign`). From its CAS on, the object has been cleared of what
the update makes stale (`FrameOwn`), so adopting a record that lacks a derived column
leaves none behind. Where another instance may publish the same column, the value
read back may be that other's; where the attempts run out, the object keeps the old
one: so both premises are needed.

`WriterProofs` proves, assuming `Sole`:

* `AcknowledgedStored`: `Spec => AckMeansStored`
* `ExtraColumnsAgree`: `Spec => []IdleExtraAgreement`

both from `SoleInvariance`: `Spec => []SoleInv`. `Sole` is the setting of run `writer`
for any number of columns, calls and instances: `Lasting`, no overlap, no database
faults, `ExtraOmitted = ExtraDefault`, `~SharedExtraKey`, no SQL expressions on extra
columns, and at most one instance through which more is done than plain loads -
insert, forced loads, any updates, reads of the extra row. The row and the extra row
may exist or not; of updates where the row does not, `AckMeansStored` says nothing
(its premise `Keyed`), and what that premise is worth is `KeyInvariance`: under
`Lasting` and `~SharedExtraKey`, `Spec => []KeyInv`, where `KeyInv` says that a record
with a key, held, cached, or on its way, has that of its row, and the row is there.
Neither property is inductive: that an update may drop a column because the
record has it already is right only if what the instance holds is what the tables
have. `SoleInv` therefore says

* of the item (`ItemSole`): each of its columns is that of the tables or is *owed*
  to them by an update between its CAS taking effect and the statement for that
  column's table (`Owed`; a missing extra row is owed through the failed UPDATE up
  to the INSERT);
* of the writing instance (`InstanceSole`): between its methods it holds exactly
  the cached record and its token, so the CAS it sends is never refused
  (`FrameSole` has no call at `reread`);
* of a call under way (`CallSole`): the values that were dropped are in the table, a
  candidate is the item with the update on top, a record selected for an empty
  cache is the row, an INSERT of the extra row meets none.

TLC checked `SoleInv`, and that its constants satisfy `Sole`, on run `writer` first.
The premises are those that `expired_item` and the list in section 3 show to be
needed; two writers can be at the same extra row, one of
which reads it before the other's update (344).

`EventProofs` proves, for all events, listeners, methods and maps of events:

* `EventTypes`: `Spec => []EventTypeOK`
* `OnceIsOnce`: `Spec => []OnceAtMostOnce`
* `DisposersEndTheirOwn`: `Spec => []DisposersBalance`
* `MethodsAreHeard`: `Spec => Delivered`

All rest on `BaseInvariance`: types, the shape of the stack (a method or an emit at
the bottom, then listeners and emits in turn), and that the id of a subscription,
on a list or still to be called by an emit under way, determines it and is for
`once` exactly if its function is (`KnownInv`). `OnceInv` adds that a subscription
that was called is in `fired`, where the emits that still have it will skip it;
`BalanceInv` counts entries and open subscriptions per function. `HeardInv` is the
one for `Delivered`: `Audit` is on each list once, the events the method has yet to
fire are the last of those it fires, and for each event the calls that `Audit`
heard plus the one that the emit under way still owes are as many as the method
has fired so far. It was checked by TLC on run `events` first, as were the other
inductive invariants on the runs of their properties. That the greatest matching
entry exists and that counting one entry less is one less is proved from the
library's theorems on finite sets and well-founded induction (`WFMin`), whose
first-order form the provers can use. These proofs rest on `EventAssumption`.

`KeyProofs` proves, for all primary keys, values and collations:

* `KeyTypeInvariance`: `primaryKey` is one the class may declare, and each row has
  a value for each of its fields
* `RowsOfTheCache`: `Spec => []CachedRowsExist`, assuming `~AnyOrder`
* `ServesTheRowAsked`: `Spec => []ServesItsRow`, assuming `~AnyOrder`,
  `IgnoresCase` and `Plain`: keys have a single field, or values have no dots
* `LoadsWhatItInserted`: `Spec => []InsertLoadsInserted`, for every way of giving the
  key, null included (for which it says that no record is returned)

The core is `KeysTell`: two rows have one cache key only if their key values are the
same but for case; `KeysAgree` is the converse. `FlattenSeq`, with which the
fragments are joined, is defined by recursion. What it returns is reached without
an induction theorem: a smallest place at which the joined prefixes of two keys
differ exists (`LeastNumber`, from `WFMin`), and there the shorter fragment ends with
a dot where the longer one, having a value without dots, goes on with something
else (`NoLonger`, `SameParts`). The inductive invariant `Filed` says that the record
under a key is that of a row, and that the key is the one made of that row:
`CachedRowsExist` alone is not inductive, as `delete` removes one entry and any number
of rows the clause selects, so the rows must be known to share the key. These
proofs rest on `KeyAssumption`.

Each invariant, action property and refinement that a passing run checks is now the
statement of a theorem. Only model-checked is liveness: `EveryCallSettles`, of the
record protocol and of the metadata, rests on fairness and so on ENABLED, about which
the prover does not reason. Two more limits shaped the proofs: induction over data
is out of reach of the installed provers, so recursive library operators
(`FlattenSeq`) are reasoned about through least elements as above; and the results on
coherence, own writes and acknowledgement carry the premises named, because the
code does not have these properties without them.

## 5. What is not modelled

* `Logger`, `Configuration`, `index.ts`: no state the rest depends on, except
  whether a cache is configured (`CacheEnabled`);
* the lazily created pool, client and bus, the pool's queue and connection limit
  (mysql2's), `fetchOne` (unused by the library);
* wall-clock time: expirations, `cacheAge`, the 30 days of line 130;
* the text of SQL statements, `validateKeyValues`, defaults that differ from one
  extra column to another (862-869: all have one `ExtraDefault` and one
  `ExtraOmitted`), `setFieldValues` (declared and unused);
* the conversion of values by JSON: a Date column comes back from the cache as a
  string, and a bigint makes `set` and `add` fail (which is caught and logged);
* the subclass's hooks.
