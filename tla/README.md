# Formal verification of myrest

This directory holds TLA+ specifications of myrest, the configurations with which TLC checks
them on small instances, and theorems that TLAPS proves for every value of the constants.
Paths are relative to the root of the repository; `internal/` is the Go source.

Run everything from this directory:

    tlc -workers 2 -config MCRequestPool_safety.cfg MCRequestPool
    tlapm RequestPoolProofs.tla

## 1. The system

myrest serves a REST interface to MySQL 8. One process reads the catalog of MySQL into a
schema cache, listens for HTTP, and turns each request into SQL that it runs on a pooled
connection of one *authenticator* account after `SET ROLE` to the role of the caller.

| Component | State it keeps | Operations | Talks to |
| --- | --- | --- | --- |
| Connection pool and request units (`mysqldb/pool.go`, `tx.go`, `prerequest.go`) | the idle connections of `database/sql`, the session of each (roles, transaction), the `sql.Tx` of a unit | take a connection, `SET ROLE`, `BEGIN`, hook, work, `COMMIT`/`ROLLBACK`, `SET ROLE NONE`, release | MySQL, the context of the HTTP request |
| End of a unit (`config/txend.go`) | none | `DecideTxEnd` | called for the transaction and again for the header |
| Schema cache and start-up (`cmd/myrest/main.go`, `schemacache`, `mysqldb/catalog.go`) | the snapshot under a lock, the signal channel | read the catalog, build, replace, reload on SIGUSR1 | every request, through `httpapi/admission.go` |
| JWT verification (`jwt/token.go`) | the cache of verified tokens: a map and an order list under a lock | `Role`: get, verify, put, check the claims | the clock, every handler goroutine |
| RPC (`rpcexec`, `mysqldb/call.go`, `httpapi/rpc.go`) | one unit per call | check, call, read result sets or OUT variables, validate, end, shape, embed | pool, schema cache, representation |
| Writes (`writeexec`, `mysqldb/write.go`, `httpapi/write.go`) | one unit per request, the rows and locks in MySQL | insert, patch, delete, upsert, read back, answer | pool, schema cache, representation, embedding |
| Ordinary reads and pages (`mysqldb/read.go`, `readquery/range.go`, `httpapi/read.go`) | none: each statement sees what is committed when it runs | parse the window, count, select, page, Content-Range | pool without a transaction, embedding |
| Embedding (`httpapi/embed.go`, `schemacache/relationship.go`) | none | resolve a relationship, propose hints, read children by key, nest | reads, writes, RPC; the snapshot of the request |
| Privileges and admission (`schemacache/cache.go`, `httpapi/admission.go`, `options.go`, `openapi.go`) | the privilege maps of the snapshot | walk the role grants, admit a method, list the methods | schema cache, every handler |
| Prefer (`prefer/prefer.go`) | none: parsed once for a request | last value of a name, strict refusal by surface | every handler |
| Parsing, SQL text, media types, CORS, configuration | none | pure functions of a request, or read once at start | all of the above |

### What is hard

* **Interleaving.** Handlers share connections; `database/sql` runs a goroutine of its own
  that rolls a transaction back when the client leaves, at the same time as the handler's
  deferred `Rollback` and clean-up. Verifiers share the token cache and work outside its
  lock. Write units interleave their statements at READ COMMITTED. A reload replaces the
  cache beside requests that plan from it.
* **Failure of one step of several.** `SET ROLE` half way, a statement of a unit, `COMMIT`
  whose reply is lost, `SET ROLE NONE`, a routine that fails after a result set, a catalog
  read that fails, an embed that fails after the commit.
* **Ordering.** A refusal must come before the end of the unit. A signal may come before the
  process asks for it, during a reload, or behind another one. Each handler runs its checks
  in an order of its own: PUT refuses a bad preference before it asks who calls, the other
  writes after.
* **Stale state.** A reused session, a cached token that expires, a snapshot that is
  replaced between two looks, rows read before the statement that changes them. A client
  acts on what it was told (`Allow`, the OpenAPI document, a proposed hint) while the cache
  is reloaded.
* **Limits.** The pool's idle connections, the token cache, the signal channel of one,
  max-affected, the last row of a word of 64 bits.
* **Two ways to say one thing.** A filter runs in MySQL for a table and in Go for a
  routine's rows; a relationship is looked up by the database's keys and by rows in memory;
  a right is decided by the cache's closure and by MySQL's own.

`PROJECT.json` lists each of these as a hazard at its line, with the property that covers it
or the reason why none does yet.

### What makes each component correct

* pool: a connection that waits has no power; a statement runs with the caller's roles and
  no others; a unit is all or nothing and its answer is true; every request is answered and
  every transaction ends.
* reload: the cache never goes back; a request sees one schema; a signal is not lost.
* tokens: the bound holds; the cache changes no verdict.
* RPC: a refusal keeps nothing; the end a success announces is the real one.
* writes: `POST` returns what it wrote; max-affected bounds what a unit changes; `PUT` tells
  an insert from an update; a refusal comes before the end.
* reads: the statements together give what one query would; 206 and Content-Range are true;
  no row is nested below one it was never related to.
* privileges: the closure is the smallest, whatever cycles the grants form; the cache lacks
  no grant on a Resource and holds no right MySQL gives on no column.
* the front: what runs is granted and asked for; what is advertised is served; a hint that
  is proposed works.

## 2. The modules

`PROJECT.json` maps each definition to the lines it translates. In every module the Go
runtime, `database/sql`, the driver and MySQL are external: they are modelled from how the
code uses them. An operator named `Bug...` is a faulty variant of the definition below it.
No specification uses one; replacing the definition by it must make TLC report a property,
which shows that the property says something about that code.

| Module | What it models |
| --- | --- |
| `TxEnd` | `DecideTxEnd`: what `db-tx-end` and `Prefer: tx=` decide. Used by the three modules with a transaction. |
| `RequestUnit` | Abstract: what one write or RPC unit promises its client, without connections. |
| `RequestPool` | `onConnection`, `onRequest`, `withRequestTx`, `clearRolesOrDrop`; the watcher; leaving clients and dying sessions. Implements `RequestUnit`. |
| `RequestPoolProofs` | Its safety theorems, and the proof that it implements `RequestUnit`. |
| `SchemaReload` | `main`, `reloadOnSignal`, `Reloader.Reload`, `Cache.Replace`, `readCatalog`, and the admission of requests. |
| `SchemaReloadProofs` | Its theorems. |
| `TokenCache` | `Verifier.Role` and `tokenCache`. |
| `TokenCacheProofs` | Its theorems. |
| `RpcCall` | One call, from `rpcexec.Service.Execute` to the answer of `invokeRoutine`. |
| `RpcCallProofs` | Its theorems. |
| `WriteUnit` | The statements of `POST`, `PATCH`, `DELETE` and `PUT` on one table, by several units. |
| `WriteUnitProofs` | Its theorems. |
| `RangeWindow` | `ApplyRange`, `limitEnd`, `EffectiveLimit`, LIMIT and OFFSET, Content-Range and the status, in words that wrap. Operators only. |
| `RowFilter` | Filters and logical groups twice: the WHERE clause in three-valued logic, and `matchFilter` and `matchGroup` in memory. Operators only. |
| `TableRead` | One read of a table or a row set with an embed, beside other writers. EXTENDS the two above. |
| `TableReadProofs` | Its theorems. |
| `Privileges` | `buildSnapshot`: the walks over the role grants, and the snapshot that takes the place of the one before. |
| `PrivilegesProofs` | Its theorems. |
| `Preferences` | `prefer.Parse`, `Invalid`, `Refusal`. Operators only. |
| `Relationships` | `ResolveEmbedIn`, `planEmbeds`, `optionHint`, `rowSetOrigin`. Operators only. |
| `Front` | What each handler checks, in its order, before its statements run, beside reloads. EXTENDS `Privileges`, `Preferences` and `Relationships`. |
| `FrontProofs` | Its theorems, and what they need of the header and of relationships. EXTENDS `PrivilegesProofs`. |
| `MC...` | The instances for TLC. |

**RequestPool.** `pc[r]` is the statement the handler runs next, so each Go statement that
reaches MySQL or `database/sql` is an action with its error path beside it (`SwitchRole` and
`SwitchRoleFails`, `CommitLands`, `CommitReplyLost` and `CommitFails`). `tx[r]` is the
`sql.Tx`: who moves it from `"open"` talks to MySQL, the other gets `ErrTxDone`, exactly the
race of `tx.done` in `database/sql`. `effect[r]` is a history of what has become of the
data. A failed `SET ROLE` goes straight to `close`: the early return comes before the
deferred clean-up (pool.go 130). A dead session (`SessionDies`) stands for a dropped
connection, a `KILL`, and a driver that closes its socket because the context is done.

**SchemaReload.** A catalog is a version number, and a catalog read is one version for each
of its statements, because `readCatalog` runs them one after another in no transaction.
`queue` is the channel with a buffer of one; `heard`, `due`, `taken` and `excused` are
history variables that say which signals a reload owes an answer to.

**TokenCache.** A token is what the verifier can learn of it. Each use of the lock is one
step; the signature is verified and the clock is read outside it, so two workers may miss,
verify and put in the same token. The clock may also go back.

**RpcCall.** A routine is a sequence of statements that write, send a result set, raise, or
lose a deadlock, after which MySQL has rolled the unit back. Rows are their number, which is
all that the representation checks. `AnnouncedKept` is what a client takes from a success:
`Preference-Applied`, or in its absence `db-tx-end`.

**WriteUnit.** `row` is the committed table, `draft[u]` what unit u has written and not
committed; a row that is not `Untouched` in a draft is locked, and other units wait for it.
A plain `SELECT` (`ReadDelete`, `SelectKeys`, `Reread`) sees the committed rows and the
unit's own, which is READ COMMITTED. An `INSERT` reserves its generated keys at once
(`StartInsert`) and places its rows one by one (`PlaceRow`). A statement that cannot go on
waits, or fails (`Fails`): lock wait, deadlock, duplicate key and lost connection are all
that one action. The beginning and the end of the transaction are those of `RequestPool`.

**TableRead.** `pc` is the next statement of `readWithEmbeds`: `Count`, `SelectRows` (or
`ShapeRows`, for rows a routine gave), `ReadLinks`, `ReadRelated`, `ReadAggregate`. Each sees
the tables as they are then, and `Write` changes one row between any two of them, within the
foreign keys. A row is its key and one nullable reference; the embed goes through one of
three relations (to one, to many, many to many). `OriginKey` and `TargetKey` are what
`rowKey` finds in a row, so a key column the select renames is `Null` there. `was` is a
history: the pairs that were related at some time of the request. `nestToOne` keeps the last
of the rows with one key, in an order nobody fixes: any of them.

**Privileges.** One walk goes from one role along the grants, in any order: `waiting` are
the calls not made yet, `walked` the `seen` map. The code walks depth first, which is one of
these orders. Table privileges and EXECUTE are walked by two functions of one shape, so they
are one set of rights here. An account is name@host, a role of the cache only the name.

MySQL grants at several levels, and a catalog here has three sets of them: `object` (on a
table or routine), `column` (on some columns of a table) and `wide` (on a database or on
everything). The catalog read takes the first two and forgets the difference (`Facts`), and
never looks at the third. What MySQL itself decides is stated from all three, beside the
cache: `InPart` is what an account may do with a routine or with some column of a table at
least, `OnResource` what grants on the Resource or its columns give it, each through every set
of accounts closed under grants. The cache is held between the two.

**Front.** `OrderOf(req)` is the sequence of checks of the handler that serves the request,
read off its calls, and `stage` is the check it is at: each check is an action that passes
or refuses. What a check finds in text (a bad body, a profile out of `db-schemas`, a media
type nobody claims) is a choice. `Admit` reads the snapshot into `using`; every later check
uses that one, beside reloads. `advice` is what the answer told the client; `UseMethod` and
`UseHint` are the client's next request, so that a property can compare what was said with
what then happens. For a routine the embeds are planned after it has run (`PlanRows`). The last
step of a read (`Finish`) reads the embeds: a join table only where the plan has noted that
the role may. `Needed` is what MySQL asks for the statements themselves, and not what
admission asks: UPDATE for whatever merges, SELECT for what is filtered, read back, embedded
or joined. `LeftToMySQL` names the two of these that no check asks of the snapshot.

### How they compose

`RequestPool` is the ground: a unit of `WriteUnit` and a call of `RpcCall` is one `"unit"`
request of it, whose "work" they open up. They rely on what `UnitsAreAtomic` shows, and
replace the pool by its promise: a unit ends as `DecideCommit` says, or is rolled back.
`RequestUnit` states that promise, and `Unit == INSTANCE RequestUnit WITH ...` in
`RequestPool` is the refinement mapping. `SchemaReload` gives each request its one snapshot;
the other modules take the facts of that snapshot (a key, the routine) as constants.
`Privileges` opens up the "build" step of `SchemaReload`. `Front` is built on `Privileges`
(the snapshot a request is admitted from is the one the walks have built), `Relationships`
(the plan) and `Preferences` (the header); its last check, `run`, is where `WriteUnit`,
`RpcCall` and `TableRead` begin. `TableRead` reads what `Front` has planned.

## 3. The runs

| Run | Instance | Shows |
| --- | --- | --- |
| `pool_safety` | 3 requests (catalog read, read, unit, in any mix), 2 connections, 1 idle place | `TypeOK`, `IdlePowerless`, `OwnRoleOnly`, `SettledWhenAnswered` |
| `pool_live` | 2 units with a hook, one that commits and one that rolls back, 2 connections, fair | `EveryRequestAnswered`, `TransactionsEnd`, `UnitsAreAtomic`: refinement of `RequestUnit` |
| `reload` | 1 request, 2 statements per catalog read, 3 DDL statements, 3 signals, fair | `TypeOK`, `OneFreshSchema`, `NeverOlder`, `SignalHonoured` |
| `reload_torn` | 2 statements, 1 DDL statement; violation expected | `OnePicture` |
| `token_cache` | 2 workers, 6 kinds of token, cache of 2, clock 0..3, skew 1 | `TypeOK`, `CacheBounded`, `CacheTransparent` |
| `rpc_call` | every routine of up to 3 statements, every request, every `db-tx-end` | `TypeOK`, `NoLateRefusal`, `EndAsAnnounced` |
| `rpc_raise` | violation expected | `FailedRoutineRollsBack` |
| `write_units` | 2 units out of 20 requests, 4 keys, 2 values, every initial table | `TypeOK`, `InsertsReturned`, `PutTellsInserted`, `NeverOverMax`, `RefusedBeforeEnd` |
| `write_body` | 2 PATCH requests, 2 keys; violation expected | `RepresentationIsAffected` |
| `table_read` | 3 and 2 rows, words of 3 bits, 1 write; pages, filters and embeds | `TypeOK`, `WindowIsIntersection`, `QuietReadIsJoin`, `RowSetReadsLikeTable`, `StatusTellsWhole`, `ChildrenWereRelated` |
| `read_invents` | a select with an alias; no write; violation expected | `NeverInvents` |
| `front` | 4 catalogs, up to 2 requests of a client and 2 loads, fair | `BuildTypeOK`, `ClosureIsLeast`, `SnapshotAgreesWithMySQL`, `WalksEnd`; `FrontTypeOK`, `GrantsDecide`, `AllowIsHonest`, `ProposedHintsResolve`, `RanAsAsked`, `OverriddenTokensAreInert`, `EveryAskIsAnswered` |

### Bounds, and why they are enough

* *pool*: two connections with one idle place give every case of the release (kept, dropped
  because full, dropped because bad or dead), and a third request makes two of them wait for
  one another. Connections and requests are symmetric, and only safety runs use symmetry.
  The theorems remove the bounds. `pool_live` has units only, since only a unit can hold a
  transaction or keep a promise; a read takes the steps of a unit without the transaction.
* *reload*: `MaxSchema` bounds the DDL, `MaxSignals` the signals. Three signals are one that
  is being served, one that waits in the channel and one that the full channel drops. Two
  statements are the fewest that can be torn. Requests only read the cache and never meet,
  so one worker stands for all; the theorems have any number.
* *token*: a cache of two with four tokens that can enter it evicts and lists; two workers
  are the fewest that race in `Put`. `MaxTime` bounds the clock: with a skew of 1 it passes
  both sides of each claim.
* *RPC*: three statements hold each pattern of write, result set and error around one
  another; counts 0, 1 and 2 around `db-max-rows` 1 are the cases that the singular object
  and the cap tell apart.
* *writes*: four keys leave room for three generated keys and a row of another unit between
  them. The key bound is in the guard of `StartInsert`. The requests are listed in
  `MCWriteUnit`: mixed, generated, explicit, repeated and zero keys with each resolution;
  patches with and without a key; limits below, at and above the rows that match.
* *reads*: `Top = 7`, a word of three bits, stands for 2^64 - 1: the requests have bounds at
  0, 1, in the middle and at the last word, where the arithmetic wraps. Three origin rows
  are a page, a row before it and one after; two target rows are the fewest that can be
  nested wrongly. `MaxWrites = 1`: one write falls between any two statements, and a second
  adds no pair the first could not; the theorem has any number. The filters are every
  operator over two values and NULL, alone and in groups of groups.
* *front*: `MaxLoads = 2` is the start-up and one reload, and a case's own `loads` (at most
  `MaxLoads`) keeps the reload to the requests it can disturb: one refused, one planned, one
  told a hint, one told a method. A client sends up to two requests, the second on the
  advice of the first; the choices that text makes (body, media type, profile) refuse only
  the first, and the second has a query with a filter. The catalogs hold a cycle of roles, two
  accounts of one name, grants on a table, on some of its columns and on the database, views
  that can and cannot be written, two ways between two tables, a key to the table itself, and
  a join table that one of two roles may read (`ReadingsAssumption`: the two readings of
  MySQL's grants differ). `RowColumns` are the columns a routine may give.

`CHECK_DEADLOCK` is switched off in `front` only, where a client stops after its requests
and nothing else need happen; `EveryAskIsAnswered` and `WalksEnd` say there that nothing is
stuck. Elsewhere a model that has finished stutters in an action of its own (`Quiet`,
`Exited`, `Finished`, `Done`) whose guard says that everybody is done, so a unit or a request
that were stuck would be a deadlock. In `WriteUnit` two units that wait for each other's rows
are not stuck, because `Fails` is always possible: InnoDB finds the deadlock or the wait
times out.

### Fairness

* `RequestPool!FairSpec`: weak fairness of `Handler(r)` and of `Watcher(r)`, for each
  request. Both are goroutines which the Go scheduler runs, and each statement returns with
  a reply or an error, since the driver's socket fails or is closed when the context ends.
  Nothing is assumed of clients, of the network or of which outcome MySQL gives. Fairness is
  of the whole handler, never of its success branch.
* `SchemaReload!FairSpec`: weak fairness of `Main` and of the reload goroutine with the
  statement it waits for. `Exit` is not fair (the process need not die), nor are the
  operator, the signals and the clients.
* `Front!Spec`: weak fairness of the walks that build a snapshot and of `Handle`, the
  goroutine of the request. Neither the client nor a reload (`Load`, which SIGUSR1 asks for)
  owes anything.

### What disagrees

Four runs end in a counterexample because the code does something else than a document or
comment says. `PROJECT.json` quotes the sentences.

1. `rpc_raise`: `callProcedure` drains the result sets after the first and never asks
   `result.Err()`. A procedure that writes, sends a result set and then fails is committed
   and answered 200.
2. `reload_torn`: DDL between two statements of one catalog read leaves a snapshot whose
   parts never were true together.
3. `write_body`: a `PATCH` lists the keys that match, then updates what matches. A row that
   comes to match in between is changed, and the representation does not hold it. `DELETE`
   has the same gap.
4. `read_invents`: a select that renames the key column of an embed
   (`authors(i:id,name)`) leaves the rows without a column of that name. All rows then share
   the empty key, so a parent whose reference is NULL gets a row it was never related to,
   and the others get none.

Other disagreements met on the way have no run of their own. Those that a property names as
an exception are marked (\*).

* (\*) The embeds of an RPC row set are planned and read after the unit has committed: the
  client is told of a failure and the writes stay, where docs/transactions.md 21 has a
  failing RPC roll back. `NoLateRefusal` excepts the calls with embeds.
* (\*) A SIGUSR1 between the log line "listening" and `signal.Notify`, which runs in a
  goroutine, reloads nothing and is not reported. `SignalHonoured` speaks of the signals the
  process has asked for.
* (\*) `Range: 0-18446744073709551615` is every row, but their number is no word: the limit
  wraps to 0 and the answer is empty. `WholeRange` names it.
* (\*) A filter on a row set is two-valued: `not.eq` keeps a NULL that the same filter on a
  table drops, although docs/rpc-row-set.md 34 promises the table's filters.
  `RowSetReadsLikeTable` excepts NULL, and only that: `NullFreeFiltersAgree` is proved.
* (\*) For a join table from a table to itself, `joinTableFKs` takes the last foreign key
  for both ends, and the hint that PGRST201 proposes does not resolve; nor does one for the
  way down a self-referential key of several columns (`Unproposable`).
* (\*) The loop of the first finding also hides a deadlock that is lost after the first result
  set: InnoDB has rolled everything back, the COMMIT succeeds on nothing, and the client gets
  its rows with `Preference-Applied: tx=commit`, where docs/transactions.md 31 and 36 promise
  a commit. `EndAsAnnounced` excepts this case (`LostDeadlock`) and only it: a routine that
  raises any other error after its first result set is kept as announced.
* (\*) Accounts that differ in the host are one role of the cache (`OneHost`).
* (\*) The grants on a database (`GRANT ... ON shop.*`) and on everything are never read
  (mysqldb/catalog.go 83), so a role that MySQL lets in by one of them is told 404, although
  docs/adr/0011 wants the cache in step with what MySQL permits. `SnapshotAgreesWithMySQL`
  and `GrantsDecide` promise only what grants on the Resource or its columns give
  (`OnResource`).
* (\*) A grant on some columns becomes one on the table (catalog.go 81), as
  docs/schema-cache.md 9 says; MySQL refuses the other columns with 1143. For what may be
  granted too much, the same two properties ask for a right on some column (`InPart`).
* (\*) A `POST` with `resolution=merge-duplicates` is admitted on INSERT (httpapi/write.go
  38) although it runs `ON DUPLICATE KEY UPDATE`, where a merging `PUT` asks for UPDATE too;
  and a `PATCH` or `DELETE` with a filter asks for no SELECT. MySQL refuses them itself, with
  403 and not the 404 of a Resource the role does not have. `GrantsDecide` names both in
  `LeftToMySQL`.
* (\*) Under `openapi-mode=ignore-privileges` the document lists what is not granted, and
  `Allow` lists a PUT that, when it merges, also needs UPDATE.
* Two tables with as few columns that both can own a row set: the order of a Go map decides
  (`Tightest`).
* `handling=strict, handling=other` is lenient: the last value is invalid, and an invalid
  value does not make the request strict.
* A many-to-many embed whose join table the role cannot read is refused only when there are
  parent rows (`ReadLinks` comes after them; `Finish` in `Front`); `db-max-rows` does not cap child rows; a
  many-to-many list repeats a row that two join rows name, while its aggregate counts it
  once; rows whose keys MySQL takes for equal under a case-insensitive collation are not
  nested when their case differs. The last three need data the model does not have.

## 4. The proofs

TLAPS proves the theorems listed in `PROJECT.json` for any finite or infinite set of
requests, connections, workers, units, accounts and roles, for every knob and for every set
of jobs, tokens, routines, asks, reads or catalogs. They rest on the named `ASSUME`s of each module, which say what a constant
is, and on three that say something of the deployment:

* `LoginRoleAssumption` (RequestPool): a fresh login has no active role. README.md 143 tells
  the operator to `SET DEFAULT ROLE NONE`. Without it a connection whose first `SET ROLE`
  fails would go back to the pool with the account's default roles, since `onConnection`
  returns before the clean-up is deferred.
* `StepAssumption` (WriteUnit): `auto_increment_increment` is 1, which `consecutiveAutoKeys`
  takes for granted.
* `KeyAssumption` (WriteUnit): the table may hold finitely many keys, so that rows can be
  counted. `KeyAssumption` (TableRead) says the same of the rows of a table, and
  `SizeAssumption` (TableRead) that a word can count them, as it does in MySQL.

The rest are types: `TopAssumption` lets a word have any width, `CatalogsAssumption` says that
grants and facts are between accounts and rights, `CaseAssumption` (TableRead) that the rows
a request starts from keep their foreign keys and that its condition is made of filters and groups, `CaseAssumption` (Front) that a request is one
the router gives to a handler, with any header and any path of embeds, and `KeyAssumption`
(Front) that a foreign key has columns, finitely many.

Each proof has the same shape: `Init => IInv`, `IInv /\ [Next]_vars => IInv'` with one step
for each action, and `IInv => Property`.

**RequestPool.** `IdlePowerless` is not inductive: whether the next `Close` leaves a
powerless connection depends on who holds it and on who finishes its transaction. `IInv`
adds `HoldersDistinct` (one holder each, and a held connection is not in the pool),
`ReadyToRelease` (before `SET ROLE` and before `Close` nothing is active), `TxFollowsSteps`
(where the handler stands tells what its `sql.Tx` can be), `OpenTxHasOwner` and
`OpenWorkIsLive`. Theorems: `TypeCorrect`, `PoolIsPowerless`, `RoleIsolation`,
`AnswersAreSettled`.

**Refinement.** `UnitsKeepThePromise == Spec => UnitsAreAtomic` adds `UnitInv`, which says
for each step how far handler and data can be apart. `ArrivalStarts`, `SealSettles` and
`ReplyAnswers` are the three kinds of visible step; everything else stutters
(`InvisibleStutters`).

**SchemaReload.** `ReadInv`: what a half-finished read has gathered lies between the served
snapshot and the catalog, since there is one reader at a time and the catalog only grows.
`WorkerInv`: what a request may have seen at each of its steps. Theorems: `TypeCorrect`,
`CacheNeverGoesBack`, `RequestsSeeOneSchema`.

**TokenCache.** `HeldAsListed` (as many tokens as the order lists), `OneEvictionIsEnough` (a
full cache drops exactly its oldest) and `PutKeepsOrder` carry the bound; `VerifiedInv`
(what is in the cache, or past the signature check, is genuine) carries the verdicts.
Theorems: `TypeCorrect`, `CacheKeepsItsBound`, `CacheChangesNoVerdict`.

**RpcCall.** `ValidatedInv`: once the validator has passed, what is checked again after the
commit cannot fail, except for an embed. `EndInv`: the end that is announced is the end that
was decided, and the decision was carried out unless MySQL had rolled the unit back. Theorems: `TypeCorrect`,
`RefusedBeforeCommit`, `EndIsAnnounced`.

**WriteUnit.** `LockInv`: a row is written by one unit at a time. So another unit's end
cannot change what this unit would publish (`EndOfAnother`, `OtherStep`), and what its
statement was charged with (`LimitInv`) still bounds what `End` publishes. `FreshInv` says
that a unit has written nothing before its one statement, `InsertInv` that an `INSERT` has a
row to send.

`AnswerInv` says that a representation, once it is read in the transaction, passes every
check that is made again after the end, so that no refusal comes late.

`PostInv` is what a `POST` with a representation keeps to at each step. `Posting`: rows not
sent yet are part of the body, and nothing it has written is deleted. `Listed`: the keys it
has listed are those of the rows placed and of the rows to place, and no more were listed
than counted; a body that names the key 0 is excepted, for which MySQL generates a key the
code does not list. `Returned` follows at the reread by counting: as many rows as were
counted were found, so every listed key has its row and the 0 was not there to find.
`ListedAreGiven` is the fact of one statement: when each of its rows names a key, or none
does, the keys counted up from `LastInsertId` are those MySQL gave.

Theorems: `TypeCorrect`, `MaxAffectedBounds`, `PutTells`, `RefusesBeforeEnd`,
`InsertsAreReturned`.

**TableRead.** `MeetIsIntersection` and `UnsatisfiableIsEmpty` are facts of `ApplyRange` over
words of any width: where no bound wraps, the window it leaves is the intersection; the one
range that wraps is excepted. `NullFreeFiltersAgree` goes up from a filter
(`FilterAgrees`) through negation, joins and inner groups. `HistoryOK` carries
`ChildrenWereRelated`: what a page or a join row was read with was related then, so `was`
holds it however the tables change.

What a read answers when nobody writes rests on `AnswerInv` (the request was let through,
and an answer with rows is the one `Respond` gives) and on `QuietInv`: while nobody has
written, the total is the number of matching rows (`CountInv`), the parents are the page of
the rows the condition keeps (`PageInv`), the links those of the parents (`LinksInv`), and
each parent whose children are read has the children the query asks for (`NestedInv`). The
rest says what a page is. `RankIsPlace`, `PlacesTaken` and `RankInPart` relate the rank of a
row in an order to its place, by the library's facts of finite sets; `PageIsAsked` shows
that the rows on a page are those in the window, in the Range and within `db-max-rows`,
`StatusOfPage` that the status and Content-Range name their places. `KeptIsMatching` takes
the row set to the table through `NullFreeFiltersAgree`.

Theorems: `NullFreeFiltersAgree`, `TypeCorrect`, `WindowCorrect`, `NestedWasRelated`,
`QuietReadAnswers`, `RowSetAnswers`, `StatusTells`.

**Privileges.** `WalkInv`: the role the walk began at is on its way, every grant of a role
already entered leads to one entered or waiting, everything on the way is in each closed set
with the first role, and what is found is what the entered roles hold. When nothing waits,
the entered roles are therefore the smallest closed set. `SnapshotInv` says the same of the
snapshot; a role nobody names holds nothing. `NeverTooFew` and `NeverTooMany` compare the
closure of names with MySQL's closure of accounts: names reach what the accounts reach by
grants on the Resource and its columns (`OnResource`), and, each with an account of its own,
nothing that MySQL gives on no column (`InPart`). Theorems: `BuildTypeCorrect`,
`WalkFindsClosure`, `CacheAgreesWithMySQL`.

**Front.** `FrontInv` joins six parts to the invariant of `Privileges`. The nine orders of
the handlers differ, so the proof never goes through them step by step: `SoundOrder` and
`OrderFits` say once what each keeps to (the role before admission, admission before what
uses the snapshot, the query and the header before `run`, in a handler that has them), and
`Passed` is the set of checks the request is past. `PassedInv` says what each check in
`Passed` has found out, and `ReadyToRun` that at `run` all of it is known; from then on
`RanInv` keeps it, also after the answer. `RefusedInv` keeps why admission refused.
`UsingInv` says that the snapshot of a request was in the cache and that its version tells
it apart from the one there now, so that what was said of one snapshot (`AdviceInv`) can be
compared with what another request is told. `PlanInv` ties the plan to that snapshot, and
`LinkInv` what was served to the join tables it may read (`ServedLast`: only the last step of
a read serves what has run).

* `GrantsDecideHolds` needs all of these and `CacheAgrees`, what the snapshot has to do with
  MySQL's grants: a plan embeds only what is readable in the snapshot that admitted the
  request, and every other right a statement needs was asked of it (`NeededIsHeld`), but for
  the two of `LeftToMySQL`.
* `AllowIsHonestHolds` compares `TableMethods`, the document and `Admission` for one
  snapshot (`MethodsAreAdmitted`, `DocumentOfTable`, `DocumentOfRoutine`).
* `ProposedHintsAreGood` rests on facts of every catalog: a proposed hint matches the path
  it was proposed for (`HintFitsItsPath`) and, where names tell paths apart, no other
  (`HintTellsApart`, `SelfHintTellsApart`); `HintIsFollowed` carries that through a plan of
  any length, because the embeds before the ambiguous one answer as they did.
* `OverriddenTokensChangeNothing` holds of every header (`LastValueStays`).
* `RanAsAskedHolds`, `FrontTypeCorrect`; and
  `BuildIsLeftAlone`: the front implements the build of `Privileges`.

**Only model-checked.** Liveness (`EveryRequestAnswered`, `TransactionsEnd`,
`SignalHonoured`, `WalksEnd`, `EveryAskIsAnswered`) is beyond the prover, which knows
neither fairness nor `ENABLED`. Every invariant and every action property of the passing
runs is also a theorem. The violations are TLC's.

## 5. What is not modelled

* *Embeds in embeds* are planned in `Relationships`, and read in `TableRead` one level deep:
  the next level runs the same steps with the children as parents. In `RpcCall` and
  `WriteUnit` an embed is one read that comes or fails; in `SchemaReload` a catalog has no
  content, which `Privileges` and `Front` give it.
* *Text*: the parsers of filters, selects, bodies and headers (a choice of what they find),
  JSON paths, casts, `like` and `ilike`, the SQL text, JSON and CSV, the OpenAPI document
  but for what it lists, `db-root-spec`, CORS and the proxy URI. They keep no state, and
  their tests compare text.
* *Aggregates* but for whether they are allowed, and that an embedded one is a single row of
  the children of one parent.
* *Configuration*: read once before the process listens; its results are constants here.
* *Composite keys* of a write: `selectByMultiKeys` takes the same steps as the one-column
  key, which alone can be `AUTO_INCREMENT` and generated.
* *`Pool.Close`, the identity probe, the verification and test tools.*

## 6. Plan

The order follows how much of the behaviour rests on each part. Done: the pool and its
promise, the reload, the token cache, RPC, writes, reads with their pages and embeds,
privileges, Prefer, and the front of every handler. Next:

1. An abstract specification of an honest representation, which `WriteUnit` implements for
   `POST` but not for `PATCH` and `DELETE`.
2. A second level of embeds in `TableRead`, and the duplicates of a join table.
3. `auto_increment_increment` other than 1: which rows a reread may then meet.
