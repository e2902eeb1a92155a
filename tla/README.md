# A formal model of weatherpruf

weatherpruf keeps a user's closet. The user edits it through a REST API and a
web app, and an AI assistant reads and writes it through an MCP connector; both
surfaces are served by one asyncio process and meet in one Postgres database.
This directory holds TLA+ modules of the parts whose correctness depends on the
order in which concurrent requests run, on what a long sequence of calls adds up
to, or on an algorithm with many cases; TLC configurations that check them on
small instances; and TLAPS proofs for every instance.

Paths below are relative to the repository; `services/`, `mcp_server/` and `api/`
stand for directories of `backend/app/`.

## 1. Inventory

| Component | State | Operations | What makes it correct |
|---|---|---|---|
| Closet items (`services/items.py`, `db/migrations/0001`, `0003`) | rows of `public.items` | `create_item`, `create_items`, `update_item`, `delete_item`, reads | a row belongs to an existing account, only its owner changes it, the cap holds, a batch reports what it commits, `fields` fits the category |
| Profile and account (`services/profile.py`) | `user_profile`, `auth.users` | `get_profile`, `upsert_profile`, `delete_account` (purge, then Admin API or direct delete) | once deleted, nothing of the user is left or comes back |
| Daily cap (`services/usage.py`, `closet_tool` in `mcp_server/tools.py`) | `usage_counters` | `check_and_increment`, `calls_used_today` | no more than the limit of calls a day, none refused early |
| Connections (`db.py`) | two asyncpg pools of at most 5 connections | `rls_transaction`, `readonly_transaction`, `connect`, `disconnect` | no connection is lost, nobody waits for ever |
| Taxonomy (`services/taxonomy.py`) | `_cache` and its age | `load_categories`, `get_category`, `validate_fields` | a category that exists is found, with its fields; a value is stored as its field's type says |
| Admission (`services/admission.py`) | `_admitted` | `ensure_capacity`, on every authenticated request | the first `max_users` sign-ups are in and stay in |
| Safe query (`safe_query.py`) | none | `validate_where_clause`, `run_where_clause`, two fixed queries | what passes is a predicate over the allowed columns of bounded size |
| MCP tools (`mcp_server/tools.py`) | none | nine tools | batch results at the caller's positions, an update touches what it names, an answer is complete or says it is not |
| MCP server start (`mcp_server/server.py`) | `_started`, `_context`, a lock | `_LifespanOnFirstRequest`, root OAuth routes | started exactly once, start-ups that fail included |
| Token verification (`auth.py`, `mcp_server/auth.py`, `api/deps.py`) | JWKS client, back-off | `verify`, `verify_token`, `require_admitted_user` | a key outage neither hammers the provider nor outlasts itself |
| REST API and application (`api/`, `main.py`, `models.py`, `errors.py`, `config.py`, `static.py`) | settings | routes that forward to the services, the web app's catch-all | same rules on both surfaces, each path reaches the part that owns it |
| Web app (`frontend/src`) | page state, session, cached categories | list, filter, load more, add, edit, delete, settings, consent | what is shown is a state of the closet, an edit changes what the user changed |
| Scripts, CI, infrastructure | none | operator tools | outside the running system |

How they interact: a path is routed (`Routes`), the MCP server is started if need
be and the token verified (`FrontDoor`), the user admitted (`Admission`), a tool
call charged (`Usage`), and a service function takes a connection from the pool
(`ConnectionPool`), may load the taxonomy (`Taxonomy`), checks what it was sent
(`ToolCalls`), and runs statements in a READ COMMITTED transaction under row level
security (`Closet`). The web app sends its requests and shows what comes back
(`WebCloset`).
They share the pool, the tables, and the two in-process caches. Account deletion
cuts across: it removes items, profile and counters in one transaction, and then
the `auth.users` row through an HTTP call to Supabase that may time out and be
carried out later.

What is hard: every `await` lets another request in, so counts and rows that were
read may be out of date when they are used; transactions of one user overlap and
lock; handlers are cancelled (client disconnect, shutdown) between any two steps;
the process restarts and forgets its caches; the day changes between statements;
connections run out; the key endpoint goes down; answers reach the web app in
another order than they were asked for. Besides, the query validator, the coercion
of values and the mapping of batch results have more cases than examples cover.
`PROJECT.json` lists these hazards line by line under
`hazards`, with the properties that cover them or the reason why none does.

## 2. Modules

| Module | What it is |
|---|---|
| `Closet` | items, profiles and accounts, and the handlers that write them |
| `ClosetProofs` | its theorems on accounts, rows and locks |
| `ClosetBatchProofs` | extends `ClosetProofs`: what a batch reports, and the overrun of the cap |
| `CallBudget` | abstract specification of the daily cap |
| `Usage` | `check_and_increment` under `closet_tool`, implements `CallBudget` |
| `UsageProofs` | its theorems, the refinement among them |
| `ConnectionPool` | acquire and release of the application pool |
| `Taxonomy` | extends `ConnectionPool`: the cache, its loads, the requests that validate |
| `TaxonomyProofs` | their theorems |
| `Admission` | `ensure_capacity` under sign-ups, deletions and restarts |
| `AdmissionProofs` | its theorems |
| `LazyStart` | abstract specification of an application started on demand |
| `TokenVerifier` | `verify` over a key endpoint that rotates its keys and goes down |
| `FrontDoor` | extends `TokenVerifier`: how a request gets in, implements `LazyStart` |
| `FrontDoorProofs` | its theorems, the refinement among them |
| `ItemValues` | the validators of the request models and `validate_fields`, as operators |
| `SafeQuery` | extends `ItemValues`: the clause validator and the statements, as operators |
| `ToolCalls` | extends `SafeQuery`: the tools, one action each |
| `Routes` | which part of the server answers a path, as operators |
| `OneRequest` | extends `ToolCalls` and `Routes`: one caller's requests, one at a time |
| `OneRequestProofs` | its theorems, and what the algorithms compute |
| `WebCloset` | the closet page and its form, over the REST API, beside the assistant |
| `WebClosetProofs` | its theorems |
| `MC*` | instances for TLC |

In the concurrent modules one action is one SQL statement, one HTTP exchange, or the
run of Python between two awaits; that is the granularity at which handlers really
interleave. A set `Workers` (or `Handlers`) bounds the requests in flight, not
their number: a handler that finished serves the next one. An exception or a
cancellation at any place is one action (`Abort`, `Cancel`), because `async with`
undoes the same things in both cases: the transaction is rolled back and the
connections are returned. `OneRequest` is the opposite cut: a call is one step, and
what matters is what it computes and what a sequence of calls adds up to.

Operators whose comment starts with "Slip" are mutations: they are used nowhere,
and `PROJECT.json` pairs each of them with the property that fails when the real
operator is replaced by it.

### Closet

`row` gives an id its row, committed or not; `items` are the committed ids;
`txn[w]` holds handler `w`'s local variables (`remaining`, `results`, `existing`)
and the uncommitted work of its transaction (`staged` inserts, `doomed` and
`wiped` deletes). `authUsers`, `profiles` are the other tables; `late` holds
users whose Admin API delete was given up on and may still run; `closed` those
whose client was told the account is gone.

| Code | Actions |
|---|---|
| `create_item`, `create_items` | `BeginCreate`, `BeginBatch`, `ReadCount`, then per entry `EntryOverCap`, `EntryInvalid`, `EntryInserted`, `EntryRejected`, and `Commit` |
| `update_item` | `BeginUpdate`, `ReadItem` (with the re-validation), `WriteItem` |
| `delete_item`, `upsert_profile` | `DeleteItem`, `UpsertProfile` (one statement each) |
| `delete_account` | `BeginDeleteAccount`, `PurgeItems`, `PurgeProfile`, `CommitPurge`, then `AdminDelete` and `AdminAnswers`, or `AdminFails` and `FallbackDelete`, or `LateDelete` |
| cancellation, error, crash | `Abort` |

Postgres is modelled as the code relies on it: uncommitted rows are invisible to
others, an UPDATE or DELETE waits for the lock of an uncommitted DELETE and then
acts on the newest version, an insert's foreign-key check takes a key-share lock
on the `auth.users` row and fails when it is gone, deleting that row waits for
those locks and cascades. Payload data is reduced to a category and a value of
`fields`; `Template` says which pairs `validate_fields` accepts. Three
simplifications: a statement takes the locks of all its rows at once; the
`usage_counters` rows of a purge live in `Usage`; the profile is a row without
columns.

### CallBudget and Usage

`CallBudget` knows no counter: a call is a record of user, day, budget and number;
a number is issued once and served at most once, only numbers `1..Cap` exist.
`Usage` has the counter, the atomic upsert, the day, the account purge, and
history variables `issued`, `served`, `budget` which carry the refinement
(`CB == INSTANCE CallBudget WITH ...`). A purge of the counters starts a new
budget; this is explicit, because the code does it: `delete_account` commits the
removal of the counters before the account itself is removed
(`services/profile.py:66`), so an account whose deletion ends in between goes on
with a new quota. `Cap` is `Limit`, or 1 when `Limit` is 0, since the insert of a
day's first call does not look at the limit.

### ConnectionPool and Taxonomy

`free`, `conn[h]`, `loader[h]`: the connection of a handler's transaction and the
one it loads the taxonomy with. `create_item` validates before it opens its
transaction, `create_items` and `update_item` inside it (`ValidatesInTransaction`),
so their loads hold two connections. `cache` keeps, for each of the two tables
that a load reads by two statements, the categories it saw; `fresh` is the age
test, which the environment (`Expire`) may turn off at any time; `AddCategory`
commits a category and its fields together, as `0002_seed_taxonomy.sql` does.
Categories are not removed: neither the code nor the migrations do.

### Admission

`created` is taken when a sign-up begins and becomes visible when it commits, so
visibility may come in another order than `created_at`; `disordered` records that
it did. `Rank` is the query of `ensure_capacity`: 0, not NULL, for a user who has
no row, who is therefore let in. `Restart` empties `_admitted` and cuts off the
requests in flight. `position` (the order in which accounts really appeared) and
`everIn` are history.

### TokenVerifier, LazyStart and FrontDoor

| Code | Actions and operators |
|---|---|
| `_LifespanOnFirstRequest.__call__`, `_ensure_started` (`mcp_server/server.py`) | `Arrive`, `FindStarted`, `Enter`, `Started`, `FailStart`, `Cancel` |
| `require_admitted_user` (`api/deps.py`), `verify_token` (`mcp_server/auth.py`) | `Authenticate`, `Admit` |
| `TokenVerifier.verify`, `_decode` (`auth.py`) | `Accepts`, `Refuses`, over `FindInHand`, `FindByFetch`, `FailLookup` |
| the clock, the key endpoint | `Tick`, `ChangeEndpoint` |

`verify` awaits nothing and its fetch is a blocking call on the event loop, so a
verification is one step; `SlowFetch` lets the clock advance inside it. PyJWT's
client keeps two caches, a key set with a lifetime (`jwkSet`) and an `lru_cache`
of the keys it found (`keyCache`), which never forgets: a withdrawn key goes on
being accepted until a restart. One failed lookup turns every asymmetrically signed
token away for `BackOff` seconds, also those whose key is at hand: that is what
the code does, and `GoodTokenAccepted` says that nothing else does. The lock is a
queue, its holder first. `Admit` may go either way; which way is the matter of
`Admission`, and errors of the query behind it are left out. The branch for a
sub-application without a lifespan is not taken: FastMCP's always has one. The
history variables `starts` and `reached` carry the refinement of `LazyStart`.

### ItemValues, SafeQuery, ToolCalls, Routes, OneRequest

| Code | Definitions |
|---|---|
| `ItemBase`, `ItemCreate`, `ItemUpdate` (`models.py`) | `CleanStrings`, `NormaliseCategory`, `ItemCreate`, `ItemUpdate` |
| `_coerce`, `validate_fields`, `known_field_names` (`services/taxonomy.py`) | `Coerce`, `ValidateFields`, `KnownFieldNames` |
| `_blank_string_literals`, `_prescan`, `_depth`, `_check_column`, `_check_json_access`, `validate_where_clause` (`safe_query.py`) | `BlankStringLiterals`, `Prescan`, `Depth`, `NodeFits`, `JsonAccessFits`, `ValidTree` |
| `run_where_clause`, `list_category`, `closet_summary` | `Where`, `Answers`, `Summary` |
| `create_items`, `update_item` as computations (`services/items.py`) | `CreateItems`, `Updated` |
| the tools (`mcp_server/tools.py`) | `AddItem`, `BatchAddItems`, `UpdateItem`, `RemoveItem`, `QueryClosetItems`, `ScanClause`, `ListCategoryItems`, `GetClosetSummary` |
| `create_app`, `NormalizeMcpPath` (`main.py`), `build_mcp_app` (`mcp_server/server.py`), `SinglePageApp` (`static.py`) | `RouteTable`, `Normalize`, `RootOAuthRoutes`, `WebApp`, `Handler` |

A text is a word with two marks, upper case and white space around it, which is
what trimming and lowering tell apart. A clause is a sequence of characters of six
kinds for the scan, and a tree for the walk; from the text to the tree is sqlglot's
work and external, as is what Postgres makes of a predicate. Which rows an
`order by ... limit` keeps is left open. A call sets `call` and `answer`, `Read`
clears them. `ScanClause` and `Visit` read no closet, so they are tried on the empty
one only. The closet is a function whose domain are the ids that are held. What the
code computes with a loop is a recursive function: `Pass` and `Nesting` over a text,
`Cleaned` over a list of labels, `CreateItems` over a batch. `sorted` is `SortedBy`,
which says what a sorted list is and not how it is found.

The assumptions of these modules type the constants: a template has one of four
types for each field, arguments have the types the tools declare (`ArgumentFits`),
`MaxItems` does not exceed the ids there are, the rows of others are not the user's,
paths are sequences of segments, none of the application's own is a page or a file.
`WordsAssumption` and `FormalitiesAssumption` say that words between quotes are
strings, which the provers do not know. Numbers are those that some word reads as.

Choices of the code that the model keeps and a reader may stumble over: `float()`
reads `nan` and `inf` (`services/taxonomy.py:124`), which the jsonb column refuses;
a required text may be empty; a blank category in an update is a database error
while an empty one is ignored; `(1)` passes the check of the root
(`safe_query.py:477`) and is refused by Postgres (`IsCondition`); a result as long as the
limit counts as truncated; an update trims no brand, a creation does.
Left out: double-quoted identifiers that hold an apostrophe, HTTP methods, and the
redirects Starlette adds for a missing slash.

### WebCloset

| Code | Actions and operators |
|---|---|
| `ClosetPage.tsx`: effect, `loadMore`, `deleteItem`; `ItemCard.tsx`: `deleting` | `ChangeFilter` (with `Load`), `ReceiveFirst`; `SendMore`, `ReceiveMore`; `SendDelete`, `ReceiveDelete` |
| `useCategories.ts` | `LoadCategories` |
| `ItemForm.tsx`: opening and inputs | `OpenForm`, `CloseForm`; `ChangeCategory`, `SetNotes`, `SetField` |
| `ItemForm.tsx`: `buildFields`, the payload, `diff`, `submit`; `onSaved` | `BuildFields`, `Payload`, `Diff`, `Submit`; `ReceiveSave` |
| `api/items.py`: list (page, then total), delete | `ServePage`, `ServeTotal`, `ServeDelete` |
| `create_item`, `update_item` (`services/items.py`) | `CheckSave` (the count, or the read with the re-validation), `WriteSave` |
| the assistant's `create_items`, `update_item`, `delete_item` | `AssistantChecks`, `AssistantWrites`, `AssistantRemoves` |
| the network | `Lose` |

A request is sent, served and received in separate steps, answers come in any order,
and a request or its answer may be lost; a write whose page has stopped waiting is
still carried out. A creation counts in one step and inserts in another, an update
reads and writes likewise, so that saves, the assistant's writes and deletes fall in
between: the closet can overrun `MaxItems` here too (by how much is the matter of
`OvershootBounded` in `Closet`), and an update may find its row changed or gone. A save
is refused when there is no room, when the row is gone, when `fields` does not fit the
category, and whenever the request models refuse a value. An item's id stands for its
`created_at`, which Postgres takes when the transaction begins: a row may be inserted
below one that began later. A batch of the assistant adds one item here; what a longer
one does is in `Closet` and `OneRequest`.

The form is a modal: the page behind it takes no click. What keeps a button from being
clicked twice belongs to the card (`deleting`) or to the form (`saving`), and is lost
when these are taken down, by a reload or by closing the form: `client` says of a write
whether its card or form is still there (`mounted`), was taken down (`unmounted`), or
whether the page no longer waits for an answer (`gone`). A form that is opened again can
send a second save while the first is under way.

What the form sends is not what it shows. `BuildFields` leaves out a box that is not
checked and a blank text, texts are trimmed, and there are no fields at all while the
list of categories is missing. The difference is taken between the item as it was read
and this payload, so a save may change a key that the user did not touch, over what the
assistant wrote meanwhile, although the comment on `diff` (`ItemForm.tsx:345`) says
that it keeps an edit from doing so: when the item holds a flag that is `false` or a
text with blanks around it, or when it was edited before the categories were there. And
`fields` is one key to `diff`: all of it is sent when one of its values changed.
`SaveKeepsTheRest` is about the keys the user left alone (`LeftAlone`) and the form gives
back as they are stored (`GivenBack`); the model has items of the other kinds too, whose
`fields` do get overwritten.

`calm` says that since the list was last loaded one request was under way at a time and
nobody else wrote; `PageShowsPrefix` is stated for calm pages, because outside of them
the page does go wrong until its next load: a load-more that is answered after a reload,
a filter change or a delete skips, repeats or mixes items (`loadMore` has no guard like
the effect's `active`, `ClosetPage.tsx:85`); a delete answered with 404 leaves the total
off (line 117); a reload that fails leaves the old list under the new filter. Two more
things no property speaks of: when every item shown was deleted and more could be
loaded, the page says that the closet is empty (line 204), and a save that is answered
after its form was closed closes the form opened since.

`Matching` and `Without` pick elements of a list with `Select`, which says with a
recursive function what the code's filters do; a fact about it is proved by
induction, which the library's `SelectSeq` does not allow. The assumptions of the
module say that the closet a session starts with is that of a database, rows with all
their keys and ids in the order of `created_at`, and that what the assistant sends names
keys of an item.

## 3. Runs

| Run | Instance | What it shows |
|---|---|---|
| `closet_create` | 1 user, 2 handlers, 5 ids, cap 2, batches of 2 | `NoOrphans`, `OvershootBounded`, `BatchReport`, `AccountGone` |
| `closet_update` | 2 users, 2 handlers, 2 ids | `TypeOK`, `NoLockCycle`, `DeletedStaysDeleted`, `OwnRowOnly`, `UnracedUpdateFits` |
| `closet_overrun` | as `closet_create` | `CapRespected` fails |
| `closet_skew` | as `closet_update` | `FieldsFitCategory` fails |
| `usage_calls` | 1 user, 3 handlers, limit 2, 2 days, 2 budgets a day | `TypeOK`, `KeepsBudget`, `RefusedWhenSpent` |
| `taxonomy_pool` | 2 handlers, 2 connections, 1 of the handlers may batch | `TypeOK`, `PoolConserved`, `NoStall`, `KnownCategoryFound`, `NoBareCategory`, `EveryRequestAnswered` |
| `taxonomy_stall` | both handlers may batch | `EveryRequestAnswered` fails |
| `admission_cap` | 3 users, 2 handlers, cap 1, 3 clock values | `TypeOK`, `CapacityHolds`, `AdmittedStaysInOrder`, `FirstUsersAdmitted` |
| `admission_late` | the same | `AdmittedStays` fails |
| `front_door` | 3 requests, 2 of them to the MCP server, 3 tokens, 2 keys, back-off 2, key sets for 2, fetches of up to 1, clock to 3, 1 start-up that fails | `TypeOK`, `EnteredContextKept`, `StartsOnce`, `GoodTokenAccepted`, `FailedLookupsSpaced`, `EveryRequestAnswered` |
| `one_request` | 3 ids, cap 2, batches of 3, 2 colors; 9 items as sent, 13 patches, 15 trees, every clause of up to 6 characters, 32 deployments and all their kinds of paths | `TypeOK`, `StoredFieldsValid`, `AnswersComplete`, `PrescanExact`, `RoutesReach`, `BatchAnswered`, `UpdateTouchesNamed` |
| `web_closet` | 3 items that fill the closet, pages of 2, 2 clicks, 1 edit in a form, 2 requests under way, 1 mishap, 2 writes the assistant may send | `TypeOK`, `PageShowsPrefix`, `FirstPageCurrent`, `SaveKeepsTheRest`, `LoadingEnds` |

The larger ones reach 0.5 (`front_door`), 1.1 (`one_request`) and 2.5 million
(`web_closet`) distinct states.

Why the bounds are enough. The safety questions are about pairs: a count and the
insert of another handler, a read and the write of another, a purge and an insert,
a reservation and another one. Two handlers (three for the counter, so that two
calls race while the account is purged) reach all of these, one handler going on
to serve several requests in a row. The closet cap of 2 with five ids lets two
handlers fill and overrun it, with one batch crossing the cap in its middle. One
user is enough where rows of different users never meet (`closet_create`); two
are used where row level security is the question. `Limit` 2 has a first call, a
last one and a refused one; two days have one midnight; two budgets one purge.
Two connections are the smallest pool in which holding one and waiting for another
can stall everyone; the shipped pool has 5, and `PoolNeverStalls` is proved for
every size. Three sign-ups with a cap of 1 have one admitted user, one who is next
and one who comes late.

In `front_door` two requests meet at the lock while the third goes past it; a
start-up fails or is cancelled and the next request starts again; two keys have a
rotation; the clock reaches the end of a back-off of 2 and goes beyond it, and one
token expires at each end of it, one never does. In `one_request` a closet of two
is filled, overrun by a batch in its middle and emptied again; every tool meets an
item of each of three categories with a required, an enum, a number, a boolean and
a text field; the limits of a query and of a listing are reached and not reached;
clauses are one longer than allowed and long enough for a doubled quote inside a
literal between parentheses. In `web_closet` three items make two pages and fill the
closet, so that an item can be added after one was deleted, and both the page and the
assistant may count the room that is left; one item has a flag that is set, one a flag
that is not, one a text that is not trimmed. With two clicks an edit follows a filter, a
delete follows a delete, a save follows a save from the form opened again, or a filter
follows a filter; one edit of an input, the category included, tells the keys that were
touched from the others; with two requests under way they overlap; with one mishap the
assistant writes in between, or an answer is lost.

Bounds in guards are `MaxBudgets`, `LastDay`, `LastTick`, `MaxTime`, `MaxFaults`,
`MaxClicks`, `MaxEdits`, `MaxUnderWay` and `MaxMishaps`; each is said to be one where it is
declared. Symmetry is used in runs without liveness only.

Deadlock is checked in all runs but `web_closet`, whose page comes to rest when the
clicks and the mishaps are spent. The other systems cannot stop: requests keep
arriving, users come and go, or the clock and the endpoint go on changing.

Fairness. `Taxonomy`: weak for the steps a handler makes on its own, since the event
loop runs every ready task and each statement of a load ends; strong for taking a
connection, since asyncpg hands a returned connection to its waiters in turn.
`FrontDoor`: weak for what a request does by itself (the event loop, a lifespan that
returns, a lock that is handed on in order). `WebCloset`: weak for serving and for
receiving, since every request is answered or fails. Nothing is assumed of arrivals,
cancellations, failures, new categories, the cache's age, the clock, the endpoint,
the user's clicks or the assistant.

### Disagreements with the documentation

1. `closet_overrun`: the cap is not enforced against concurrent requests
   (`services/items.py:79`); `OvershootBounded` says by how much it can be overrun:
   one batch for each other handler.
2. `closet_skew`: two overlapping updates of one item leave `fields` the category
   refuses (`services/items.py:227`). `UnracedUpdateFits` says that this is the
   only way.
3. `taxonomy_stall`: five batches or updates with an expired cache block each other,
   and every later request, until one of them is cancelled
   (`services/items.py:119`).
4. `admission_late`: a sign-up that commits after a later one can push an admitted
   user out after a restart (`services/admission.py:44`).

## 4. Proofs

All theorems hold for every value of the constants under the assumptions named in
the modules: the sets that are counted are finite, limits are natural numbers, and
the placeholder values (`None`, `Absent`, `Keep`) are not among the real ones.

* **`ClosetProofs!TypeCorrect`.** `TypeOK` is inductive as it stands because it
  contains `PlaceOK`: which request a handler serves at each place and which
  uncommitted work it can have there. One lemma for each group of actions, built
  on three about a handler that ends (`FinishOK`), continues (`ContinueOK`) or
  begins (`BeginOK`).
* **`ClosetProofs!RowsHaveAccounts`, `!DeletedAccountIsGone`.** `NoOrphans`
  and `AccountGone` need `AccountInv`: a handler stages rows of its own user only
  (so the lock that delays `RemoveUser(u)` covers every staged row of `u`), and
  between the delete in Supabase and its answer the user stays gone. The second
  theorem follows: a closed account is not in `authUsers`, hence has no row.
* **`ClosetProofs!NoResurrection`, `!UpdatesOwnRowOnly`, `!UnracedUpdatesFit`.**
  Action properties. The items of a state grow only by a `Commit` of staged ids; an
  update is a `WriteItem` of a visible row; the third needs the invariant that a
  handler about to write holds a patch that fits the row it read.
* **`ClosetProofs!LocksNeverCircle`.** Who waits for a lock holds none that another
  one waits for, so no chain of waiting handlers closes.
* **`ClosetBatchProofs!ReportsAreExact`, `!OvershootIsBounded`.** `BatchInv`: the rows
  staged by two handlers are apart and not yet committed, every created result names
  a row its handler staged, and a handler reports a full closet only when what it
  counted and what it staged reach the cap. `CapInv` counts: the rows of a user and
  what its handlers may still commit stay within the cap and one batch for each other
  handler, because a handler's room is what was left when it counted and every
  handler that commits later gives up its own share of the bound. The theorem
  assumes that there is a handler and that a batch has room for one entry.
* **`UsageProofs!UsageKeepsBudget`.** The refinement of `CallBudget`. `UsageInv` says
  that the counter is exact (the numbers issued for the current budget are
  `1..callCount`) and that a call in progress is issued and not served, by that
  handler alone; then every step maps to `Issue`, `Serve` or a stutter.
  `!UsageRefusesWhenSpent` and `!UsageTypeCorrect` use the same invariant.
* **`TaxonomyProofs!NoConnectionLost`, `!PoolNeverStalls`.** Connections are a
  partition of `Conns`. If all handlers that go on are waiting and no connection is
  free, every connection is held by a batch handler that waits for its second one,
  one each, so there are at least as many batch handlers as connections; the
  theorem assumes there are fewer. This is the bound on concurrency that would
  make the code safe, and `taxonomy_stall` shows that it is needed.
* **`TaxonomyProofs!CacheIsWhole`, `!KnownIsFound`.** `LoadInv`: what a load has read
  of the first table is in what it reads of the second, because the fields are read
  last and categories are not removed. `LookupInv`: a category that was there when
  its lookup began is in what any load of that lookup reads, and the lookup gives up
  only after such a load.
* **`AdmissionProofs!CapIsKept`, `!AdmittedStayIn`, `!FirstUsersAreIn`.** The
  invariant holds as long as nothing is `disordered`. `OrderInv`: accounts have
  different creation times, and none ranks behind the place it signed up at, because
  a new account ranks last and one that goes only makes room. `AdmittedInv`: whoever
  was let in ranks within the cap from then on. `ReadInv`: a rank that was read is not
  below what the rank has become, so that an old one never lets in more than a new
  one would. The cap follows from the account that signed up last among those let
  in: it ranks behind all the others, and within the cap. That there is a last one
  is the well-foundedness of the natural numbers.
* **`FrontDoorProofs!ContextIsKept`, `!ImplementsLazyStart`.** `LifespanInv`: the
  request that enters the lifespan holds the lock, nothing has been started, and the
  context is its own; with `RequestsInv`, which says that a request is forwarded once
  and after the start, every step maps to a start, a forwarding, both, or a stutter.
  `!FailuresAreSpaced` and `!GoodTokensAreAccepted` follow from `BackOffInv`: the
  back-off is what the last failed lookup left.
* **`WebClosetProofs!CalmPageShowsPrefix`, `!FirstPageIsCurrent`, `!PageTypeOK`,
  `!SavesKeepTheRest`.** What `Select` picks is proved first, by induction on the
  length of the list: it keeps the order, picking twice is picking what both want,
  and more elements only add to the end. The invariant comes in layers. `RowsInv`: the
  rows are in descending order of ids, all given out. `PendingInv`: the id of an item that
  was counted and is still to be inserted is reserved for it and not in the closet, so
  that an insert keeps the order wherever it lands. `FormInv` and `SavesInv` follow what
  the user left alone from the open form, whose input still holds what was stored, through
  `BuildFields` and `Diff` into the patch of a save, and from there through what
  `update_item` adds to it when the category changes: the patch does not name such a key
  if the form gives it back. `ListsInv`: tokens are given out in order, a listing with the
  newest one carries the filter that is chosen, and the page is loading exactly while
  that listing is under way. `Inv`: while a page is calm at most one request is under way,
  and the page and the closet differ by what that request does and nothing else
  (`CalmIdle`, `CalmListing`, `CalmDeleting`, `CalmSaving`). That a page shown is a prefix
  is not inductive without these: a delete that was served and not yet answered has
  already shortened the closet. No theorem here says that the closet keeps its cap,
  because it does not.

* **`OneRequestProofs!StoredFieldsValidOK`, `!OneRequestTypeOK`.** `IInv` puts the two
  together, item by item (`Sound`): an item that is moved to another category is
  validated with the fields it holds, which are coerced right because they are values
  that could have been sent. `CoerceFits` and `ValidateFieldsFit` say that what was
  coerced fits its field unless it is no number, and such a row is not `Storable`.
  `CleanStringsTwice` (labels that are clean stay as they are) is what lets the colors
  of an update be counted after they were cleaned. For a batch, `MadeSoFar` says what `create_items` has done after
  some of the payloads, and `EnteredKeeps` that one more keeps it so: the count of
  the created results is what the closet has grown by, so the cap holds at the end.
* **`OneRequestProofs!BatchAnsweredOK`, `!UpdateTouchesNamedOK`.** Action properties,
  from the same invariant. `OrderedIndexes` lists the entries of the right shape in
  increasing order (`SortingExists`, `OrderedIs`), so what the service says of its k-th
  payload is about the k-th of them; the failures fill exactly the places that are left,
  and a strictly increasing list of n numbers up to n has each at its place
  (`StrictlyUp`).
* **`OneRequestProofs!AnswersCompleteOK`.** Rows and items are in bijection
  (`RowsAre`); of finitely many rows, as many as there are is all of them
  (`AnswersAre`); and the counts by a key add up because numbering the rows of each
  group numbers them all (`CountsAdd`).
* **`OneRequestProofs!PrescanExactOK`.** `Paired`: the pass is inside a literal exactly
  when an odd number of quotes has passed, and at the first quote of a pair the next
  character is its second. So what is left standing is what lies outside
  (`BlankedIs`), and the depth counted on it is the balance of the parentheses outside
  (`NestingIs`); it grows only at one of those, so within the limit there it is
  within the limit everywhere (`NestedNowhere`).
* **`OneRequestProofs!RoutesReachOK`.** The table of each kind of deployment is written
  out (`TableIs`); the first route that matches answers (`FirstRoute`), and the first
  segments of the application's own paths tell its routes apart.

Every invariant and every action property of the passing runs is proved.
Model-checked only is liveness, which the prover does not do: `EveryRequestAnswered` of
`Taxonomy` and of `FrontDoor`, `LoadingEnds`.

The library's induction theorems cannot be used by the installed provers, since they
take an operator. Where a theorem needs induction it is by a least counterexample: the
natural numbers are well founded, so a set of them that is not empty has a least
element (`LeastNat`, `UpTo`). That a recursive function is what its definition says
needs one that does, built step by step in the same way (`Recursion`, `MakingExists`).

## 5. Not modelled

* **What is another program's.** The SQL parser, JWT signatures, FastMCP and its OAuth
  proxy, Supabase, Postgres beyond what `Closet` says of it. `Discovery`, `ProxyPaths`
  and the key client's caches are modelled from how the code uses them.
* **What changes no state.** `get_item`, `list_tags`, `get_profile`, `/api/limits` and
  `/api/me`, `get_closet_structure`, `calls_used_today`, the health check.
* **What is a value only.** The profile's columns (a null does not clear
  `home_location`: one `coalesce`, which a property would only restate), the text of a
  refusal with its `resets_at`, brands and warmth in a summary, bounds of numbers and
  lengths of texts (pydantic's), the wording of errors and of the assistant's
  instructions, tags as a filter (they behave as the category does).
* **What is set up once.** Opening and closing the pools, settings, CORS, logging, error
  envelopes, the seed migration, the read-only role, which `AnswersComplete` takes as
  a filter on `user_id`.
* **The rest of the web app.** Its session takes two reports of the Supabase client
  (`AuthProvider.tsx:14`) in the order that library gives them; settings, consent and
  the other pages send one request for a button; the form's checks of its own inputs
  are repeated by the server.
* **Scripts and deployment.** Run by hand, outside the running system.

## 6. What could come next

`Closet` and `WebCloset` could share one closet, so that the page meets batches of
several entries, locks and rollbacks, which it now meets as whole writes.
