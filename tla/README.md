# FarmU backend: TLA+ models and proofs

The FarmU backend is a FastAPI service over PostgreSQL and Redis. Two uvicorn
workers serve it, every request is a coroutine with an SQLAlchemy session of its
own, and transactions run at READ COMMITTED. No row carries a version column and
no query takes a lock, so an endpoint that loads a row, checks it and writes it
back is not atomic. Most of what can go wrong is in the interleavings, and these
modules are about them.

## 1. Inventory

| Component | State | Operations that change it | Correct when | Module |
| --- | --- | --- | --- | --- |
| auth: tokens (`auth_service.py`, `redis_token_store.py`, `jwt_service_impl.py`, `deps.py`) | Redis `refresh:<user>`, `blacklist:<hash>`; tokens in clients' hands | login, refresh, logout; key expiry | a logged-out session cannot refresh, a logged-out access token is refused | `AuthSession` |
| auth: accounts (`auth_service.py`, `user_router.py`, `user_repository_impl.py`) | tables `users`, `user_profiles` | register, create_user, profile, password, images | login ids are unique, a change touches what it names | `UserAccounts` |
| auth: settings and links (`user_router.py`) | `notification_settings`, `user_member_links` | GET (lazy defaults), PUT, link | one body of settings; a member has one user | `UserSettings` |
| notification (`notification_router.py`) | `notifications` | read, read-all | only one's own are marked | `UserSettings` |
| mentoring (`mentoring_router.py`) | `mentoring_matches`, `mentoring_tasks` | create, approve, reject, create_task, update_task | a match is decided once, by its own union; a rejection keeps tasks out | `Mentoring` |
| shipping (`shipping_service.py`) | `shipping_recommendations` | decision | decided once; a pending row is blank | `Shipping` |
| union weights (`weight_router.py`) | `union_weights` | first GET, PATCH | the weights sum up to 100 | `UnionWeights` |
| data ingest (`data_router.py`) | `data_uploads`, files in `UPLOAD_DIR`, signed URLs | create, PUT content, direct upload, correct row, revalidate, commit/apply | status and validation tell one story | `DataUpload` |
| scenario (`scenario_router.py`) | `scenarios` | simulate (stores a row), save, delete | what was answered is stored; what is deleted stays so | `ScenarioService` |
| AI advice (`gemini_client.py`, `ai/router.py`) | - | none; awaited by scenarios and farm advice | a failing or slow Gemini delays, and never prevents, an answer | `ScenarioService` |
| database session (`session.py`) | pool of 10 + 20 connections | connect, commit or rollback, close | no connection is lost, a failed request changes nothing | `ScenarioService`, `RowStore` |
| dashboard, alerts (`dashboard_service.py`) | `alerts` | dismiss | pages show every alert | `Listings`; trends in `Performance` |
| report, land (`report_router.py`, `land_router.py`) | `reports` | generate | pages show every row | `Listings` |
| member ranking and analysis (`member_router.py`) | - | none (reads) | the parts of one response fit together | `Listings`, `Performance` |
| celery, audit, redis client, application set-up, migrations | - | configuration | - | - |

Interaction: every router depends on `get_current_token_payload`, which asks the
JWT service and the Redis blacklist; all share the session dependency and its
pool; scenarios and farm advice call Gemini; there is no other call between
components at run time, and no callback or message (the Celery application
includes two task modules that are not in the repository). The tables of
different components are disjoint but for ids. Requests of one component
interact through its rows, requests of all of them through the pool.

Hard behaviours, listed with their lines as `hazards` in `PROJECT.json`:
check-then-write across awaits; column-wise UPDATEs that mix two requests'
values; stale copies merged back; races to insert a lazily created row;
whole-second timestamps and lifetimes that do not match; a failure between two
Redis calls, or between the flush and the commit; generated ids that collide; a
slow Gemini or a slow client while connections are few; several SELECTs that make
one response; pages cut out of a table that changes.

## 2. Plan, and where it stands

Everything planned is written. In order of weight:

1. `AuthSession`: the session life cycle every request relies on.
2. `DecisionLog` (abstract "decide once") and `RowStore`; `Mentoring` and
   `Shipping`, both shown to implement `DecisionLog`.
3. `UnionWeights`, `DataUpload`, `UserAccounts`.
4. `UserSettings`: settings, inbox and member link.
5. `ScenarioService`: scenarios, Gemini and the connection pool together, with
   liveness under fairness.
6. `Listings` and `Performance`: what clients put together from several reads.
7. Proofs about all of them: every invariant and every action property that a run
   checks is a theorem.

What could follow: the pool of `ScenarioService` shared with the requests of the
other modules rather than with PUTs of content alone.

## 3. Modules

### AuthSession

State: the clock in seconds, the two kinds of Redis keys with their expiry
second, the tokens clients hold, and per request a program counter and the token
it works on. A token is its subject and its `iat`: `JwtServiceImpl._encode` puts
nothing else into it that varies, so two tokens of one user and second are one.

| Code | Actions |
| --- | --- |
| `login` | `LoginMint`, `SaveRefreshToken` |
| `refresh` | `RefreshCheck` (decode, GET, compare, mint), `SaveRefreshToken` |
| `logout` | `LogoutAuthorise`, `LogoutDelete`, `LogoutBlacklist` or `LogoutBlacklistHeader` |
| Redis call fails, worker dies | `Abort` |
| expiry | `EvictRefresh`, `EvictBlacklist`, `Tick` |

Clients may replay any token they were ever given (`held`). A key set during
second s disappears at some moment of second s + ttl; a token is accepted
through the whole second of its `exp` (`jose` refuses `exp < now`).
`LogoutBlacklistHeader` is the logout of a client that spells the scheme
"bearer": `HTTPBearer` accepts it, `removeprefix("Bearer ")` leaves it, and what
is blacklisted is not the token.

`lastLogout` and `revoked` are history variables; no guard reads them.

### DecisionLog, Mentoring, Shipping

`DecisionLog` says what "PENDING until decided" amounts to without a lock: a
request that has seen an item open holds a claim; several may; the last to write
wins; and once nobody holds a claim the decision is settled. `Mentoring` and
`Shipping` instantiate it with their `status` column and their requests in
progress, and `ImplementsDecisionLog` is checked as a temporal property and
proved.

In `Mentoring`, `approve_match`, `reject_match`, `create_task` and `update_task`
are a read step (with every check the handler makes) and a commit step;
`create_match` reads only members, which nothing changes, and is one step. A
task's title stands for its three text fields. In `Shipping` the recommendations
exist at the start, since nothing in the repository inserts them.

`RowStore!Flush` is SQLAlchemy's UPDATE: columns whose new value equals the
loaded one are not written. It is what makes two overlapping PATCHes merge
(`PatchKeepsOtherFields`) and what makes two overlapping decisions or weights
mix.

### UnionWeights

`ReadMissing` and `ReadForPatch` load, `CommitInsert`, `InsertConflict` and
`CommitUpdate` write. `Total` stands for 100, which no argument depends on. The
specification is `WeightsSpec`, its variables `weightVars`, and in `Performance`
`PerfSpec` and `perfVars`: one module of proofs extends these two and `Listings`.

### DataUpload

A content is its length, 0 being the empty file: `validate_content` looks at
nothing else that matters. `validation` is one JSON column, `status` another;
they are written together but merged column by column. `ReadForPut` and
`WriteFile` are apart because the body is awaited between them; the file is
written before the commit and stays when the commit fails. Callers of the other
endpoints are administrators of the upload's union.

### UserAccounts

`UserRepositoryImpl.find_by_id` returns a copy and lets go of the ORM object; as
the identity map holds objects weakly, `merge` SELECTs the row again, assigns
all attributes of the copy, and the flush writes the columns that differ from
that second SELECT. The steps are `PatchGetMe`, `PatchFind` / `PasswordFind` /
`RegisterCheck`, `MergeSelect`, `FlushAccount` (takes the row lock and checks the
unique index), `PatchReadProfile`, `Commit`. Locks block later flushes until the
commit. `login_id` stands for the pair (login_id, union_id) and for the columns
only registration sets; `phone` for the three text columns of a profile and
`avatar` for the two images.

### UserSettings

One statement and one commit per request: `SelectSettings` (GET that finds none)
or `DeleteSettings` (PUT), then `CommitSettings`; `UpdateUnread` (read-all) or
`GetNote` (read), then `CommitRead`; `SelectLink`, the SELECT inside `merge`, then
`CommitLink`. A request goes by `seen`, the rows its statement saw. The settings
that one body stores are one batch with one number, as autoincremented ids are
never reused; a DELETE deletes the batches it saw. `CommitLink` has both
constraints of the table: the primary key on the user refuses a second first
link, the unique index on the member a second user. Notifications arrive from
outside (`Arrive`); no code in the repository inserts them.

### ScenarioService

A request is in a phase, named `pc`: it asks Gemini, waits for a connection,
loads its row, waits for its body, commits, and is done with what it answered.
Then its slot serves the next request.

| Code | Actions |
| --- | --- |
| `simulate_scenario`, `save_scenario` without an id | `ArriveNew`, `GeminiAnswers` / `GeminiFails`, `Connect`, `CommitNew` |
| `save_scenario` with an id, `delete_scenario` | `ArriveForRow`, `Connect`, `Load`, `CommitSave` / `CommitDelete` |
| `create_farm_advice` | `ArriveForAdvice`, `GeminiAnswers` / `GeminiFails` (503); it takes no connection |
| `put_upload_content`, as a user of the pool | `ArriveUpload`, `Connect`, `LoadUpload`, `ReceiveBody`, `CommitUpload` |
| `QueuePool` timeout | `ConnectTimeout` (500) |
| constraint, lost connection, client gone | `Fail`: rolled back, closed, 500 |

Gemini is asked before the session's first statement, hence before a connection
is taken; the body of an upload is awaited with one in hand. An UPDATE that finds
no row is an error for SQLAlchemy, a DELETE that finds none only a warning, and an
UPDATE that would change nothing is not sent: `CommitSave` and `CommitDelete` have
these cases.

### Listings

Six listings, one per behaviour. `get_alerts`, `get_ranking` and `get_uploads` run
a COUNT and then the page (`Count...`, `Select...`), and rows may be committed in
between; `get_reports` and `get_lands` take a full page for a sign of more;
`get_scenarios` announces a next page by the same sign but has no parameter to ask
for it (a walk through it ends `stuck`). `Slices` is every result that ORDER BY
with OFFSET and LIMIT allows, ties included. A size of 0, which alerts and ranking
do not refuse, divides by zero once there are rows.

`kind` is what a filter tells rows apart by: the status of an alert (`ACTIVE`,
`DISMISSED`), the month of a performance, the member of a land or scenario. A walk
names a kind, asks for `Every` one, or leaves the filter open where the code looks it
up itself: the latest month of a ranking (`ReadLatestMonth`, 404 while there is none)
and the member a MEMBER is linked to (`ReadLink`; without a link, every member's rows).
Both are looked up again in the request of every page. `current` holds what they
find; a row of a later month, of the listed group or not (`RowArrives`,
`OtherGroupArrives`), and `Link` change it between two pages, and the next page is cut
out of other rows at the old offset. `Dismiss` takes an alert out of the listing of
ACTIVE and into that of DISMISSED, at the place of its `created_at`, in front of rows
seen or not. Filters that cannot change during a walk are left out.

The walk's `got`, `start`, `repeated`, `arrivals`, `moves` and `switched` are history
for the properties: whether a row came under the filter after the first page, how many
were moved in a way that can hide one, and whether the open filter of a later page was
another one.

### Performance

`get_analysis` is five SELECTs (`LatestPeriod`, `ReadRow`, `CountRanked`,
`ReadHistory`, `ReadPeriods`) while another system loads the month row by row. Before
the last, the bars divide by the weights stored in the row; one of 0 ends the request
in a 500 (`DivideByZero`).
`get_trends` and `get_suggestions` are one SELECT each and are operators over the
table, compared in every reachable table with what they should return. Scores are
in whole points. Averages are kept in multiples of 1/`Scale`, a constant that every
number of members divides (`PerformanceAssumption`; 60 in the run), so that they are
exact; the floats of the code round later.

## 4. Runs

The longest run, `user_accounts`, takes about three minutes. `Requests` are two throughout: nearly
every hazard here is between one request and one other, and the proofs cover any
number.

| Run | Bounds | Shows |
| --- | --- | --- |
| `auth_session` | 1 user, TTLs 2/3/2, 3 seconds | what logout guarantees; long enough for a token to be minted, revoked, evicted and replayed after the eviction |
| `auth_logout_refresh` | same | counterexample: refresh undoes a logout |
| `mentoring` | 1 match, 1 task, 2 unions, 3 members, 2 titles | decisions follow `DecisionLog`; settled rejections keep tasks out; unions stay apart; PATCHes merge |
| `shipping` | 2 recommendations, 1 date, 2 memos | decisions follow `DecisionLog` and settle; pending rows are blank |
| `union_weights` | total 3, one union | only stale writes break the total |
| `data_upload` | 1 upload, lengths 0..2, rows 0 and 1 | validation is consistent; only stale writes part it from the status |
| `user_accounts` | 2 ids, 2 logins, 2 names, 2 phones | login ids unique, profile columns merge, PATCH all or nothing |
| `user_stale_profile` | 1 id, 2 passwords | counterexample: a profile PATCH restores an old password |
| `user_settings` | 2 users, 2 members, 1 notification, 3 batches | settings double only by overlap; members are linked once; first links stand |
| `scenario_service` | 2 requests and 1 upload over 2 connections, 1 id, 2 names, 2 unions | connections return, answers are stored, deletions and unions hold across the load, every request is answered |
| `listings` | 3 rows of 2 kinds, keys 1..3, sizes 0, 1 and 2 | a walk skips only what moved or what a changed open filter hides, repeats only after rows came under its filter |
| `performance` | 3 members in 2 groups, 2 months, 2 kinds of row (one with a weight of 0) | an analysis fits together mid-load; trends are means; suggestions are the best others |

Why these bounds: three batches are a first GET and two PUTs that overlap; three
requests over two connections make one of them wait; three rows are three pages
of one, or a full page of two and half a one, so that rows move across one or two
cuts; two kinds are the two states of an alert, a month or a member before and after
the change; two months are a latest and an earlier one. The proofs of `Listings` and
`Performance` cover every number of them. Named bounds: `MaxTime` ends the clock of
`AuthSession`, `MaxLength` caps content lengths in `DataUpload`, `MaxBatch` the
batches of `UserSettings`, `MaxStamp` the sort keys
and `MaxKind` the months or members of `Listings`; the other sets
are finite constants. `Ids` of scenarios are never reused, as they are random.

The counterexample runs are the findings of `PROJECT.json`. Divergences that are
reachable in the models, or were met while reading, and have no run of their own:

- `create_task` and `reject_match` commit after the status they checked has
  changed; two shipping decisions leave the status of one and the memo of the
  other; two PATCHes of the weights leave a sum other than 100
  (`docs/API_SPEC.md:398`).
- A logout in the second of the login is followed by up to a second in which the
  token is accepted again; a refresh in that second does not rotate.
- An applied upload is taken back by a correction or a revalidation; an upload
  whose file never came is validated by its declared size and applied
  (`data_router.py:351` refuses only what is not VALIDATED).
- A generated user id that is in use overwrites that account.
- Two PUTs of the settings that overlap leave both bodies; `main/api_docs.py:58`
  says the settings are replaced as a whole.
- Two PATCHes of one account can leave the name of one and the phone of the other:
  one whose phone equals the phone it read writes no phone, and one committed in
  between stands. `PatchIsAllOrNothing` names that exception.
- `docs/API_SPEC.md:268` says simulate does not store; it inserts a row.
- `docs/API_SPEC.md:280` gives one score per suggested mentor; the query joins all
  months, so a mentor with several may be suggested more than once, with the score
  of an old month. `SuggestionsAreBest` promises the number of suggestions for members
  with one month each only; the order by score always holds.
- A ranking without `period` changes to the new month between two pages as soon as
  its first row is loaded (`member_router.py:74`), and a MEMBER's lands to those of
  the member linked meanwhile (`land_router.py:55`): the rest of what was listed before
  is never seen. `SkippedRowsExplained` excuses exactly the walks this happened to.
- Under `status=DISMISSED` a dismissal puts an alert among those already seen: the next
  page repeats one. `RepeatsOnlyAfterArrivals` counts it as an arrival.
- The rank in an analysis is the stored one and the total is counted: while a month is
  being loaded the rank may exceed the total.

Symmetry is used for requests (`auth_session`), for requests, ids, logins, names
and phones (`user_accounts`, `user_stale_profile`) and for rows (`listings`); these check
safety only, for which it is sound, and no definition distinguishes the members
of these sets. `scenario_service` checks liveness and uses none.

`CHECK_DEADLOCK FALSE` stands where the system may stop because the bounded ids,
rows or seconds are used up.

## 5. Fairness and liveness

`ScenarioService` is the one module with fairness, as it is the one where requests
wait for something that may not come. `WF_vars(Scenario(r))` and
`WF_vars(Upload(r))` say that the server's part of each request goes on, which the
code bounds: Gemini is awaited with httpx timeouts of `gemini_timeout_seconds`
(20 s for each read), a connection for SQLAlchemy's pool timeout (30 s by default,
then a 500), and statements end. Arrivals are not fair, nor is the client: the
body of an upload, and the client's leaving before it, may never happen.

`EveryRequestAnswered` holds under that fairness: whatever arrives, fails or
overlaps, a request that waits for Gemini, a connection or a statement is
answered, and an upload gets at least as far as waiting for its body. Weak
fairness suffices though connections come and go, because either `Connect` or
`ConnectTimeout` is possible at every moment of the wait. The run has one upload
over two connections: a body that never comes holds one of them for ever, and two
scenarios compete for the other. (The real pool has 30.)

Elsewhere no fairness is assumed and safety alone is claimed. The service acts on
requests only: nothing retries, no background job exists, and a request that does
not finish is rolled back by its session.

## 6. Proofs

Checked by TLAPS for every value of the constants, from the named assumptions of
each module: sets are finite where they are counted, marker values (`Null`,
`NoRow`, `Unused` ...) are not data, numbers are natural.

`AuthSessionProofs`, from `AuthAssumption` (positive lifetimes, natural time
bound, `NoToken` not a token):

- `AuthTypeCorrect`: `TypeOK` is inductive as it stands.
- `QuietLogoutHolds`. `QuietLogoutEndsSession` is not inductive. `SessionInv` adds
  that no timestamp lies in the future (otherwise a token minted before the
  logout might count as later) and that after a quiet logout no refresh of the
  user is between its check and its SETEX (otherwise that SETEX would bring the
  key back). The second is where the code's race shows: it is what "quiet" means
  at the DELETE, it is preserved because `RefreshCheck` needs the stored key,
  and without it the property is false (run `auth_logout_refresh`).
- `LateLogoutRevokes`, from `RevokedInv`: for every entry ever written, the key
  still expires no earlier than that entry said, or its time is over. A token
  with `iat + AccessTTL < at + BlacklistTTL` is expired by then. No relation
  between the lifetimes is assumed; it is in the property.

`ShippingProofs`. The invariant adds to `TypeOK` and `PendingIsBlank` that a
decision in progress loaded a pending row and wants a decision: without it the
flush could write "PENDING" over a filled row. From it, each step maps to a step
of `DecisionLog` or a stutter (`ShippingImplementsDecisionLog`). The abstract log is
proved about where it is instantiated: `DecisionTypeCorrect`, and
`SettledDecisionsAreFinal`, an action property (a settled item can neither be claimed
nor be the item of a claim), are theorems about `Log!Spec`, and
`ShippingDecisionsSettle` follows from the refinement and the second.

`MentoringProofs`. The invariant adds that both members of a match are of its
union (`UnionsMatch`), and what each request in progress was checked for and still
holds (`RequestsChecked`): a match's union never changes, so the check made at the
load is good at the commit, which is `DecidersAreOfTheUnion`. The same clause
gives `PatchesMerge`: what a PATCH wants differs from what it loaded only in
fields it was sent, and `Flush` writes nothing else. `MentoringImplementsDecisionLog`
has one step per action; with the same two facts about the log, for its instance
here, it gives `MatchesSettle`. `RejectedStaysRejected` rewrites "settled" as "no
request in progress decides or tasks this match" and goes through the actions.

`DataUploadProofs`: the invariant says of each request that, if the row it loaded
tells one story, so does what it wants. A flush over an unchanged row leaves
exactly that (`OnlyOverlapsMix`). Lemmas about the three validation functions give
`ValidationConsistent`, which needs no overlap: the document is one column.

`UserSettingsProofs`: `TypeOK` is inductive; `MembersLinkOnce` and `FirstLinksStand`
follow from the two constraints in `CommitLink`; `DuplicatesOverlap` because a
request whose `seen` is still what is stored leaves one batch or none.

`ScenarioServiceProofs`. The invariant says what each phase knows of the table
(`Good`): a loaded row is, or was before its deletion, of the request's union, and
an answered row is stored. The table only moves on (`Follows`: rows are added,
renamed, deleted; unions and advice never change), and what a phase knows survives
that (lemma `GoodStays`). Each action is shown to be a `StepOf` one request, and
one lemma (`StepKeepsInv`) does the rest, including the cardinality of `conn`. The
theorems on answers, deletions, renames, unions and connections follow for any
number of requests, ids and connections.

`UserAccountsProofs`. `TypeOK` is not inductive: a commit writes a row that it
loaded, or a profile that it read, and these must still be there. `RowInv` adds that
(`RowsStay`; nothing deletes accounts) and that what a request wants of a profile
differs from what it read only in fields it was sent (`FieldsSent`), which is
`ProfilesMerge` at the commit. `PatchesAreAtomic` needs no more than `RowInv`: one
commit writes both tables. `LoginsStayUnique` needs the locks. `LoginInv` says that a
flushed INSERT's row is not there yet, that no two flushed requests have one row
(`LocksHold`), and that the login each of them leaves is that of no other row and no
other flushed request (`LoginsReserved`): the index is checked at the flush, and the
locks keep its answer good until the commit.

`UnionDataProofs`, about three modules without common state:

- `UnionWeights`. The body of a request in progress is balanced and a row that is
  unchanged since its load takes the whole of it; so a step that unbalances is over a
  changed row (`OnlyOverlapsUnbalance`).
- `Performance`. `AnalysisInv` keeps what each SELECT established for the later ones:
  a loaded row stays, so the latest month, the member's row and the history are true of
  every later table, and sets read later contain those read earlier
  (`AnalysesFitTogether`, `RefusedOnlyMidLoad`). `SuggestedAreBest`: a row left out has
  no higher score than one chosen, and a member left out has only rows left out; rows
  correspond to members one to one when each has one month. `HitRatesMatch` is that two
  nested floors are one. `AveragesAreMeans` adds up: the average of a group times its size is `Scale`
  times its sum, as `Scale` is divisible by the size; sums over disjoint groups add up
  to the sum over all members, sizes to their number.
- `Listings`. The invariant `WalkInv` counts positions among the rows the walk's filter
  selects. A row is lost when it is unseen and lies before the place where the next page
  starts; a page moves that place past rows it returns only (`PageTurned`), a dismissal
  brings one row of ACTIVE before it (`ActiveRowLeaves`), a row that comes under the
  filter none (`RowJoins`), except between a COUNT and its SELECT, where it makes the
  total too small by one. `FilterShape` says when the filter itself stays: a filter that
  is named never changes, an open one only to what is current, months only advance. So no
  more rows are lost than were moved, unless an open filter changed
  (`LossesAreExplained`; as the property says, for rows whose sort keys differ). Without
  arrivals, rows once seen stay before the place of the next page - after a change of
  the linked member also among the lands of each member, so that a link that changes
  back shows none again - and cannot come back (`RepeatsNeedArrivals`).

The library's induction theorems are out of reach, and the maximum of a finite set, and
what a sum over a set is (`MapThenSumSet` takes out one CHOOSEn element after another),
hold for all sizes only by induction. `UnionDataProofs` goes by a smallest
counterexample instead: among finite sets one has the fewest elements (`SmallestSet`,
from the library's well-foundedness of the naturals, which needs no operator as
a parameter). With it `SumsExist`, `SumRemove` (any element may be taken out first) and
`SumOfBoth` (disjoint sets add up) hold of every finite set.

Only model-checked: the liveness of `ScenarioService` (fairness is out of the prover's
reach) and the two counterexamples. TLC is also what shows the theorems not to be empty:
its runs reach the states they speak of, and a faulty form of some definition breaks
each property.

## 7. Not modelled, and why

- A report's download URL and its HMAC, the dashboard's summary cards, search, a
  land's detail, and lists without pages: single reads that change nothing.
- The formula of the simulation, and the wording of tasks, factors and advice:
  arithmetic and text without state.
- Celery, the Redis client's set-up, application wiring, configuration, error
  mapping, the empty audit package and the migrations (of which the unique
  indexes are used): nothing of them acts at run time.
- Password hashing, HMAC signatures and JWT signatures are taken to be what they
  claim: a token or URL that verifies was issued by this service.
- Requests that are refused (4xx) are steps only where they hold a connection or
  are waited for (`ScenarioService`, `Performance`); elsewhere they change nothing.
- Files under `/tmp` outlive no restart; uploads after a restart are not modelled.
- Whether the teardown commit of `get_db_session` runs before or after the
  response depends on the installed FastAPI version; the models speak of the
  database, not of the order in which clients learn about it.
