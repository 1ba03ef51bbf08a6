# TLA+ models of the Demo Player

Specifications, model-checking configurations and machine-checked proofs for
the C++ music server in `src/` and the web client it serves. A module names the
source it models in its header; `PROJECT.json` maps every definition to lines.

`include/Database.hpp` carries unresolved merge markers (lines 12-298). Both
sides declare the same members, and the models do not depend on the choice.

## The system

One server process. `main` loads the configuration, opens the MySQL pool,
installs the signal handlers and runs the reactor; the reactor hands
connections to a pool of worker threads; a worker runs one request from the
first byte read to the last byte written, through router, service, caches,
MySQL and the music API. Browsers run `web/js`: one thread each, with requests
whose answers come in any order.

| Component | State | Operations | Interacts by | Hard parts |
|---|---|---|---|---|
| MySQL pool (`Database.cpp`) | queue of handles, `is_initialized_` | `init`, `getConnection`, `releaseConnection`, `close` | mutex and condition variable among workers; calls to MySQL | wake-ups, lost handles in an outage, exit |
| Thread pool (`ThreadPool.*`) | task queue, `stop` | `enqueue`, worker loop, destructor | mutex and condition variable between reactor and workers | wake-ups, draining, join |
| Reactor (`Server.cpp`, `main.cpp`) | descriptors, `running_`, one event batch | `start`, `handleClient`, `stop`, teardown | epoll, sockets, signals, the thread pool | edge-triggered events, partial requests, signals between any two steps, order of destruction |
| LRU cache (`Cache.hpp`) | list, map of iterators | `get`, `put`, `remove`, `clear` | one mutex | two structures that must agree, eviction order |
| Lyric lookup (`MusicService.cpp`) | LRU tier, table `lyrics_cache` | `getSongLyric` | LRU, MySQL and API, unlocked in between | concurrent misses, failing saves, truncated answers, restarts |
| Accounts (`AuthService.cpp`, `Cache.cpp`) | codes, tokens, table `users` | send code, verify, register, login, refresh, reset | two mutexes and MySQL, unlocked in between | check-then-act, expiry, one-time codes, restarts |
| Favorites, playlists, history (`MusicService.cpp`) | tables | toggle, check, list, record | MySQL, one query at a time | check-then-act of the toggle, failing queries |
| API proxy (`ApiProxy.cpp`) | none | search, URLs, playability filter | libcurl | empty, partial and truncated answers |
| Recommendation agent (`AgentService.cpp`) | none | intent, song fetch | API proxy, an LLM | fallbacks, limits, duplicates |
| HTTP, router, JSON, configuration | none after start | parse, dispatch | function calls | - |
| Web client (`web/js`) | local storage, page, play queue, current song | login, refresh on 401, retry, logout, favorites, play | asynchronous HTTP | answers out of order, refresh and logout side by side, songs without a URL |

What makes them correct: a handle has one user and no worker sleeps beside an
idle one; a task runs once and the pool drains; a descriptor has one owner and
no pending connection is forgotten; list and map agree; the LRU tier is a copy
of the table; a code passes once, a name has one owner, a session lapses; a
click writes once and the page shows its own user; the song that plays is the
one the queue points at; no song is recommended twice. `PROJECT.json` lists the
hazards behind these by line.

## Modules

| Module | Models | Composes |
|---|---|---|
| `ConnectionAllocator` | what the MySQL pool promises (abstract) | |
| `DatabasePool` | the pool; a critical section that calls MySQL is split at the call and keeps the mutex | refines `ConnectionAllocator` |
| `TaskQueue` | tasks start in the order they came in, one worker each, none left behind (abstract) | |
| `ThreadPool` | the worker pool; `notify_*` and `join` outside the mutex are steps of their own | refines `TaskQueue` |
| `Server` | reactor, connections, `handleClient`, signals, teardown | extends `ThreadPool` |
| `RecencyCache` | least recently used, as an order on keys (abstract) | |
| `LRUCache` | list and map; every operation is one step under its mutex | refines `RecencyCache` |
| `Lyric` | `getSongLyric`, one step per access to a tier | extends `LRUCache` |
| `AccountRules` | what codes, names, passwords and tokens are good for (abstract) | |
| `Auth` | accounts, codes and tokens, one step per critical section or query | refines `AccountRules` |
| `Library` | the server's side of a signed-in user: token check, favorites, history, one step per query | |
| `Session` | the browser's side: interceptors, login, logout, reload, favorites, history | extends `Library` |
| `Player` | the browser's queue, modes, URLs, lyric and heart | |
| `ApiProxy` | the playability filter and the batch of URLs, as operators | |
| `Recommend` | the agent, `fetchSongsForIntent`, and the two routes that hand on a filtered list | extends `ApiProxy` |
| `*_proofs` (eight) | theorems about `DatabasePool`, `Server` (with `ThreadPool`), `LRUCache`, `Lyric`, `Auth`, `Session`, `Player`, `Recommend` | each extends its module; `Lyric_proofs` extends `LRUCache_proofs` |
| `MC*` (seven) | the instances TLC runs | |

`ThreadPool` and `LRUCache` have no run of their own: `Server` and `Lyric` run
every step of theirs that the program takes, and their invariants are checked
there. `remove` and `clear` of the cache have no caller in `src/`; only the
proofs about `LRUNext` reach them.

Actions have the names of the code's operations or steps. A worker's place in a
handler is `pc` (or `worker` and `step`, or `at`); the fields beside it are its
local variables. Variables marked *history* in a declaration record the past
for a property and never guard an action, except for the named bounds below.
Each module has a section of faulty variants: bugs such code may have, no part
of its specification, used to see that every property can fail.

Correspondence worth knowing:

- `DatabasePool.conn` is the local `conn` and then `ScopedConnection::conn_`. A
  failed reconnect sends the worker to `idle` with no handle, because every
  caller tests `isValid()` and gives up; that is where a handle is lost.
- `Server`: `Poll` takes all ready events at once, as `epoll_wait` does.
  `EndAccept` may end the accept loop with connections pending: any error breaks
  it. `Dispatch` has the branch where `stop()` has set `listen_fd_` to -1 and
  the listen event is taken for a client; the worker then finds the number
  closed (`ReadEnd`), or opened again by a handler for a file or socket of its
  own (`ReadOther`). Which of the two is not tracked, nor what happens to that
  handler. A request is none, a part or all of what the client sends; a handler
  may throw, which leaves its descriptor open for ever (`leaked`). The pool is
  destroyed after the singletons (`DestroySingletons` before `DestroyServer`).
- `Server.Runs` is what a worker does without waiting for anyone; `Handle` and
  `Write` need not happen, since `getConnection` waits without a timeout and the
  write loop for as long as the client does not read.
- `Lyric`: a lyric is its form (JSON of the API, or the bare text of the table)
  and how much of it there is (whole, cut, empty). `httpGet` returns what had
  arrived at its timeout and `json::parse` accepts it, hence *cut*. The LRU tier
  is keyed by the `song_id` string, the table by `std::stoll` of it: any number
  of ids may share a row (`Stoll`), and what is said of rows is said of numbers.
- `Auth`: `Matches(a)` is the `WHERE phone_email = a OR username = a` of the
  queries; `LIMIT 1` is a choice among them. A query that MySQL has run and
  whose reply is lost counts as failed, and the handler refuses.
- `Library`: login and refresh, in detail in `Auth`, are one step each, and
  `Lapse` is the expiry of a token or its loss in a restart. The refusal of a
  refresh has HTTP status 200 and another code in its body, so it is *refused*,
  not *unauthorized*. A failed `isFavorite` is taken for a no, and nobody looks
  at the results of the write that follows.
- `Session`: a slot of `Requests` is one promise chain of the page. A request
  that was sent again after a refresh resolves to the whole response object, in
  which its caller finds neither a code nor data (`Usable`). The refresh call
  goes around the interceptors; only when it fails as a call is the storage
  cleared. `Fail` is a broken connection or, for all but the refresh, the
  timeout: the server may never have seen the request, may have answered, or may
  go on with it.
- `crossed` in `Session` and `mixed` in `Player` record that the session
  changed under a request, and that calls of a kind overlapped. The code drops
  no late answer, so the properties that speak of the page except these cases;
  the exceptions end when the user chooses a song again (`mixed`), and at a
  logout with nothing under way (`crossed`).
- `Player`: `calls` counts the calls under way by kind and song, since two calls
  about one song cannot be told apart. `UrlAnswer` with no URL plays the song
  next to what the index is by then.
- `Recommend`: an intent is how many tracks and keywords it has and whether it
  has a summary; of the knowledge base only these numbers are kept. An answer of
  the API is any list of songs, and its URLs are for any of them, songs without
  an id included, or there is nothing at all.

## Runs

| Run | Instance | Shows |
|---|---|---|
| `pool` | 4 workers, 3 handles, pool of 2 | handles exclusive, no lost wake-up, capacity lost only in an outage, service while a handle is left, refinement of the allocator |
| `pool_outage` | same | *violated*: after an outage in which each handle failed one reconnect, nobody is served although MySQL is back |
| `reactor` | 2 workers, 2 connections, which with the listen event make 3 tasks | each queued task has a worker awake or about to be, refinement of the queue of tasks, draining; one owner per descriptor, pending connections announced; readable and dispatched ones are closed or get to a handler as long as some worker keeps coming back from its handlers and clients; stop ends as long as all do |
| `reactor_body` | same | *violated*: a body in a later segment is never read |
| `reactor_shutdown` | same | *violated*: handlers run after the singletons are destroyed |
| `lyric` | 2 threads, two ids of one row and one without, room for 2 | list and map agree, recency order; the LRU tier is a copy; the tiers agree and clients are told what is stored, unless a save fails, requests for a row overlap or one overlooks a row that is cached under another id; rows replaced only unseen |
| `lyric_tiers` | same | *violated*: the MySQL tier answers in another shape |
| `auth` | 2 threads, 2 names, 2 targets (one is also a name), 2 passwords, 1 code, 3 calls, time 0..2 | refinement of the rules of accounts, codes once and in time, names keep their owner, sessions lapse |
| `auth_reset` | same | *violated*: success for a target nobody has |
| `session` | 2 requests, 2 users, 1 song, tokens issued twice, 3 clicks | a click writes once; tokens and lists are of the page's user unless the session changed under a request; a toggle turns its row over unless one of its queries failed or another overtook it |
| `player` | 3 songs, 3 lists (one with a song twice, one that mixes songs with and without a URL), 4 clicks, 1 failure | what plays is where the queue points, the panel shows its lyric and heart, skipping ends |
| `recommend` | 5 songs: 4 with an id, 2 charged for; 2 songs an answer, 3 tracks, 2 keywords | no song twice, tracks before top-ups and at most the limit, songs of one search linked all or none |

Bounds. The pool's workers outnumber its handles by two, so that some sleep
while others hold, and one handle is spare for the exchange at a reconnect. In
`Server` every connection lives once; two of each give one worker per
connection and a worker left over for a stale event. Three songs and room for
two make `lyric` evict, and make the order of the two that stay matter; one row
is enough for what happens between tier and table, which is separate for each
row, and two ids for what its ids do to each other. `MaxCalls` and `MaxTime` of `Auth` bound requests and
clock: three calls are enough for a code to be sent, spent and tried again, and
for two registrations to race; two ticks take a token past its time. Three
clicks in `session` are a login, another click that needs the token, and a
logout, reload or second toggle beside it; two issues of tokens are the login
and one refresh, or a second login of the other user. Four clicks in `player`
let three choices overlap and a toggle fall between them; one failure is enough to
set a skip off where none was due. The limits 5 and 8 of `fetchSongsForIntent`
are 3 and 4 in `recommend`, so that four songs reach them; the loops count the
same way.

Symmetry: threads and the two ids of the row of `lyric`, threads and passwords of
`auth`, requests and users of `session`, free and charged songs of `recommend`.
No liveness is checked in these. Deadlock checking is off in the `reactor` runs,
because the program ends, and in `session` and `player`, because the user stops
at the bound on clicks.

Fairness. Weak fairness of each thread that is inside an operation: the
scheduler runs every thread, and mutexes are held for a bounded time. No
fairness of calls, clients, signals, spurious wake-ups, outages or restarts:
they may never happen. `Server` has weak fairness of the reactor and of `Runs`,
none of `Handle` and `Write`: a handler may sleep in `getConnection` for ever
(`pool_outage`, or a pool that was closed), and a client may neither read nor
leave. Its liveness properties are conditional instead. `ReadableIsServed` and
`DispatchedIsServed` hold of behaviours in which some worker leaves its handlers
and clients again and again, `StopEnds` of those in which every worker does; and
the first two only bring a request to a handler (`Attended`), since nothing says
that it is answered. `Player` assumes that every call for a URL is answered or
fails, which the ten seconds of `api.js` give. No liveness of `Lyric`, `Auth`,
`Session` or `Recommend` is claimed.

`SkippingEnds` is about a queue with a playable song and an order that is not
random. Without a playable song `playMusic` and `playNext` call one another for
ever; in random order they may do so.

## Where code and words disagree

`pool_outage`, `reactor_body`, `reactor_shutdown`, `lyric_tiers` and
`auth_reset` each check one statement of a comment, message or document and end
in a counterexample; the findings in `PROJECT.json` quote them. Beside these:
`README.md:20` says the LRU cache expires its entries, which it does not, and
the hash of the administrator in `sql/init.sql` is not the one
`AuthService::hashPassword` computes.

## Proofs

Every invariant, action property and refinement that a passing run checks is
proved for all values of the constants. Each safety proof has the same shape: an
inductive invariant that strengthens the checked ones, a lemma that the initial
states have it, one or several that each action preserves it, and theorems that
draw the properties from it.

`DatabasePool_proofs`, for any finite sets of threads and handles and any pool
size the handles allow:

- `PoolSafety`, `PoolTypeCorrect`, `PoolHandlesExclusive`: `NoLostWakeup`,
  `TypeOK` and `ExclusiveHandles` always hold. None is inductive alone.
  `NoLostWakeup` counts queued handles against workers on their way to take one;
  a `Take` removes one of each, a `Release` adds a handle and wakes a sleeper,
  and the argument needs that a queue entry is distinct and that workers hold
  handles only where `pc` says so, which `PoolInv` adds.
- `PoolShrinksOnlyInOutage`: `CapacityOnlyLostInOutage`. The lemma
  `CapacityStep` says by how much each action moves the number of handles in the
  queue and with workers.
- `PoolRefinement`: the pool implements `ConnectionAllocator` under the mapping
  at the end of `DatabasePool`; each action maps to an action of the allocator
  or leaves its variables alone.

`Server_proofs`, first about the pool: `ThreadPoolSafety`, that typing,
`EveryTaskHasAWaker`, `StartedInOrder` and `DrainsBeforeExit` always hold, for any
finite non-empty set of workers and any tasks. The strengthening says that a
worker is running exactly while it has a task (`Busy`), ties `stop` to the
destructor's progress, and leaves nobody waiting once the destructor joins.
`ThreadPoolRefinement`: the pool implements `TaskQueue`, whose queue is done when
the destructor is; that an exit finds the queue empty and no task running is what
`DrainsBeforeExit` and `Busy` are needed for. It implies the order of starts.

Then about the server, for any finite set of connections. `ServerStepsPool`
shows that each step of the server is a step of the pool or leaves it alone, so
the pool's theorems carry over (`ServerTasksHaveAWaker`, `ServerStartsInOrder`,
`ServerDrains`, `ServerRefinesTaskQueue`). `ServerInv` adds where each descriptor is: nowhere in the pool,
at one index of the queue, or with one worker (`InPool`); `OneOwner`,
`PendingIsAnnounced` and `TypeOK` follow (`DescriptorsHaveOneOwner`,
`PendingConnectionsAreAnnounced`, `ServerTypeCorrect`).

`LRUCache_proofs`, for any keys, values and positive capacity:

- `LRUSafety`: the map knows exactly the keys of the list, each once, and the
  list stays within the capacity. The invariant is inductive as it stands; the
  work is in two lemmas on sequences, `RemoveNode` and `AddNode`, which say what
  taking a node out and putting one in front do to a list's keys.
- `LRUEvictions`: a step that drops a key clears the cache, erases that key, or
  puts a new one into a full cache and drops the last node's key alone.
- `LRUImplementsRecency`: list and map implement `RecencyCache`; the same
  lemmas say how the order of the keys changes.

`Lyric_proofs`, for any threads, song ids and capacity, and any number of ids to a
row, on top of these. A step of `Lyric` is a step of the cache or leaves it alone,
which gives `LyricCacheCoherent`, `LyricEvictions` and `LyricRefinesRecency`.
`LyricInv` says what a thread carries between two tiers (`Carries`), and of a row
that no two threads looked for at once (`LoneMiss`): at most one thread is past
the LRU tier for it, what that one is about to cache is the row's lyric, and
while it fetches a new one, no id of the row is cached. With these
`CachedIsStored` and `TiersAgree` are inductive (`LyricsCachedAreStored`,
`LyricTiersAgree`). `ClientsAreToldWhatIsStored` takes one step for each way out of `getSongLyric`; `RowsReplacedOnlyUnseen` and
`LyricTypeCorrect` follow.

`Auth_proofs`, for any threads, names, targets, passwords, codes and times to
live. What a thread has read may be stale when it acts on it; `AuthInv` says
what of it cannot be: rows are never deleted, the login a refresh token goes
back to never changes, and a code has one time of sending. From it
`AuthTypeCorrect`, `SessionsLapse`, `TokensNameTheirUsers`, `CodesSpentOnce` and
`NamesKeepTheirOwners`. `AuthRefinement`: the handlers implement `AccountRules`.
A thread's place and arguments give its permit and its identity (`Permit`,
`Identity` at the end of `Auth`); each query or hold of a mutex is one of the
rules or changes nothing they speak of, and a refused request drops its permit.

`Session_proofs`, for any requests, users, songs and bounds. `SessionInv` says
what each request is at its place in the server and on the page (`Requested`),
and in whose name it speaks while the session has not changed under it (`Own`);
neither `OneEffectPerClick` nor the two properties of the page is inductive
without it. `SessionTypeCorrect`, `ClicksWriteOnce`, `StoredTokensAreOwn`,
`PageShowsItsUser`; `TogglesTurnOver` adds `RowsSeen`, that what a toggle read
is still in the table unless its `trouble` says otherwise.

`Player_proofs`, for any songs, lists and bounds. `PlayerInv` says that without
overlap at most one call of a kind is under way, and about which song (`OneURL`,
`OneLyric`, `OneHeart`). `PlayerTypeCorrect`, `PlayerPlaysWhereItPoints`,
`PlayerPanelFollows`.

`Recommend_proofs`, for any songs and lists of the API, any intent and any
limits. `RecommendInv` adds how many songs there are at most when a search for a
track begins (`TracksSoFar`), what is known of the candidates of the last search
and of the songs already taken from it (`Candidates`, which rests on
`FilterUniform`, the lemma about the playability filter), and that keywords come
in only below the limit (`TopUps`). `RecommendTypeCorrect`, `NoSongIsTakenTwice`,
`TracksComeFirst`, `SearchesAreLinkedAllOrNone`.

The assumptions on constants are the `ASSUME`s of the modules, named
`PoolAssumption`, `ThreadPoolAssumption`, `ServerAssumption`, `LRUAssumption`,
`LyricAssumption`, `AuthAssumption`, `LibraryAssumption`, `SessionAssumption`,
`PlayerAssumption`, `ApiAssumption` and `RecommendAssumption`: sets that are finite where the code counts, special values
that are no members of the sets beside them, bounds that are numbers, at least
one worker, and room for one entry in the cache.

Only model-checked: liveness (`ServesWhileAHandleIsLeft`, `ReadableIsServed`,
`DispatchedIsServed`, `StopEnds`, `SkippingEnds`), which like `ENABLED` is out of
the prover's reach. The filter of `ApiProxy` is written as the one rising
numbering of the positions it keeps instead of the recursive `SelectSeq`, so that
it can be reasoned about without induction over lists. `FilterUniform` says what
every such list is like, and `FilterIsTheLoop` that there is exactly one for each
answer and that it grows as the code's loop over the songs does: empty for no
songs, and one song longer or the same for one more.

## Not modelled

- The playlists of users: each route is one query over one table, which the web
  client never calls; `addSongToPlaylist` has no caller.
- Hot playlists, suggestions and categories: the API's answer, handed on.
- HTTP and JSON as text beyond the token check and what the lenient parser makes
  of a cut answer; routing and configuration, which are fixed before a thread
  starts; hang-up events without `EPOLLIN`, and `EINTR`.
- Exit with workers asleep in `getConnection`: `~DatabasePool` then destroys the
  condition variable they sleep on, and what follows is undefined.
- Zero workers or an LRU capacity of zero: nothing checks the configuration, and
  the assumptions exclude them.
- Of the client: volume, progress, tabs, search boxes, the model settings;
  registration and codes, whose server side is `Auth`. Page, styles, images, the
  load generator and the build.

What could still be added: `Server` composed with `DatabasePool`, for requests
that wait for handles while the queue of tasks grows.
