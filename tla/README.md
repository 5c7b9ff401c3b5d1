# openfsd: a verification development

TLA+ modules of [openfsd](../src), a server for the FSD protocol that flight
simulator pilots and controllers connect to, and of its web interface, with
model-checking runs and proofs. Every definition is translated from the source,
Go on the servers and JavaScript in the browser; `PROJECT.json` names the lines
each one stands for.

| module | what it is |
|---|---|
| `PostOffice` | sessions, locks, queues, spatial index of the FSD server: the core |
| `Presence` | what the core promises to the clients: who is told of whom, and when |
| `MetarService` | weather requests: one channel, some workers, the clients' queues |
| `Boot` | an FSD server's start: migrations, first administrator, defaults, listeners |
| `UserStore` | accounts and the web requests that write them |
| `WebSession` | tokens in the tabs of a browser and the handlers that sign and check them |
| `UserEditor` | the page that creates and edits accounts, and its handlers |
| `ConfigEditor` | the page that edits the configuration, and its handlers |
| `Dashboard` | the map, the datafeed behind it, and the kick across two servers |

`XMC` holds the instances of `X` that TLC checks (`X*.cfg`), `XProofs` its
theorems.

## The system

Two processes share a database. The **FSD server** (`fsd/`) keeps all its state
in memory; the **web server** (`web/`) serves an HTTP API, asks the FSD server
who is online, and forwards kicks to it. The **scripts**
(`web/static/js/openfsd/`) run in browsers and hold the rest of the state: tokens
in `localStorage`, forms, markers.

| component | state | operations | talks to |
|---|---|---|---|
| post office (`fsd/postoffice.go`) | `clientMap` (callsign to client), `tree` (R-tree of boxes), one `RWMutex` each | `register`, `release`, `updatePosition`, `search`, `all`, `send`, `find` | every connection; callbacks run with the read lock held |
| connection (`fsd/conn.go`, `fsd/client.go`) | login data, `ctx`, `sendChan` (32 packets), position | `handleConn`, `eventLoop`, `senderWorker`, `send` | two goroutines per client; post office; socket |
| handlers (`fsd/handler.go`, `fsd/util.go`) | flight plan, beacon code, SendFast mode, facility type | one per packet type | own queue, other clients' queues, their contexts (kill) |
| FSD HTTP service (`fsd/http_service.go`) | none | `handleGetOnlineUsers`, `handleKickUser` | post office, from gin's goroutines |
| METAR service (`fsd/metar.go`) | request queue (128), workers | fetch and answer | event loops put, workers take; clients' queues |
| VATSIM authentication (`fsd/vatsimauth.go`) | `init`, `curr`, client id | challenge and response | own connection only |
| packet codec (`fsd/packet.go`) | none | type, fields, source check | event loop |
| start and stop (`fsd/server.go`) | listeners | migrate, first administrator, defaults, listen | database |
| user accounts (`web/user.go`, `db/user_*.go`) | table `users` | create, read, update, verify a password | web API, FSD login |
| configuration (`web/config.go`, `db/config_*.go`) | table `config`, the JWT secret with it | get, set, set if absent, reset of the secret | everything that signs or checks a token |
| tokens (`web/auth.go`, `web/api_tokens.go`, `fsd/jwt.go`) | none: claims and expiry travel in the token | issue, refresh, check | users, configuration |
| datafeed (`web/data.go`) | one cached answer | fetch every 15 s, serve | FSD HTTP service |
| kick (`web/fsdconn.go`) | none | forward and answer | FSD HTTP service |
| session scripts (`api.js`, `login.js`) | `localStorage`, shared by all tabs | API call, refresh, login, logout | token handlers |
| user editor (`usereditor.js`) | three forms | search, edit, create | user accounts |
| configuration editor (`configeditor.js`) | inputs, added rows | load, save, reset of the secret, API token | configuration, tokens |
| dashboard (`dashboard.js`) | markers, popup, count | fetch every 15 s, kick | datafeed, kick |

What is hard here:

* **locks held across blocking calls.** `all` and `search` call `client.send`,
  which waits for room in another client's queue, inside a read lock; a writer
  that waits behind them bars new readers.
* **a session is two goroutines and three deferred calls**, ended by a closed
  socket, a cancelled context or a failed write, in any order.
* **identity and reuse.** A callsign is free again the moment `release` is over;
  other goroutines may still hold the old `*Client`.
* **read, then write, without a transaction** in the web API.
* **several steps of which one fails**: first start, multi-key configuration,
  a kick across two servers.
* **an await is a gap.** A script goes on with a form, a map or a stored token
  that the user, a timer or another tab has changed since; answers come in any
  order, or not at all.

What makes the components correct:

* post office: one session per callsign, the indexes equal to the set of
  sessions, iterations that never meet a released session, locks that are given
  back and never waited for with another in hand;
* connections: no client believes in a client that is gone, two clients online
  know of each other, whoever is cancelled leaves, nobody waits for good (with
  three sessions the code does not keep that: finding 3);
* accounts: fields change only by a request that provides them, and replaced
  passwords stay dead;
* METAR: every accepted request is answered or its client is cancelled, and clients
  that do not read hold up nobody else;
* start: a server that runs has every table, every default and an administrator,
  wherever earlier starts were cut off, and no fault loses the administrator's
  password but one between the account and its log line (see the departures);
* tokens: after a reset of the secret no session begun before goes on, a
  token's user is the one who is logged in, every call ends;
* editors: no account, no key gets what was typed or read for another; success
  is said only of what was done;
* dashboard: what is shown was true together at some time, and becomes true
  again.

The hazards, line by line, are in `PROJECT.json`, each with the properties that
cover it or the reason why none does.

## PostOffice

**State and code.** A member of `Client` is one run of `handleConn`. `pc` is
where its goroutine stands; `clientMap`, `tree`, `ctxDone`, `closed`, `pos` are
the fields of those names (`ctxDone` is `client.ctx`, `pos` the box of `latLon`
and `visRange`). `readers` and `writer` are the two `RWMutex`es: `Lock` first
sets `writer`, which stops new readers, then waits for the readers to leave, as
`sync.RWMutex` does. `backlog` is the length of `sendChan`, `sender` the state
of `senderWorker`, `peer` the far end of the socket. `todo` and `at` are the
recipients an iteration has left and the one in hand, or the session a lookup
found. `told` is a history variable: whom each client has been told of in an
add packet and not yet in a delete packet.

**Steps** are cut where another goroutine can come in between: a lock taken or
given back, a channel or socket operation, a read of shared state after a lock
is dropped. `handleConn` is `Login`, `RegisterLock`, `Register`, `IndexLock`,
`Index`, `Motd`, `AnnounceLock`, `Deliver`..., `AnnounceDone`, the event loop,
and the deferred calls `DepartLock`..., `UnindexLock`, `Unindex`,
`UnregisterLock`, `Unregister`, `Close`. A packet (`Dispatch`) starts one of
the kinds of handlers, which stand for all of them:

| kind | handlers |
|---|---|
| `broadcast` | text to all, to controllers or supervisors; flight plans (a filter decides who gets it: `Audience`) |
| `range` | text, queries and fast positions to whoever is in range |
| `position` | `handlePilotPosition`, `handleATCPosition` |
| `send` | whatever has one recipient (`sendDirectOrErr`) |
| `reply` | answers and errors to the sender |
| `delete` | `handleDelete` |
| `kill` | `handleKillRequest` |
| `revoke` | `handleATCPosition` with a facility the rating does not allow |

`Presence` is the specification of what clients see, without locks, queues or
contexts; `ImplementsPresence` is the refinement, with `clientMap` as the
holder of callsigns and `ctxDone` as deafness.

**Abstracted.** Positions are boxes, related by `InRange`; packets are counted,
not kept (no property depends on their text, and `told` records the two kinds
that matter at the time they are queued); the login exchange succeeds or fails
in one step; geometry, parsing and rendering are left out.

### Runs

| run | instance | shows |
|---|---|---|
| `namesakes` | 3 sessions, 2 after one callsign, 1 packet that moves its sender, is ranged, direct or refused, an HTTP kick, a peer that vanishes, welcome message may fail | `RegistryExact`, `ScanStable`, `PresenceAccurate`, `ImplementsPresence` |
| `pair` | 2 sessions, all kinds of handlers, kill requests, a peer that stalls, resumes or vanishes, fairness | `TypeOK`, `IndexExact`, `LockDiscipline`, `MutualAwareness`, `QueueHasConsumer`, `CancelledLeaves`, `GoneLeaves`, no deadlock |
| `wedge` | 3 sessions, 2 broadcasts, fairness | finding 3 |

**Bounds.** `SendChanCap` is 1 where the code has 32: what matters is a queue
that has room, is full, and drains; 32 only makes the full queue 31 packets
rarer. Two sessions give every pairwise race; the third in `namesakes` is needed for a
namesake to arrive while its predecessor's goodbye is on its way to someone
else, and the third in `wedge` to wait for the write lock between a broadcaster
and a client that is logging in. `CancelledLeaves` and `GoneLeaves` hold with two
sessions. With three they do not, for a session whose `release` waits for a lock
that such a cycle of waits keeps; that no announcement hangs is therefore not
claimed anywhere, and `wedge` shows why.
`PacketBudget` bounds packets per session, `Leaver`, `Staller`, `Kickable` and
`Supervisor` who may do what, so that each run spends its states on its own
question. Two boxes that do not intersect are enough to enter and leave range.

**Deadlock** is checked in `pair`; `Quiet` marks the states where the server
may rest: every session at its `Scan` or closed, every sender in its `select`.
It is off in `namesakes` and `wedge`, where the system really may stop (finding 3
and the first of the departures). `pair` has `MotdMayFail = FALSE` and two
sessions, with which it cannot.

**Fairness.** `Spec` has none. `ServerSpec` adds strong fairness of each
goroutine (`Handler`, `SenderWorker`) and weak fairness of the second half of a
kick. Go's scheduler runs every goroutine that can go on; `RWMutex` admits the
waiting readers at an `Unlock` and serves writers in turn; `select` chooses at
random among ready cases. A goroutine that waits for a lock or for queue room
is enabled again and again rather than always, hence strong. `FairSpec` adds
that a peer that stalls reads again or goes away, which the code does not
enforce: without it a killed session whose peer never reads stays. Nothing makes a client
send, so `Dispatch` and `LineTooLong` have no fairness.

## UserStore

A `Request` is one HTTP request. `createUser` is one statement. `updateUser` is
two: `ReadUser` (read the row, compare ratings, fill the copy) and `UpdateUser`
(hash, write all columns); any other request may come in between. A password
column is a plaintext and the number of times it was hashed: bcrypt output is
told apart by nothing else, and a password verifies against one round over
itself. `given` is a history variable: the values last provided for each
account. An empty password is provided and has no effect, as in the code; one
with a colon is refused. Every request provides a rating (the binding has
`min=-1` without `omitempty`, and the editor page always sends one), so updates
without a rating are outside the model. One name stands for the two.

| run | instance | shows |
|---|---|---|
| `edits` | 2 requests, 2 accounts, 3 passwords (one refused), 2 names, 3 ratings | `TypeOK` (rows hold hashes only), `ReplacedPasswordDead` |
| `rehash` | 1 request | finding 1 |

Two requests are enough to overlap a read with a write; the theorem covers any
number. A request runs once, so the model ends (`AllDone`).

## MetarService

An event loop that handles a METAR request waits in the `select` of
`fetchAndSendMetar` for room in `metarRequests` or the end of its context
(`FetchAndSendMetar`, `GivesUp`); a worker takes a request (`Take`), fetches
(`Get`) and sends the report or an error packet, which waits for room in the
client's queue or the end of its context (`SendAnswer`, `SendGivesUp`).
`OtherPacket` is everything else that is queued for a client. `owed` is a history
variable: the requests whose answer has not been given to `send`. Locks are
`PostOffice`'s and play no part here. The workers' return at shutdown is left
out: the process ends with it.

| run | instance | shows |
|---|---|---|
| `metar` | 2 clients, one of which may stall, leave or be kicked, with 1 and 2 requests; 2 workers; channels of 1; `ServerSpec` | `TypeOK`, `EveryRequestAnswered`, `RequestsEnd`, `OthersServed`, no deadlock |

Channels of 1 stand for 128 and 32, as in `PostOffice`. There are more requests
than workers, so the channel fills and event loops wait for the workers to take
from it; a loop that waits while both workers are held as well would need a
fourth request, which makes the run too long. The client that stalls
has one request, one fewer than there are workers: nothing in the code promises
`OthersServed` when clients that never read hold all of them.
**Fairness**: goroutines go on; a channel serves those who wait in turn (strong
fairness of the steps that contend for room). That `Get` ends is an assumption:
`http.Client{}` has no timeout. `RequestsEnd` has as its premise that no peer
stalls for good; `OthersServed` needs none.

## Boot

`pc` is how far `NewDefaultServer` has come: migrating the database
(`ReadVersion`, then `MarkDirty`, `ApplyMigration` and `ClearDirty` for each of the
two migrations), looking for CID 1 (`CheckAdmin`), creating the account
(`CreateAdmin`), logging its password (`LogCredentials`), writing the defaults one
statement at a time in any order (`SetIfNotExists`, as Go's maps are iterated),
then `Run` with a listener for each address. The migration library keeps
`version` in the database and is external; its statements are modelled because a
start may be cut off between them. A lock on the database during the migrations
is not assumed (SQLite's is a flag of the process), so two servers may migrate at
once, and one of them fails at a table that is there already. Migrations are on,
as in `docker-compose.yml`; a server with them off starts, on a migrated
database, like one that finds nothing to do. Of the accounts only their number
is kept, since CIDs are given in order; `lost` is history, the accounts whose
server fell before the log line. `Fails` is a statement that returns an error, at
which `main` panics, or a kill between two statements. `AdminSet` is the web
server writing a key meanwhile.

| run | instance | shows |
|---|---|---|
| `boot` | 2 servers on one database, new or migrated, 2 addresses, 2 keys, 4 faults; `LiveSpec` | `TypeOK`, `RunningIsSetUp`, `AdminsBounded`, `CredentialsShown`, `StartKeepsConfig`, `StartServes`, no deadlock |

Two servers are enough for both to find no CID 1 and to meet in the migrations;
four faults cut off each of them twice, or close both addresses and cut off two
starts besides. `AdminsBounded` says what the check in front of the insert still
guarantees although the two are separate statements. `CredentialsShown` says
which faults lose a password: a fall between the commit and the log line, and no
other; that one is among the departures. `StartServes` has as its premise that no dirty mark stays behind for good:
a mark that does makes every later start return an error (see the departures).

**Fairness**: a server that is down is started again (`docker-compose.yml` has
`restart: unless-stopped`) and goes on unless killed. Faults are finitely many
(`MaxFault`), which is what "after the last fault" means.

## WebSession

The tabs of one browser share `stored`, its `localStorage`. A JavaScript turn,
from one `await` to the next, is one action: `Call` (`doAPIRequest` up to its
first wait, with `getAccessToken`), `RefreshDone`, `Settle`, `Login`, `LoginDone`,
`Logout`. On the server `RefreshCheck` and `RefreshSign` are the two halves of
`refreshAccessToken`, `Bearer` is the middleware, `Load`, `ResetSecretKey` and
`CreateNewAPIToken` are handlers behind it. The secret is a number, its resets
counted; a token says which secret signed it and, as history (`began`), how many
resets there had been when the first tokens of its session were signed. A login
verifies the password in one step (`VerifyPassword`) and reads the secret and
signs in the next (`MakeAccessRefreshTokens`). `Lost` is
what an exception inside the promise's executor does: nothing settles, and the
tab leaves for the login page.

| run | instance | shows |
|---|---|---|
| `session` | 2 tabs of one user's browser, 1 reset, tokens that expire; `LiveSpec` | `TypeOK`, `SessionsEndAtReset`, `FreshOnArrival`, `CallEnds` |
| `session_current` | 2 tabs, 2 users | finding 2 |

The margin (15 s) is two units of time, so that time passes between a call and
its arrival; an access token lives two, so that it is refreshed after one, and a
refresh token four, so that it is given up after three (`MaxTime`). The theorems
have any lifetimes. **Fairness**: the steps of browser, network and server for a call
that is under way; a browser ends a request sooner or later.

## UserEditor

A page has an edit form and a create form, searches on their way (`asked`) and
back (`found`), an edit (`sent`) and a create (`creating`) under way. Handlers
read their form when submitted (`EditSubmit`, `CreateSubmit`, `SearchSubmit`) and
go on with whatever it is when the answer comes (`SearchDone`, `CreateDone`).
Typing may come in between; a text below the field's `minlength` (`Short`) is not
submitted. `typedFor` and `known` are
history: for whom the password in the form was typed, and which ratings a user
had or was given. No page loads `usereditor.js`: `usereditor.html` repeats it in
line, with one difference (see the departures).

| run | instance | shows |
|---|---|---|
| `editor` | 1 page, 1 user and room for another, 2 searches at once, 3 ratings with 0, creates with 2 | `TypeOK`, `PasswordForItsUser`, `RatingOfItsOwn` |

Two users and two searches are what a mix-up needs; the theorems have any number
of users, pages and searches.

## ConfigEditor

`handleGetConfig` reads and `handleUpdateConfig` writes a key per statement
(`Get`, `Set`), so loads and saves of several pages interleave key by key. A
page shows inputs by key and rows it has added; a save collects inputs first,
then rows (`Pairs`); which of them is `Picked`, a selection by position that
needs no recursion, so that it can be proved about. A load is not awaited: it
fills the form whenever it is answered (`LoadDone`). A value becomes part of HTML
there, in `value="..."`, as it is (`configeditor.js:73`). `Altered` are the texts
that this changes: those with references such as `&amp;`, which are decoded, and
those with a quote, after which further attributes are read. `Forms` leaves open
what the inputs hold once such a value has been read, and for which keys.

| run | instance | shows |
|---|---|---|
| `config` | 2 pages, 2 keys of which one is in the table, 2 added rows each, 4 edits altogether, no altered text | `TypeOK`, `ValueOfItsOwn`, `SuccessMeansSet`, no deadlock |

Two of the code's six keys are enough for one to get the value of another; all
are treated alike. Four edits (`MaxEdit`) add two rows, choose a key in each, or
type into inputs on both pages between their saves. `ValueOfItsOwn` has as its
premise that nobody has set an altered text: with one the code does write the
value of one key to another. `SuccessMeansSet` has none: it is about what the
form shows, whatever that is. The run has no altered text; the theorems have any.

## Dashboard

`online` is the FSD server's map of clients; the worker asks for it
(`GetOnlineUsers`), then replaces `cache` (`UpdateDataFeedCache`); the page's
fetches read `cache` (`GetDatafeed`) and redraw (`PopulateDone`: popups noted,
markers removed, added and counted, popup reopened, in one turn). Fetches
overlap and fail anywhere. The kick is a request to the web server (`kick`),
which makes another to the FSD service (`service`); either may be lost before or
after it took effect. The service finds the session under the map's lock
(`FsdFind`) and cancels its context after it has given the lock back
(`FsdCancel`); in between the session may end, be cancelled by somebody else, or
its callsign be taken over (`target`). `past` is history: the sets of clients
there were.

| run | instance | shows |
|---|---|---|
| `map` | 1 pilot, 1 controller, 2 joins, 2 fetches at once, a supervisor who kicks; `LiveSpec` | `TypeOK`, `OneMarkerEach`, `MapWasTrue`, `SuccessMeansCancelled`, `PopupKept`, `MapCatchesUp`, no deadlock |

Two joins let a pilot leave and come back, so that a kick meets nobody, the
session that was shown, or the next one, and cancels one that has left. The
theorems have any number of clients, joins and fetches. `SuccessMeansCancelled`
is about the context, not about the end of the session: a success is also said
of a session that ended by itself or was cancelled before, and a cancelled
session whose peer does not read stays (`CancelledLeaves` of `PostOffice` says
when it ends).

**Fairness**: the two timers go on; every request ends (for the worker an
assumption: its `http.Client{}` has no timeout), and one that is repeated every
15 seconds succeeds some time. `MapCatchesUp` also supposes that the page got
past `loadUserInfo`, whose failure nothing catches.

## Findings

1. **Saving an account without a new password changes the password**
   (`rehash`, `web/user.go:110`). The hash that was read is taken for a plaintext
   and hashed again.
2. **A refresh answered late brings a former user's token back**
   (`session_current`, `api.js:45`). Another tab has logged in meanwhile.
3. **A client that is logging in can stop the server** (`wedge`,
   `fsd/conn.go:83`). Nothing drains its queue before `eventLoop`. A broadcaster
   blocked on that queue holds the read lock, a login waits for the write lock,
   and the client's own announcement, which comes before `eventLoop`, waits
   behind it. It takes 32 packets queued in that window; the run has a queue of 1.

## Departures seen while modelling

Most of these are behaviours of the modules as well, though no run singles them
out; where an instance leaves one out, its section above says so. The password
meter and the Postgres statement are not modelled.

* `fsd/conn.go:78`: when the welcome message fails, `handleConn` returns with the
  client in `clientMap`, its context alive and no `senderWorker`. A broadcaster
  that finds its queue full keeps the read lock, and `release` waits for it for
  good, as in finding 3.
* `fsd/server.go:73`: the administrator's account is committed before its password
  is logged (`server.go:84`). A server killed in between finds CID 1 when it
  starts again and prints nothing: it runs with an administrator whose password,
  random and stored as a hash, is in no log, although `README.md:44` says
  "printed in the FSD server logs on first startup". `CredentialsShown` says that
  this is the only way to lose one.
* `fsd/handler.go:429`: a killed client whose peer does not read stays, its
  `senderWorker` inside `conn.Write`, its `eventLoop` inside `Scan`.
* `fsd/http_service.go:173`: a kick is answered 204 when the session's context is
  cancelled, also if it was so before or the session has ended by itself.
* `db/migrations.go:51`: a start killed between the mark of a migration and its
  clearing leaves `schema_migrations` dirty, and every later start returns an
  error until somebody clears it by hand; `restart: unless-stopped` does not help.
  Two servers that migrate one SQLite database together can leave it so too.
* `web/user.go:110`: of two overlapping updates the later write restores what
  the earlier one changed: name and rating as much as the password.
  `ReplacedPasswordDead` is about the password only.
* `web/auth.go:36`: a login verifies the password before it reads the secret
  (`auth.go:266`), so one that a reset overtakes goes on after it. What the model
  calls the beginning of a session is the second.
* `web/api_tokens.go:47`: an API token requested before a reset of the secret may
  be signed after it.
* `web/user.go:143`: `required` refuses rating 0 in a create, which
  `web/README.md:233` and the form offer.
* `usereditor.js:100`: the meter has `=== 8` where the copy in `usereditor.html`
  has `>= 8`, and calls a longer password weak.
* `configeditor.js:164`: an older load may overtake the reload after a save, and
  the next save writes the older values back. `ValueOfItsOwn` allows it: they
  are the key's own.
* `configeditor.js:73`: a value is not escaped on its way into the form, so what
  is saved again may be another text, and for another key (`Altered`). A value
  that makes the script itself fail (a key without a label) is left out.
* `web/fsdconn.go:41`: a kick whose request to the FSD service fails is answered
  200 with an empty body.
* `dashboard.js:124`: the number of "users connected" is that of the pilots.
* `fsd/server.go:157`: a listener that failed is not reported while another one
  is open.
* `db/user_postgres.go:27`: the INSERT has five placeholders for four columns.

## Proofs

For any sets of sessions, callsigns, boxes, tabs, pages, users, servers and
keys, any capacity, lifetimes and number of packets or requests, under the named
assumptions on the constants (`CapAssumption`, `LifeAssumption`,
`BootAssumption`...): capacities are positive, the margin is not longer than an
access token's life, sets are disjoint where the code's types are, the sets of
servers and of METAR workers are finite (what is counted there needs it), and
`nil` is not among the values. The bounds of the runs are parameters here, so a theorem
holds for every bound.

| theorem | invariant | argument |
|---|---|---|
| `PostOffice`: `TypeCorrect` | `TypeOK` | each action in turn; inductive as it stands |
| `RegistryCorrect` | `RegistryExact` | inductive with `TypeOK`: `RegistryFrame` shows that only `Register` and `Unregister` touch the map or cross the border of the registered part |
| `IndexCorrect` | `IndexExact` | likewise with `IndexFrame`; `Position` changes the box and records the old one, which is what `Reindex` deletes |
| `ScansAreStable` | `ScanStable` | `ScanInv` adds `ScanLocked` (who iterates is among the readers) and the two invariants above: recipients come from the index (`ScanEntry`), only shrink (`ScanFrame`), and cannot leave it while a reader is inside (`IndexHeld`) |
| `LocksAreDisciplined` | `LockDiscipline` | inductive with the types: each step enters a section as it takes that lock, leaves it as it gives it back, or moves outside all sections (`LockStep`) |
| `QueuesHaveConsumers` | `QueueHasConsumer` | under `~MotdMayFail`; `Consumers`: who is in `clientMap`, or was when a lookup found it, has its `senderWorker` running or about to start, and a `senderWorker` that ended cancelled the context |
| `PresenceIsAccurate` | `PresenceAccurate` | `PictureInv`: newcomers know nobody, a scan that has nobody in hand has nobody left, and a goodbye starts after the context is cancelled |
| `AwarenessIsMutual` | `MutualAwareness` | `AwareInv` speaks of sessions that have passed each other in their announcements, where `MutualAwareness` speaks of those that ended them |
| `PostOfficeImplementsPresence` | `ImplementsPresence` | `PresenceStep`: each step is one step of `Presence` or none, from `ScanInv`, `PictureInv` and `StageInv` (nobody has a newcomer in hand to cancel) |
| `PresenceHasNoGhosts`, `ServerHasNoGhosts` | `NoGhosts` (of `Presence`, stated with the proofs) | `PromiseInv`: the online hold their callsigns, newcomers believe nothing. Proved of `Presence` alone, and of the server by the refinement |
| `UserStore`: `TypeCorrect`, `ReplacedStaysDead` | `TypeOK`, `ReplacedPasswordDead` | `Inv` adds `CopyExact` (a copy in flight is the provided plaintext or a hash): a hash written back is hashed again and verifies nothing |
| `WebSession`: `TypeCorrect`, `SessionsEnd` | `TypeOK`, `SessionsEndAtReset` | `RootInv`: every token of a session, stored or under way, is signed with the secret that was in force when the session began, and a refresh signs with the secret it checked with |
| `MarginSuffices` | `FreshOnArrival` | `FreshInv`: a token that is sent outlives the margin counted from the call |
| `UserEditor`: `TypeCorrect`, `PasswordReachesItsUser` | `TypeOK`, `PasswordForItsUser` | `TypedInv`: a password in the form was typed for the user the form names |
| `RatingsStayApart` | `RatingOfItsOwn` | `KnownInv`: so are the ratings in answers, forms and requests |
| `Dashboard`: `TypeCorrect`, `MarkersOnce` | `TypeOK`, `OneMarkerEach` | inductive with the types |
| `MapShowsAMoment` | `MapWasTrue` | `SeenInv`: what the worker, the cache and each fetch hold was online together |
| `KickedIsCancelled` | `SuccessMeansCancelled` | `KickInv`: a session found is in the map until it leaves, and a success on its way comes from one that has left or is cancelled, also after its callsign was taken over |
| `PopupStays` | `PopupKept` | an action property from `PopupInv` (a popup belongs to a marker) |
| `Boot`: `TypeCorrect`, `StartIsComplete` | `TypeOK`, `RunningIsSetUp` | `AdminInv`, `ConfigInv` and `MigrateInv`: what each stage of a start has behind it, a version without a mark included; nothing is ever removed |
| `AdminsAreBounded` | `AdminsBounded` | `AdminCount`: accounts and the servers about to insert one are together no more than the servers. The set of servers is finite |
| `CredentialsAreShown` | `CredentialsShown` | inductive with the types: of all steps only `LogCredentials` and `Fails` take a server from the log line |
| `ConfigKept` | `StartKeepsConfig` | an action property from the types: only `SetIfNotExists` and `AdminSet` write the table |
| `ConfigEditor`: `TypeCorrect`, `NoForeignValue` | `TypeOK`, `ValueOfItsOwn` | `OwnInv`: what loads have read, pages show and saves are about to write for a key is the key's own as well, as long as no altered text was set (`PlainBefore`: nor was one before) |
| `SuccessIsComplete` | `SuccessMeansSet` | `SaveInv`: of the pairs of a save the last one for a key means what the administrator saw, and those written so far have had their effect |
| `MetarService`: `TypeCorrect`, `RequestsAreAnswered` | `TypeOK`, `EveryRequestAnswered` | `MetarInv`; places of the channel and busy workers are counted: `CountAppend`, `CountTail` and `BusyTakes`, `BusyEnds` say how each step changes the counts |
| `AnswersAreKept` | `AnsweredUnlessCancelled` | an action property, stated with the proofs and checked by no run, that gives `owed` its meaning: only a worker in `send` ends a request, for the client its request came from, and it has queued the answer or found the context done |

Lemmas on `Picked` (`PickedProperties`: it keeps order, leaves out nothing that
was selected and adds nothing) rest on the ranks of the chosen positions, which
map them one to one onto the positions of the result, where an induction over
the sequence would be the usual argument.

Most of the properties are not inductive as they stand: `ScanStable` says
nothing of the lock that protects it, `ReplacedPasswordDead` nothing of the
copies in flight, and those of the scripts nothing of the answers still on
their way.

Model-checked only:

* the liveness properties, which the proof system does not handle;
* the absence of deadlock, which is a matter of what is enabled;
* the findings, which are behaviours rather than invariants.

## Not modelled

* `leaflet.js` and `leaflet.rotatedmarker.js`: third-party. `Dashboard` models
  from `dashboard.js` which markers and popups there are.
* In the scripts, wording and layout: rating names, descriptions of keys, the
  password meter, modals, icons and tiles.
* `getFsdJwt`, status and server list: one read and an answer, no state.
* Packet codec, line scanner and VATSIM authentication: functions of bytes. What
  could be wrong is in the bytes, which the models abstract; the hazards that
  come from them (`strconv.ParseFloat` takes NaN, `append` writes into the
  scanner's buffer) are outside.
* Flight plans, beacon codes, facility types, SendFast: single fields of a
  session that nothing else depends on.
* The Postgres repositories: the same statements in another dialect.
* The SQL of the migrations; routes, pages, environment: wiring. Cryptography, TLS and the SQL
  engines are external.
