# discording in TLA+

`discording` is a Discord bot that bridges Space Station 13 game servers
(byond) and Discord: it relays out-of-character chat, admin chat and round
messages, links Discord accounts to byond accounts, enforces bans, and keeps
status embeds up to date. It is one Go process (package `main`, about 4700
lines, no tests) with a PostgreSQL database behind it.

This directory holds TLA+ models of its stateful parts, TLC runs over small
instances, and TLAPS proofs. References of the form `file.go:n` are to the
repository's source.

## 1. Inventory

### What runs concurrently

* discordgo starts a goroutine for every event it hands to `messageCreate` and
  `nickchange_guard`; net/http starts one for every webhook request.
* `start_ticker` (main.go:164) runs the spam reset and the role sweep, each in
  one goroutine; every server with status embeds has a ticker goroutine of its
  own (byond_part.go:336); `Http_server` has one more.
* `send_message` starts a goroutine per busy Discord channel.
* Every SQL statement commits on its own; there is no transaction in the
  program, and no table has a unique key.
* Only two things are guarded by a mutex: the relay queue
  (`send_message_mutex`) and `global_update`. All other maps are shared and
  unguarded; the Go runtime may end the process when it notices.
* A failing statement panics (`noerror`). Nearly every function recovers and
  logs (`logging_recover`), so a failure ends the function and leaves what it
  had done.

### Components

| component | state | operations | what makes it correct |
|---|---|---|---|
| relay queue | `channel_buffers`, `channel_message_send_loops_online` | `send_message` and its goroutine | nothing lost, doubled or reordered; one loop per channel; chunks fit |
| accounts and tokens | `DISCORD_TOKENS`, `DISCORD_REGISTERED_USERS`, `local_users` | `!register`, token webhook, `!deregister`, refresh by `!login` | a link is proven by a token; one login, one ckey; map follows table |
| one-time subscriptions | `DISCORD_ONETIME_SUBSCRIPTIONS`, `discord_onetime_subscriptions` | `!sub_once`, round message | who asked is told, once, in his guild, about his server |
| permissions | `local_users`, `local_moderators`, `Known_admins` | `get_permission_level*` | levels are found from the lists alone |
| bans | `DISCORD_BANS`, `DISCORD_BAN_OVERRIDES`, two summary maps | apply, lift, override, wipe, spam autoban, `check_bans` | maps agree with tables; only a higher rank silences |
| status tickers | `ss.timerchan`, ticker goroutines, `global_update_mutex` | `start_ticker`, `stop_ticker` | an embed is refreshed for ever |
| status embeds | `server_statuses`, `dynamic_embeds` | bind, unbind, `update_embeds` | map follows table |
| start and shutdown | `main`, tickers, session, statements, web server | `main`, `Dopen`, `Dclose`, `Http_server` | nothing is served before it is ready, nothing runs after it is closed |
| roles | `DISCORD_ROLES`, three role maps, roles held in Discord | role commands, login, logoff, sub, unsub, sweep | no excess role stays, no due role is lost |
| known channels | `DISCORD_CHANNELS`, two maps | add, remove, update, autopurge | maps follow table |
| dispatch, spam protection | `discord_spam_prot_*` | `messageCreate`, `spam_check` | banned and flooding users are stopped, nobody else |
| moderators | `discord_moderators`, `local_moderators` | promote, demote | slice follows table |
| configuration, nickname | `app_config`, `config_entries`, the bot's nickname | set, delete, rename, `nickchange_guard` | memory follows table, nickname follows memory |
| donators | `station_donators` | update, expend, check, cleanup | paid time and cooldowns are not lost |
| long messages | none | `send_message_big` | chunks fit, nothing is lost |
| byond wire | none | `Byond_query_adv`, `String`, `Float` | part of an answer is not taken for the whole |
| webhooks, admin lists | `last_ahelp`, `Known_admins` | `webhook_handler`, `Load_admins` | each method reaches its handler |
| shell, dice, sanitising | none | option parsing, printing, string replacement | not modelled, see section 5 |

The components meet in three places: every handler reads `local_users` through
the permission check; everything a user sees leaves through `send_message`; and
everything that survives a restart is in the tables.

Hard behaviour: the interleaving of goroutines between the statements of a
handler (check and then act on tables without keys), maps rebuilt in place
while they are read, the relay queue's two critical sections, a channel-valued
field nobody guards, statements that fail half way, death and restart at any
point, and the order of shutdown. `PROJECT.json` lists the hazards at their
lines.

## 2. Modules

| module | models | steps |
|---|---|---|
| `ChannelRelay` | the promise of a relay channel: accepted bytes go out once and in order | abstract |
| `ChannelQueue` | `send_message` | one action per critical section, one per post |
| `Accounts` | tokens, registered users, `local_users` | one action per SQL statement or map access |
| `Subscriptions` | `!sub_once`, flush and send of round messages | one action per statement, row and channel |
| `Permissions` | levels of users and ckeys | operators only |
| `Bans` (extends `Permissions`) | ban tables, their maps, all commands that change them | one action per statement, clear and row |
| `Roles` | the role table, its maps, who holds which role in Discord, the commands and the sweep | one action per statement, map access and REST call |
| `StatusTicker` | `ss.timerchan` and the goroutines that watch it | one action per access of the field |
| `Lifecycle` | `main` from start to shutdown | one action per call of `main` |
| `Channels` | feeds and the channels they are bound to: the table, its maps, four commands | one action per statement, clear, row and probe |
| `Configs` | configuration entries, their copy, the nickname and its guard | one action per statement, map write, REST call and event |
| `Donators` | paid time and cooldowns, rounds going on | one action per statement and configuration read |
| `Moderators` | promote and demote | one action per search, slice write and statement |
| `StatusEmbeds` | binding, unbinding and updating embeds | one action per statement, map write and edit |
| `LongMessages` | `send_message_big` | one action per chunk |
| `ByondWire` | one query of a game server | one action per call on the connection |
| `Dispatch` | `messageCreate`, `spam_check`, the spam ticker | one action per map access and outcome |
| `Components` (extends `Bans`) | the union of `Bans` and the last eight | those of the component at work |

`MCx` extends `x` and gives its constants small values; `x.cfg` files name what
TLC checks. `Components` instantiates the last eight modules beside `Bans`, and
`MCBans` gives it values. The modules share no state:
where the code has one component use another, the module has what it sees of it
(the ban that `spam_check` asks for, the cooldown that `expend_donator` reads).
So an interleaving of two of them shows nothing that each does not show alone;
a behaviour of the union is one component at work, chosen at
the start (`part`), and `Frame` holds the variables of the others still.

`xProofs` holds the proofs about `x`, for `ChannelQueue`, `Accounts`,
`Subscriptions`, `Roles`, `Bans`, `StatusTicker`, `Lifecycle` and `Components`.
Definitions marked "Mutant" next to an action
are plausible wrong versions of it; each property was seen to fail with the one
`PROJECT.json` pairs it with. No specification uses them.

### How state corresponds

* **ChannelQueue.** `buffer[ch]` is `strings.Join(channel_buffers[ch], "\n")`;
  since no line and no remainder is empty, `<<>>` is the nil slice and nothing
  else. A byte is identified with the position at which its channel accepted
  it, so identity, order and duplication can be told; newlines and cut marks
  are two constants. `Enqueue` is lines 450-462, the three cuts are the branches
  of 470-488, `Post` is 490, `FoundEmpty` 466-469 and `GoOffline` 495-497. A
  post that fails is logged and dropped, so `posted` is what was handed over.
* **Accounts.** A goroutine is named; `at` is its next statement. `Goto` notes
  in `clash` when two goroutines are at work on one login or ckey, the
  condition under which the code can promise less. `clash`, `torn`, `proven`,
  `inserted`, `removed` are ghosts: no guard reads them. `Restart` drops the
  goroutines and refills the map from the table (829-838), where the last of
  several rows wins.
* **Subscriptions.** The map holds rows instead of mention strings, and has no
  lock. A clear in the middle of a callback is one before or behind it, or it
  takes the guild's map from under the callback, which panics and skips the
  delete (`ClearUnder`). Callbacks that overlap lose entries of each other
  (`CollectSub`). A result that breaks off ends the loop as if there were no more
  rows, and all of them are deleted (`ResultBreaksOff`): `parse` does not ask for
  the error. What the runtime finds out is the death of the process. The
  role mention in front of the message is left out.
* **Bans.** A type is its set of bits. Equal rows are one row: every statement
  treats them alike. A clear that meets a callback ends that callback's
  populate (write to a nil map, recovered), and two callbacks can lose each
  other's bits (`Read`). Commands are typed where the dispatcher asks least
  (a channel bound to no server), which includes what it admits elsewhere.
* **Roles.** `known` holds the three maps as the rows they were filled from; a
  new entry replaces the one of its key. `held` is Discord's own record. A map
  lookup and the REST call it is for are one step; the sweep is four: a guild's
  roles, its members, the check of one role of one member, the strip. `Listed`
  is whom it is shown: 100 guilds and 1000 members of each at most. The map
  from admin role to server is inverted in an order Go leaves open
  (1284-1288), so `ReadRoles` chooses the server of a shared role. `!register`,
  `!deregister`, a loaded admin list and a role given by hand are single steps
  here: `Accounts` takes the first two apart. `welcomed`, `clash` and `torn` are
  ghosts. `Die` is a restart, and also what `!role_remove player` without a
  server does (it reads `args[1]`, and `messageCreate` does not recover).
  Ckeys are taken in their canonical form, in which `login_user` and
  `get_permission_level` compare alike.
* **StatusTicker.** A Go channel is named after the `start_ticker` call whose
  goroutine made it. The send and the receive on the unbuffered channel are one
  action, `Receive`. The select evaluates the field when it is entered, so
  `watch` can be older than `timerchan`. `ticker.Stop()` does not drain: a last
  tick may be left.
* **Lifecycle.** `Order` unfolds `main`, `Dopen` and `Dclose`. The tickers of
  the status embeds are never stopped by the program (`stop_ss_tickers` has no
  caller) and end with the process; they are in `StatusTicker`.
* **Channels.** A row has an identity, because nothing keeps the table from
  holding one twice. `bound` is `known_channels_id_t`; `listed` counts how often
  `known_channels_s_t_id_m` lists a channel, which is how often a line is posted
  there (`Posts`). A rebuild is a clear, another clear, a query and one step for
  each row. `Read` is what an append sees of a slice another goroutine appends
  to. `mixed` and `torn` are ghosts: two rebuilds overlapped, one failed.
* **Configs.** `rows` is `app_config`, `memory` is `config_entries`, `nick` is
  what Discord has. Each change of the nickname puts a handler in `events`; one
  that decides to set it back moves to `reverts`. Events of the time the bot was
  down are gone. `strayed` notes why nothing is going to set the nickname right:
  a refused REST call, an entry set by `!config_set`, a restart.
* **Donators.** Time and rounds pass between any two statements. `free` and
  `paid` are the books the program does not keep: from which round on a
  donator may play again by the spawns recorded, and until when he has paid.
  `clash` notes two updates or two spawns of one donator at once, `late` time
  given to a row that had expired.
* **Moderators.** The slice is the sequence of the ckeys and the table a count
  of rows. The search and the write of the slice are two steps: an index can be
  past the end by then, and two writers can lose each other's slice. `torn` says
  that a statement failed, or that the bot started from a table that has a
  moderator twice.
* **StatusEmbeds.** `!status_bind` posts a message, writes the table, then the
  map; `!status_unbind` and an update that meets a dead channel (`gone`) write
  the map, then the table. Updates exclude one another (`global_update_mutex`,
  see `StatusTicker`); commands exclude nothing.
* **LongMessages.** A text is a length and the places of its newlines, and a
  chunk the first and last byte it holds and its size with the marks. Discord
  takes no chunk of newlines only, and may refuse any other.
* **ByondWire.** A response is a length and a type; `got` is how many bytes of
  the header one Read has brought, `data` the bytes of the response the other
  has. Lengths are computed modulo 2^16.
* **Dispatch.** A goroutine of a message goes through `spam_check`: read, write,
  compare, ban, flag, filter. A private message goes no further unless it is the
  superuser's (`Ignored`). A shell line in a chat channel falls through to
  the chat branch (there is no return at its end) and is counted once more. What a
  permission check decides is a choice here, as `Permissions` has it. The rows
  the autoban writes are the `Bot` job of `Bans`; here a ban is membership in
  `banned`, which may fail to come about. `Restart` is also what a command of
  blanks alone does, because `messageCreate` does not recover.

## 3. Runs

| run | checks | bounds | result |
|---|---|---|---|
| `relay_queue` | types, `OneLoop`, `FlagTruth`, `ChunkFits`, `ChunksInOrder`, `NothingLost`, refinement `RelaySpec`, liveness `ServedIsDelivered` | 3 calls, 2 channels, lines of 1, 4 and 5 bytes, chunk 4, mark 1 | holds, 54 thousand states |
| `relay_stranded` | `QueuedIsDelivered` | the same | violated |
| `accounts` | types, `OnlyProvenLinks`, `LinksAreOneToOne`, `CacheFollowsTable`, `TokenRegistersOnce`, `OneTokenPerLogin` | 2 logins, 2 ckeys, 2 `!register`, 2 webhooks, a `!deregister`, a `!login`, 1 failure or restart | holds, 2.4 million |
| `accounts_deregistered` | `DeregisteredIsUnknown` | the same | violated |
| `subscriptions` | types, `OnlyTheAsked`, `OncePerChannel`, `NobodyTwice`, `NoneForgotten` | 2 users, 2 guilds, 2 servers, 3 channels, 2 `!sub_once`, 2 round messages, 1 failure or restart | holds, 1.3 million |
| `subscriptions_lost` | `AskedIsTold` | the same, no failure | violated |
| `bans` | types (`TypesOK`), `BannedIsStopped`, `StoppedIsBanned`, `OnlyHigherRanksBan`, `BoundChannelsAreKnown`, `CopiesFollowTables`, `NickIsRestored`, `CooldownHolds`, `PaidIsKept`, `AnswerArrives`, `AnswerIsWhole`, `OnlySpammersAreFlagged` | nine components, one at a time: two goroutines, 1 failure or restart, see below | holds, 978 thousand |
| `roles` | types, `WelcomedKeepsRole`, `KnownFollowsTable`, liveness `ExcessIsStripped`, no deadlock | 1 user, 1 guild, 2 servers that may share an admin role, 1 role command, 1 caller, 1 change, 1 failure or restart | holds, 634 thousand |
| `roles_removed` | `RemovedRoleIsForgotten` | the same | violated |
| `status_ticker` | `SomeTickerRuns`, liveness `KeepsUpdating`, no deadlock | 3 calls | holds, 20 thousand |
| `lifecycle` | `ReadyWhenServed`, `NoTickerOutlivesTheSession`, liveness `SignalClosesDiscord`, no deadlock | 3 requests, 2 restarts | holds, 6.7 thousand |
| `lifecycle_shutdown` | `SignalStopsTheServer` | no restart | violated |

Why the bounds are enough to be interesting. Three relay calls are a running
loop, a line that joins it, and one that comes in its last moment; the lines
make all three cuts happen, a forced cut with more text behind it included. Two
handlers of each kind in `Accounts` and `Subscriptions` are the smallest set in
which every pair of handlers overlaps, and one failure at every statement
covers every half-done handler; in `Subscriptions` it may also be a result that
breaks off. Three `start_ticker` calls let a request to stop reach a goroutine
that is not the current one. Wherever several actors of a kind are interchangeable the
configuration declares them symmetric; the runs with liveness properties use no
symmetry. Where the state space ends because every goroutine runs once,
deadlock checking is off; it is on for `roles`, `status_ticker` and
`lifecycle`. In `Roles` users and guilds never look at one another, so one of
each is enough; what needs company is the sweep, one role command, one caller
and one change of the lists, in every order. The one user is `Listed`: of one who
is not, `ExcessIsStripped` says nothing. Two role commands at once are
in the module (`clash`) and not in this run; the theorems cover them.

The components of the run `bans`, each with two goroutines that overlap in
every way and one failure or restart at every step:

* Bans: 11 commands that range over all kinds, issuers of three ranks (admin of
  one server, superuser, the bot), 2 ckeys, 2 servers, and start tables with and
  without rows that a command must leave alone.
* Channels: 6 commands on 2 feeds, 2 channels of one guild and 1 of another, 4
  start tables, one of which lists a channel twice.
* Configs: the nickname entry, which has no default, and one that has; 7
  commands; somebody else renames the bot once at any time.
* Donators: one donator, who is new, about to expire, or waiting; 5 commands and
  webhooks; time and rounds go far enough for each of these to end.
* Moderators: all 4 jobs on 2 ckeys, any start table, and one that has a
  moderator twice.
* StatusEmbeds: 5 jobs on 2 servers and 2 channels, of which any may die; the
  second server is there to be left alone.
* LongMessages: chunks of 12 bytes with marks of 5; texts of 5, 12, 13 and 26
  bytes with up to two newlines anywhere, so that every branch of the cut is
  taken, twice in a row too.
* ByondWire: lengths around one byte, two bytes and 2^16; every short header, and
  short reads of the data of 8 sizes. The theorem has any.
* Dispatch: a limit of 1, three messages out of 5 kinds of a registered user and
  the superuser, who may write in private, and a tick anywhere between them. The
  second message is the first that can be lost; the third lets two overlap with a
  flag already set.

### What the conditions of the holding properties leave out

A property of a holding run says under which condition it is promised. Where
the condition is a ghost, the code does break the rest, and the module has the
behaviour:

* `clash` (Accounts): two simultaneous registrations of one login or ckey leave two
  rows, or two tokens; a second webhook between the read and the delete of a token
  registers the pair twice; a handler that has read a row stores it after another
  has deleted it (`accounts_deregistered`). `OnlyProvenLinks` holds all the same.
* `overlap` (Subscriptions): of two round messages at once one can mention the rows
  the other has read, or empty the map under it: mentions are doubled or lost.
  `raced`: two `!sub_once` at once leave two rows and a doubled mention. A
  failure or a death between delete and sends loses the mentions of that message.
  `OnlyTheAsked` holds all the same.
* `mixed` (Bans): two rebuilds of one map at once can lose bits or leave a map half
  filled, until the next rebuild. `torn` (Bans): a rebuild whose fetch fails after
  the clear leaves the map empty, and everybody banned may talk; the model calls
  it torn until the bot is started again. `OnlyHigherRanksBan` holds all the same.
  A new override has no effect before the next rebuild; no property asks for it.
* `ReadyWhenServed` (Lifecycle) is about the time before a signal: after it the
  web server goes on to serve while the statements are closed.
* `mixed` (Channels): two rebuilds at once can post a line twice, or not at all,
  until the next rebuild. `BoundChannelsAreKnown` holds all the same.
* Two `!channel_here` at once leave two rows, and the maps follow them.
* `clash` (Configs, Moderators, StatusEmbeds): two commands on one entry, ckey
  or channel can leave the memory other than the table until the next start.
* `torn` (Moderators): after a demote whose DELETE failed, a promote adds a second
  row, since nothing keeps `discord_moderators` unique. The next start loads the
  moderator twice. The demote after that cuts one of the two entries and deletes
  both rows: he is told to be no moderator, is one until the next start, and is
  none then. The proof of `ModeratorsOutliveTheBot` found this; it takes three
  commands, a failure and a restart, more than the run has.
* `clash` (Donators): two spawn webhooks for one donator lose a cooldown. `late`:
  time given to a donator who has expired and is still in the table counts from
  a moment in the past, and he can be cleaned up at once.
* `straddled` (Dispatch): a count that a tick came in between survives the tick,
  and its author may be flagged for less than the limit. Counts of messages
  that overlap get lost, so that the limit can also be overrun.
* A newline at which a text was cut stays at the head of the rest. When the next
  cut falls on that newline, the chunk is empty, Discord refuses it, and the
  rest of the answer is never posted (`AnswerArrives` names that one case).

### What the violated runs show

* `relay_stranded`: a call between the loop's last look at the buffer and the
  clearing of the flag queues its line and starts no loop. The line waits for
  the next call on that channel. `ServedIsDelivered` is the promise that does
  hold: a loop that is still at work sends all that is queued meanwhile.
* `accounts_deregistered`: `!login` reads the user's row, `!deregister` deletes
  row and map entry and says OK, `!login` stores what it read. The user is
  registered in memory until a restart. `CacheFollowsTable` says the same of
  what does hold, when nobody works on the same login or ckey at the same time.
* `subscriptions_lost`: a row inserted between the flush's select and its
  delete is deleted unread. `NoneForgotten` is what holds: who was in the table
  when the message came is told.
* `roles_removed`: the rebuild of the maps empties two of three. A subscriber
  role that was removed is still given by `!sub` and mentioned by round messages
  until the bot restarts. `KnownFollowsTable` is what holds: equality for player
  and admin roles, inclusion for subscriber roles.
* `lifecycle_shutdown`: `main` sends on `http_server_stop`, which is nil, and
  stays there; the session is closed by then (`SignalClosesDiscord`).

### Fairness

* `ChannelQueue`: weak fairness of every goroutine. The runtime schedules it,
  `sync.Mutex` does not starve it, the REST call returns. Nobody is obliged to
  call.
* `Roles`: weak fairness of the sweep only, which `start_ticker` runs in one
  goroutine for ever. No command has to come to an end, and nobody has to log
  in or off. `MaxChanges` and `MaxFaults` end the changes and failures; a sweep
  every step of which fails or is overtaken promises nothing.
* `StatusTicker`: strong fairness of each caller and each goroutine. It differs
  from weak fairness only for the mutex, which Go hands to the waiter that has
  waited long. Nothing is assumed of which goroutine takes a request to stop.
* `Lifecycle`: weak fairness of `main`'s calls, of callbacks and of running
  requests; strong fairness of `StopTicker`, because a Go select that finds two
  cases ready over and over picks each of them in the end. No signal, tick or
  request has to come.

## 4. Proofs

Every safety property of a passing run is a theorem, and so is the refinement
`RelaySpec`. Theorems are of `Spec` of the module named (of `UnionSpec` for
`Components`) and hold for all values of the constants under the assumptions at
the end of this section. No theorem needs fairness. Each rests on an inductive
invariant; what follows says which, and why the property alone is not inductive.

**ChannelQueue.** `TypeCorrect`; `LoopCorrect` and `FlagCorrect` (`OneLoop` and
`FlagTruth`, inductive only together: the flag says there is no loop, the loops
being unique says that clearing it is right); `ChunkCorrect`, from the lemma
`DrainTakes`, which brings the three cuts down to one fact. `NothingIsLost`,
`OrderCorrect` and `ImplementsRelay` rest on `RelayInv`, which adds `Fresh` (new
positions are above all earlier ones) and `ChunkFirst` (what a goroutine holds
comes before what is queued, what was posted before both); one loop per channel
is what makes the last part inductive. `ImplementsRelay` maps `Enqueue` to
`Accept`, `Post` to `HandOver`, and every other action to a stutter.

**Accounts.** `AccountsTypeCorrect` and `LinksAreProven` are inductive with `Held`:
from the moment a goroutine has read a token or a row, the pair it holds is
proven. `LinksStayOneToOne` and `CacheKeepsUp` rest on `Links`: while no two
goroutines work on one login or ckey (`ClashIsSeen`), a goroutine past a delete
knows that no row is left that its insert would double (`RowsOfHolders`), and
table and map differ on a login and a ckey only while somebody is behind with them
(`CacheIsBehind`). `TokensRegisterOnce` and `TokensAreUnique` rest on `TokenUse`:
who goes by a token is alone with it, and has it out of the table (`UsedOnce`).

**Subscriptions.** `SubscriptionsTypeCorrect` and `OnlyTheAskedAreTold` are
inductive with `OnTheWay`: the rows in the table, in a query result and in the map
were asked for, and the map files each under its own guild and server. The
three counting theorems rest on `Books` (the ghosts have missed nothing, a message
is done with the channels it has sent to) and on `Flush`: a message that is alone
finds in the map what its own flush has read (`MapOfCallback` for a callback, which
may lose only entries of others), a row that was mentioned is gone from
the table (`GoneWhenTold`), a key is read once (`OneReadOfAKey`), and every row
that was due is in the table, in the result, in the map or mentioned (`Followed`).

**Roles.** `RolesTypeCorrect`. `PlayersKeepTheirRole` (`WelcomedKeepsRole`) is
inductive with `Due`: a role the sweep is about to strip is not one of a welcomed
member, because it was condemned when `local_users` did not know him and `!login`
welcomes nobody who is condemned, or because it is an admin role, and moderators
do not use one role for both (`RolesAssumption`). `MapsFollowTable`
(`KnownFollowsTable`) rests on `Rebuilds`: what a command alone at work has yet to
read makes up for what the maps lack.

**Bans.** `BansTypeCorrect` and `HigherRanksBan` rest on `Base`: whoever is at work
has the rank the dispatcher asks for (`Ranked`), and the rows of the table and of
every query result were issued (`RowsAreIssued`); no condition on overlap or failure
is needed. `BannedAreStopped` and `StoppedAreBanned` rest on `Maps`: while no
two rebuilds of a map overlap (`OneByOne`), map and rows yet to be filed add up to
the table (`SummaryIsRebuilt`), and no override lifts more than the table says
(`LiftedIsBacked`).

**StatusTicker.** `SomeTickerAlwaysRuns`: the one step that takes a ticker away
(`Receive`) leaves its caller about to start another. `UpdatesAlwaysExclude`: who
updates holds the mutex, and a caller has returned before its goroutine runs
(`CallersFirst`; both hold it under the same name). `StatusEmbeds` takes the second
for granted.

**Lifecycle.** `ServedWhenReady` and `TickersEndBeforeTheSession` follow from where
`main` is: the invariant says for each phase of the list of calls what is up, which
ticker is off, and whether the signal has come. `Followers` computes the successor
of each call once, from the fact that no call is in the list twice.
`ServerIsNeverShutDown` is the other side of the run `lifecycle_shutdown`: for no
requests and no order of signals does `main` get past `stop_http`.

**Components.** `UnionInv` has one invariant for the component at work, and says
nothing of the others; `AtStart` and `AtWork` reduce a step of the union to a step
of that component. Each theorem below is a conjunct of it.

* Types: `TypesAreKept`, for all nine.
* Channels: `BoundChannelsAreAlwaysKnown`, from `ChannelInv`: a bound channel is
  known, or a goroutine is about to rebuild the maps, or holds the row and has yet
  to file it. That is what a clear by another goroutine leaves true: who clears,
  queries later. It needs no condition on overlap. `ListsAreExact` does, and rests on
  `ListInv`: one rebuild at a time (`OnePopulates`), which starts from empty lists
  and is short of the table by exactly the rows it still holds (`ListsFollow`).
  Rows are counted, by cardinalities of finite sets.
* Configs: `NickIsAlwaysRestored`, from `NickFollows`: the nickname is the wanted one,
  or an event about the one it has is on its way, or a revert to the wanted one, or
  a command is about to set it. `MemoryFollowsTable` rests on `TableIsKnown` (between
  its statement and its change of memory a command alone at its entry knows what the
  table has) and `MemoryFollows`.
* Donators: `PaidIsAlwaysKept` is inductive with the types and kinds alone. Not so
  `CooldownAlwaysHolds`: `DonatorsWait` is true after a spawn only if what the
  goroutine has computed is late enough (`SpawnsCount`), also when time was given or
  the donator cleaned up meanwhile (`DonatorsFresh`).
* Moderators: `ModInv`. A command that is alone finds the slice as it searched it
  (`ModFound`), and slice and table differ by the one entry it has yet to write
  (`ModFollow`).
* StatusEmbeds: `EmbedInv`. Table and map differ on a channel only between the two
  writes of a bind or an unbind (`EmbedsFollow`), because the writer knows what both
  have of it (`EmbedsKnown`), and the table has one message for it (`RowsAreOne`).
  `CopiesAlwaysFollowTables` collects this and the same of channels,
  configuration and moderators.
* LongMessages: `AnswersAlwaysArrive`, from `AnswerInv`: the rest starts where the
  last chunk ends, and after a mark it is not empty.
* ByondWire: `AnswersAreWhole`, from `WireInv`, which ties the size that is asked
  for to the bytes of the header that have come. A header that lacks its last byte
  leaves the type zero, and nobody looks at the data of a NULL; a whole one gives,
  modulo 2^16, the size of the data, and a read that brings less is refused.
* Dispatch: `OnlySpammersAreEverFlagged`, from `CountsAreLow` (no count is above the
  number of checks since the tick), `ReadsAreLow` (a count about to be written back
  was read before its handler was counted) and `JudgedHaveSpammed` (whoever is found
  over the limit has passed it), all for users no tick straddled.

**Assumptions.** TLC evaluates them in the runs. Most say that jobs, start tables and
bounds have their types. The others, and why the code meets them:

* `MaxSize > 2 * MarkLen` and `max_message_size > 2 * Mark`, `Mark` not 0: they are
  2000 and 5.
* `Asks \cap Rounds = {}`, `Commands \cap Callers = {}`: a goroutine runs one handler.
* `Roles`: one role does not serve as player role and as another; otherwise the
  sweep takes from players what it takes from former admins.
* `Bans`: the bot only bans, and in everything (spam_check).
* `Configs`: the nickname entry has no default (`def_config_init` lists none), and
  start rows and renames give it nicknames. What `!config_set` stores there is free.
* `Donators`: no cooldown is shorter than the discount. It is 3 to 5 at first, the
  discount at most 2. An administrator may configure less, and for a
  role the switch in `expend_donator` does not name the cooldown is 0: such a spawn
  moves the next round back, and `CooldownHolds` is not promised. Start tables have
  the rounds `expend_donator` leaves.
* Tables and the ckeys that moderators are taken from are finite.

Only model-checked: liveness (`ServedIsDelivered`, `ExcessIsStripped`,
`KeepsUpdating`, `SignalClosesDiscord`). Liveness under fairness and ENABLED are
beyond the prover, and so is induction over data, that is, what a recursive
definition computes for every input. The properties of the violated runs are false,
so there is nothing to prove; the theorem next to each says what does hold.

## 5. Not modelled, and the plan

Left out for good:

* rendering of embeds, sanitising and encodings (payload formatting), dice and
  printing commands, vendored libraries: no state;
* ahelp locks: one map entry per admin, which each command overwrites;
* the shell behind `messageCreate` (commands.go): its one command only reads.
  Two things are worth knowing. The loop over the letters of a flag declares an
  `i` of its own (commands.go:75), which hides the index of the argument, so a
  single-letter flag is not parsed as meant; and a deferred `recover()` recovers
  nothing, because it is not called by a deferred function;
* table creation: the source notes its own defect at db_part.go:297-298, tables
  are taken as created in the order of the inserts;
* `check_bans_readable` (discord_main.go:1066), which only prints: it ignores
  overrides and so tells a freed user that he is banned;
* webhook methods that only format a line for `send_message`;
* `Discord_message_propagate`, which has no caller.

In `Roles`: `!role_list`, which only reads. `update_roles` reads no more than the
first page of guilds and of members (the source says so, discord_main.go:1275),
so who is not `Listed` keeps for ever a role he should not have; the page is fixed
in the model, while Discord's changes as members come and go. Three things the
model shows and no property asks for: without a player role in a guild, `!logoff`
keeps the admin roles; an admin list that does not load after a restart costs the
admins their roles at the next sweep; and a player whose row is being refreshed
(843-848) is a stranger for that moment.

Planned, in this order:

1. An abstract specification of a table with a copy in memory, which `Configs`,
   `Moderators` and `StatusEmbeds` implement while `clash` is not set; their
   invariants `MemoryFollows`, `ModFollow` and `EmbedsFollow` are what the
   refinement needs.
2. The three relations of `Bans` (`BannedIsStopped`, `StoppedIsBanned`,
   `OnlyHigherRanksBan`) as theorems of `UnionSpec` too.
3. Safety that the liveness properties rest on: the work of a sweep only
   shrinks (`Roles`), and a goroutine that holds the mutex can always go on
   (`StatusTicker`).
