# mc-manager in TLA+

mc-manager runs a Minecraft server: an HTTP API in one container, and a small
supervisor that owns the JVM in another. The two share the server's directory
(with FIFOs for console commands and control verbs, a status file and the log in
it) and nothing else. This directory specifies the parts of both that keep state or run
concurrently, checks them with TLC on small instances, and proves the most
important properties with TLAPS for every value of the constants.

All paths are relative to `src/`.

## 1. Inventory

### The supervisor: `cmd/supervisor/main.go`
State: `s.cmd`, `s.stdin`, `s.done`, `s.since` under `s.mu`; the files `desired`,
`status.json` and `status.json.tmp`; the control and console FIFOs. Goroutines:
main (auto-start), heartbeat, control reader, console forwarder, signal handler,
and one waiter for each JVM. Operations: START, STOP, RESTART, KILL, the
heartbeat, SIGTERM. Hard: every goroutine may call `start`, `stop` or
`writeStatus`; the waiter of an old JVM runs late; `writeStatus` writes without
the lock; the container may be killed anywhere. Correct when one JVM runs at
most, a stop is undone by nothing but an auto-start it overtook, RESTART never meets its
own old JVM, a hung JVM blocks nobody once it has been asked to stop, and the status file at last tells the truth.

### Start and stop requests: `services/process.go`, `services/fifo_linux.go`, `handlers/server.go`
A start request subscribes to the log, drains the replay, sends START and waits
for a "Done" line, or sends KILL after 120 quiet seconds. A stop request sends
STOP and polls the status for 45 seconds. Both talk to the supervisor through a
pipe, a status file that may be up to ten seconds old and a log that lags.
Correct when a start reports ready only for a session it may have started and its
time-out kills no server that is in use, and when a stop's answer is true.

### Server directory: `services/minecraft.go`, `handlers/server.go`, `handlers/files.go`
State: the entries of `ServerDir`, among them the jar, `eula.txt`, the world and
the supervisor's control directory. Operations: create (check, download, EULA,
metadata), delete (check, list, remove one entry after the other), and the file
manager's write, upload and delete. Nothing is locked. Hard: two requests at once,
a download or a deletion that fails half-way, a server that starts meanwhile, and
paths that spell the control directory differently. Correct when a creation that
succeeds leaves a whole server, a new server gets a new world, and the file manager
does not cut the supervisor off.

### Log hub: `types/hub.go`; log tailer: `services/logtail.go`; console: `handlers/console.go`
The tailer follows `logs/latest.log` across rotation, truncation and restarts;
the hub keeps a ring of lines, replays it to new subscribers and broadcasts to
channels that may be full. A console connection is a subscription and two
goroutines: the handler, which alone writes to the socket, and the reader, which
reports errors through a channel of one. Correct when lines come out whole, once,
in order, none is lost at a seam, the replay never blocks under the lock, and a
client that leaves, even without a FIN, leaves nothing behind.

### Runtimes and registry: `services/runtime.go`, `services/servers.go`
A map from server to runtime (hub, caches, backup lock), filled on demand under
a read-write lock that is given up and taken again, and a tailer started with each
runtime. Correct when a server has one runtime and one tailer.

### Atomic files, `server.properties`: `utils/file.go`, `services/minecraft.go`
`WriteFileAtomic` writes `<path>.tmp` and renames it; all callers of one path
share that temporary file and take no lock. `UpdateServerProperties` reads,
merges, truncates and writes in place. Correct when a reader sees whole files
and no key disappears.

### Players: `services/minecraft.go`, `handlers/players.go`
`GetOnlinePlayers` sends `list`, takes the first reply out of the log, and keeps
it for ten seconds. `DeletePlayer` takes somebody off the lists, by command or in
the files, and out of `usercache.json`, while the server may start, stop and
rewrite the same files. Correct when the list does not go back in time, a deleted
player stays deleted, and the cache loses only the entry meant.

### Minecraft account link: `handlers/mclink.go`
A code is stored for a user, shown to a player in the game, typed in on the
website and exchanged for a link. Correct when a link is always one whose code was
shown to the player it names, and a code is used once.

### Backups: `services/backup.go`, `handlers/backups.go`; scheduler: `services/backup_scheduler.go`
Create, restore and delete hold `backupMu`; prune does not; the server takes no
notice of it at all. The scheduler waits for a ticker or for a reload message sent
without blocking. Correct when archives are whole, a world survives every failure,
saving always comes back, and no wake-up is lost.

### Accounts, roles: `services/users.go`, `services/auth.go`, `handlers/roles.go`, `services/permissions.go`, `services/seed.go`
Single SQL statements are atomic, handlers are not: bcrypt takes a long time
between a check and the statement that relies on it. Correct when tokens are
single-use and the newest wins, somebody can always manage roles, and overrides
fit the role they were decided for.

### Profile pictures: `services/avatar.go`
A file with a random name and a column that names it. An upload writes the file,
reads the column, overwrites it and removes the old file; any of these may fail,
and two may overlap. Correct when the column never names a file that is missing or
unfinished, and nothing is left behind while nothing overlaps or fails.

### Rate limiter: `middleware/rateLimitter.go`
A token bucket for each address, and a janitor that forgets idle ones. Correct
when forgetting never gives anybody more than the burst and the rate allow.

### Not modelled
- Login, the display name and the e-mail address: single statements on one row.
- The authentication middleware: stateless checks over a JWT library.
- Boot, routes, logging, database set-up and mail (`main.go`, `logging.go`,
  `db/`, `mail/`): wiring, formatting and an SMTP call.
- `docs/docs.go`: generated.
- The contents of launch scripts, properties and metadata, the permission
  catalogue beyond `admin.manage_roles`, the detection of image types, and all that
  only reads: listings, downloads, system metrics.

## 2. Modules

| Module | Code | State and steps |
|---|---|---|
| `TmpRename` | the open, write, rename of `file.go:62-70` and `main.go:274-278` | the temporary file, the target, who has which open, and how each step fails; shared by the next two |
| `WriteFileAtomic` | `utils/file.go` | one call as BeginWrite, FillTmp or FillTmpFails, Publish or PublishFails/CleanUp; Crash; a server that writes the file itself |
| `Supervisor` | `cmd/supervisor/main.go` | a goroutine is the sequence of steps it has still to take; what is done under `s.mu` is one step; publishing, writing `desired` and launching may fail, and the write of "stop" may wait for a full pipe |
| `JvmSlot` | what `s.cmd` is for | the abstract specification: a slot, launched into when free, released after the end |
| `ServerStart` | `StartServerProcess` | start requests, with supervisor, log, status and hub (the last `Ring` lines, channels of `Cap`) reduced to what a request sees; time in ticks |
| `ServerStop` | `StopServerProcess` | stop requests, the supervisor's reader that waits 30 seconds and kills, the status file; a tick is 15 seconds |
| `ServerDir` | `CreateServerHandler`, `DeleteServer`, `files.go`, `DownloadFile`, boot's control directory | four entries, each with the server it was made for and whether it is whole; a request is a label and the entries it has still to remove |
| `LogHub` | `types/hub.go` | ring, head, count, the lock, channels; Subscribe in three steps, as the replay may block |
| `LineFeed` | what the hub is for | the abstract specification: one list of lines and the place in it each reader has come to |
| `Console` | `handlers/console.go` | extends `LogHub` with a handler, a reader, an error channel and a client for each subscriber |
| `LogTail` | `services/logtail.go` | the files the log has been, read offset, partial line; the JVM writes in pieces |
| `Runtimes` | `runtime.go`, `servers.go` | the registry, the map, the read-write lock, the tailers; a call is its next step |
| `Properties` | `UpdateServerProperties`, `WriteFile` | the keys in the file; read and merge, truncate, fill; the last two may fail |
| `Players` | `DeletePlayer` | extends `WriteFileAtomic` (for `usercache.json`) and `Properties`, adds the lists on disk, in the server's memory and in the console pipe |
| `PlayerList` | `GetOnlinePlayers` | roster, console, log, replay, cache; a fetch is Subscribe, SendList, TakeReply or GiveUp, Store |
| `McLink` | `handlers/mclink.go` | extends `PlayerList` with the two tables and the codes shown in the game |
| `Backup` | `services/backup.go`, pruning in `backup_scheduler.go` | the world as two halves with versions, archives by second, `backupMu`, the server's saving, a status that may be old; each step of a restore and of its rollback may fail |
| `BackupScheduler` | `backup_scheduler.go`, `types/backup.go` | the configuration row, the reload channel, the ticker with w-bit arithmetic |
| `Accounts` | `users.go`, `auth.go` | invitations, users, reset tokens; each request one SQL statement or transaction at a time |
| `Roles` | `roles.go`, `permissions.go`, `seed.go` | roles, overrides, the seed at boot; a change is admitted, then stored |
| `Avatars` | `avatar.go` | the files of one account, its column, each upload or deletion one file operation or statement at a time |
| `RateLimiter` | `rateLimitter.go` | a bucket and the time last seen for each address; a request, a tick, the janitor with its older cutoff |
| `TokenBucket` | what the limiter is for | the abstract specification: a bucket for each address, from the beginning and for ever |

How they fit together:

- `Supervisor` and `WriteFileAtomic` both take their file steps from `TmpRename`.
- `Supervisor` implements `JvmSlot` under `slot <- cmd, alive <- Live`.
- `LogHub` implements `LineFeed`: a reader's place (`at`) is the last line it has
  received (`seen`) and it joins when it is registered; `Console` does so through
  `LogHub`.
- `RateLimiter` implements `TokenBucket`: the level of a bucket (`Level`) is what
  the stored tokens have been refilled to by now, or full where none is stored.
- `Players` implements `WriteFileAtomic`: the file of `WriteFileAtomic` is
  `usercache.json`, a value is the set of players it names, and the writers are
  the deletions. What is proved of the one holds of the other.
- `McLink` is `PlayerList` with more steps: the same requests go on from
  "answered" to issue a code.
- `Console` is `LogHub` with the callers of `Subscribe` and `Unsubscribe`, and a
  receiver that may leave while the lock is held by somebody else.
- What one module needs of another component is reduced to what it can see. In
  `ServerStart`, `Backup`, `PlayerList` and `Players` the JVM comes, goes and obeys
  its console when it likes; in `ServerStop` and `ServerDir` the supervisor is a
  reader of verbs, a JVM and a status that follows; and `status.json` may say "not running" of a server
  that runs (`Misread`, `SendRemoveFails`), or either of any server (`Seen`), which `Supervisor` shows to be
  possible. The console forwarder, which copies lines to the JVM or drops them, is
  the step `Obey` of `PlayerList` and `Players` and `Tell` of `McLink`.
- Small components that share no state are explored one after the other in one
  run: `MCAccounts`, `MCBackupScheduler` and `MCConsole` choose by `part` in the
  initial state which of theirs moves.
- Proof modules: `SupervisorProofs` (with `ServerStart`), `LogProofs` (`LogHub`,
  `Console`, `LogTail`), `McLinkProofs` (with `PlayerList`), `PlayersProofs` (with
  `WriteFileAtomic` and `Properties`), `ServerDirProofs`, `BackupProofs`,
  `BackupSchedulerProofs` (with `ServerStop` and `Runtimes`), `AccountsProofs` (with
  `Roles`, `RateLimiter` and `Avatars`). Each is laid out by component: types first,
  then one section a property, one lemma an action or a group of like actions.

Variables called *history* in the modules exist for the properties only: no guard
of a modelled step reads them. Definitions that begin "Mutant of" are the bugs
each property has been seen to catch; nothing uses them.

## 3. Runs

| Run | Instance | What it shows |
|---|---|---|
| `supervisor` | 2 JVM identities (reused), 2 verbs, any `desired` file found, 1 container start and its end, `writeStatus` sliced away | `StoppedMeansDown`; `ImplementsSlot` (one JVM after the other); `StopLeavesNothing` (RESTART finds a free slot); `HungJvmBlocksNobody` |
| `supervisor_status` | 1 JVM, no verbs, 1 start after any predecessor (a status that is missing, torn or outdated, a temporary file left behind), 1 publication that fails, `writeStatus` in full | `BootPublishesFirst`; `StatusSettles`: torn or stale files are put right |
| `start` | a 2-tick timer, 5 ticks, a ring and channels of 2 lines; one request, 3 sessions and other lines than "Done"; two requests and 2 sessions | `ReadyIsNotStale`, `ServingIsNotKilled` |
| `server_dir` | 2 requests, 2 servers, 7 paths: to each entry and round about to the control directory; requests that meet while no server runs, and single ones while servers and the container come and go | `CreatedIsWhole`, `FreshWorld`, `ControlStays` |
| `console` | the hub: 2 subscribers, ring 3, channel 4, 7 lines, so that the ring wraps twice and channels fill; the console: 2 connections that come and go without end, a ring, a channel and a line of 1 | `ReplayFits`, `Seamless`; `NothingLeaks` |
| `tail` | 2 pieces a line, 4 lines, 2 files, a read-back window of 5 pieces, 1 restart | `ShownAsWritten` (whole, in order, none skipped), `EveryLineIsShown` |
| `players` | 2 updaters, 2 players; one deletion with 2 outside events (start, stop, join, save, update, crash), 2 deletions with one that is no update | `WholeUnlessMixed`, `RemovedIsGone`, `KeysAreKept`, `CacheLosesOne` |
| `mclink` | 2 requests, 2 names, 1 user, 2 roster changes; 2 `list` commands, or one and 2 codes | `ListNeverGoesBack`, `LinkIsProven`, `CodeOnceUnlessRaced` |
| `backup` | a request beside a server with 2 versions, 1 archive, 2 queued commands, 1 crash; the scheduler, keep 1, beside a request, with 3 archives | `WholeUnlessOverlap`, `AWorldSurvives`, `WorldIsBack`, `SavingComesBack`, `PruneLeavesKeep` |
| `scheduler` | scheduler: 2 requests, 12 nanoseconds a minute in an 8-bit word, intervals on both sides of the overflow; stop: 2 requests, 3 verbs, 2 ticks to the kill, 3 to giving up; runtimes: 3 callers, 2 servers | `ScheduleFollowsRow`, `OnlyOverflowPanics`, `ChangeIsRead`; `StopAnswersTrue`; `OneRuntimePerServer` |
| `accounts` | accounts: 2 requests, 2 names, 1 invitation, 2 reset tokens; roles: 2 users, 2 requests (with one target when they meet), any seed at any boot; limiter: 2 addresses, rate 2, cost 3, burst 2, TTL 3, 5 ticks; avatars: 2 requests, 3 pictures | `ResetOnce`, `ResetByNewest`, `InvitationOnceUnlessRaced`; `OverridesFit`, `ManagerRemains`; `BurstBound`; `AvatarsAgree` |
| `roles_owner` | 2 users, 2 requests | finds `OwnerKeepsRole` violated (section 6) |

The bounds. Every hazard here takes two actors, so each run has two of whatever
races; a third is there where a bystander matters (the callers of `Runtimes`). Rings, windows and words are a few elements long with the proportions
of the code: the ring is shorter than the channel, the window longer than a line,
the TTL as long as an empty bucket needs to fill. In `ServerStop` a stop waits 2
ticks and a request 3, as 30 seconds to 45, so that a request that queues behind
another's stop can run out of time. Counters (lines, sessions, versions, servers,
verbs, events, crashes) only make the runs finite; two of each allow "an old one
and a new one", which all the properties speak of. One start of the container is enough
for `Supervisor`, since its initial files are what any predecessor may have left.

Five modules explore a specification in parts (`part` in `MCBackup`, `MCServerStart`,
`MCServerDir`, `MCPlayers` and `MCMcLink`): each leaves out what one group of the
hazards does not need and gives the rest the room, because the product of all of it
is many times larger than what it adds. `MCAccounts`, `MCBackupScheduler` and
`MCConsole` do the same with modules that share no state that matters. What a part leaves out TLC does not see together with the rest;
the theorems of section 5 are about `Spec` itself, without parts and bounds.

`CHECK_DEADLOCK FALSE` is set where these counters can run out.

Symmetry is used on the runs with safety properties only, and only over sets whose
members the specification does not tell apart.

Conditions are part of the property. `WholeUnlessMixed`, `InvitationOnceUnlessRaced`,
`CodeOnceUnlessRaced`, `WholeUnlessOverlap`, the second half of
`OverridesFit`, `ManagerRemains` and the tidiness in `AvatarsAgree` hold until
requests overlap, or one fails, in the way their comments describe, and are false
afterwards. So does `FreshWorld` until a deletion fails or meets a JVM, and
`CreatedIsWhole` for creations that nobody has crossed. The flags are set by the
event itself, not by its consequence, so that each property still says that
nothing else can break it. Those that name a failure of the code rather than an overlap
are, with what they let through in section 6:

- `stray` (`StoppedMeansDown`, `StopLeavesNothing`): the JVM that the auto-start
  launches after a verb has been read. All other JVMs are down after a STOP, also one
  whose `desired` could not be written.
- `faults` (`BootPublishesFirst`): a publication of this boot has failed.
- "blocked" (`HungJvmBlocksNobody`): the goroutine waits for a full pipe to take "stop".
- `misled` and `missed` (`ServingIsNotKilled`): a torn status was taken for "not
  running"; a full channel dropped a "Done" line.
- `mark` (`ReadyIsNotStale`): the sessions over for a tick when START was sent. A
  session that has just ended may have its line still between log and channel, where
  the drain does not reach it.
- `torn` (`KeysAreKept`): an update has read `server.properties` while another had it
  empty, or has died or failed having emptied it.
- `wrecked` (`WholeUnlessOverlap`, `WorldIsBack`): the API died in an extraction or a
  rollback, or a rollback could not remove or rename what it had to. `AWorldSurvives`
  does not have this condition.

## 4. Fairness

Four specifications have any; the rest check safety.

- `Supervisor`: weak fairness of the heartbeat (a ticker), of the control reader,
  of every goroutine that has a step to take, of the waiters, and of the end of a
  JVM that was sent SIGKILL. No fairness of the JVM obeying "stop", or reading a pipe
  that is full (`PipeIsRead`; that the write fails when the JVM is gone, `PipeBreaks`, is
  the goroutine's own step), of verbs, of boots or of crashes. Mutexes are held for a few assignments, so weak fairness is
  enough for who waits for one.
- `LogTail`: weak fairness of the tailer, a loop of reads and sleeps. The JVM
  need not write, rotate or close anything.
- `BackupScheduler`: weak fairness of applying, of the end of a backup and of a
  request that has saved and is about to notify; strong fairness of taking the
  reload message, because `select` chooses at random when a tick is ready as
  well.
- `Console`: weak fairness of both goroutines' steps that stay possible: the
  `select` of the handler chooses at random among what is ready, its tickers tick,
  and the reader's read fails by the pong deadline. Strong fairness of taking the
  hub's lock, which others take in between: a `sync.Mutex` is handed to who has
  waited for a millisecond. Sending a command is taken to return, as it does while
  the supervisor reads the console pipe. Clients, lines and the server do what they
  like.

## 5. Proofs

Checked by TLAPS for any number of requests, JVMs, subscribers, players, tokens,
archives, addresses, pictures and servers, any paths, and any size of rings and
words. All safety invariants and action properties that the runs check are proved.

The assumptions are the named `ASSUME`s of the modules. Bounds are naturals, and
positive where an empty range would leave nothing to do (the archives to keep,
versions, seconds, a ring, a word, a minute, the start timer). `None` and the
goroutines' names are no JVMs; `None` is no user, name, code, list, world, job or
subscriber, `NoPicture` no picture; contents of files differ from `Absent`, `Empty`
and `Garbled`. Five say something of the code: the ring is no longer than the
channel (`hub.go`), the supervisor kills before a stop request gives up
(`StopAssumption`: 30 seconds, 45 seconds), the value of `usercache.json` is the set of
players it names, no line of the log is longer than the window that is read back
(256 KiB; `logtail.go:162` calls such a line degenerate), and the TTL of the rate limiter is long enough for an empty bucket
to fill (`Cost * Burst <= Rate * TTL`, as for every limiter in `main.go`).

- **`SupervisorProofs`.** `TypeCorrect`. `CmdTracks`: `s.cmd` names exactly the
  JVM that is launched and not yet cleared by its own waiter. It is inductive
  with the type invariant, because `start` launches only when `s.cmd` is nil and
  only the waiter clears it. `OneJvm` (never two JVMs) follows, which is not
  inductive by itself. `SlotImplemented`: each step is a step of `JvmSlot` or
  leaves it alone. `StoppedIsDown` and `StopFreesSlot` rest on `OrderInv`: every
  goroutine has one of its few plans before it (`PlansOK`), and (`Orderly`), whatever
  becomes of the writes of `desired`, a start is ahead of the control reader only where
  it was asked for, the process a verb has copied is the only one there can be besides a
  stray one, only main launches a stray one and only after the verb was read, and a verb
  that asks for "stopped" stays busy while another JVM is up. `BootPublishes`, with `BootInv` (how far main's publication
  is while the others have nothing to do, as long as none has failed), is stated for `Publishing`: the other value
  of that constant slices `writeStatus` away for the sake of a run.

  Of `ServerStart`: `StartTypeCorrect`; `ReadyIsFresh`, with `SettledInv` (lines not
  yet broadcast are of sessions that were not over at the last tick, since a tick waits
  for the tailer) and `RequestInv` (so are the lines that come into a channel once it has
  been drained); `ServingSpared`, with `StageInv`: from a tick after the launch on the
  status keeps new requests out, one that waits has the "Done" line before it once that is
  printed, unless a channel was full, and a tick later none waits and no verb is on its way.
- **`PlayersProofs`.** Of `WriteFileAtomic`: `TypeCorrect` and
  `WholeWithoutOverlap`. The strengthening, `LoneUnlessMixed`: the only call in progress
  has the temporary file open and empty until it is filled, and nobody has the
  target open. A crash keeps it, since the next call truncates what it left. Of
  `Players`: `PlayersTypeCorrect`; `ImplementsWriteFileAtomic`, from which
  `CacheIsWhole` follows by the theorem above; `KeysKept`, with the invariant that
  every update in progress carries all keys from its reading on; `RemovedStaysGone`,
  with `GoneInv`: until a list is edited while commands or other deletions are under
  way, who edits a file holds the list that is in it, a command on its way removes for
  sure, and the running server has every entry of the files in its memory, for otherwise
  it would not obey the command and would write the entry back; `OneEntryIsLost`, with `CacheInv`: a deletion that
  was not overtaken still knows the file as it is and is about to write it without its
  own player, who has not joined.
- **`ServerDirProofs`.** `TypeCorrect`. `ControlIsThere`: nothing the file manager
  lets pass names the control directory, since both `Reserved` and `Target` look at
  the cleaned path. `CreationIsWhole`, with `OpenJars` (who alone has the jar open
  is writing its own; of two, both know of a mixture) and `Progress` (how far a
  creation is that nobody has crossed); neither is inductive without the other,
  for a copy that ends writes the jar. `WorldIsFresh`, with `Tidy`: a JVM runs the
  jar that is there and is not being deleted, and a world belongs to that jar or
  there is a deletion that has it still ahead, because `world` is the last entry of
  the listing.
- **`LogProofs`.** Of `LogHub`: `TypeCorrect`, for which `head` and `count` must stay in
  range modulo the ring; `ReplayNeverBlocks`: while the lock is held the channel
  contains what has been replayed and no more. `NoLineLostOrRepeated`: the ring holds
  the last `count` lines at their places, and the channel of a subscriber that has not
  overflowed holds, in order and without a gap, what it has not yet received.
  `FeedImplemented`: from these invariants follows that each step is one of `LineFeed`
  or leaves it alone; a channel is full exactly when a reader that has missed nothing
  is `Cap` lines behind, and registering puts it `Ring` lines back. `ConsoleIsFed` says
  it of `Console`.
  `ConsoleUsesHub`: each step of the handlers of `Console` is a step of `LogHub` or
  leaves it alone, so the above holds underneath them; `NobodyIsForgotten`, the
  part of `NothingLeaks` that is safety: every subscription has a handler that is going
  to end it, the lock is held for a handler still subscribing, and a reader that outlives
  its handler finds the connection closed.

  Of `LogTail`: `TailTypeCorrect`; `LinesShownAsWritten`. `Regular` describes a log
  file: the pieces of a line lie next to one another and lines follow in order, so that
  from one newline to the next there is exactly one line (`LineEnding`, `LineBegins`,
  `LineWhole`); it is kept by what the JVM may do to its files (`FilesInv`). From it
  follows what is read back at the first opening (`BacklogIs`: `Nth` counts newlines by
  cardinality, and in a window that begins in the middle of a line everything up to the
  first of them is dropped) and where following begins (`ResumeIs`). The invariant
  of the reader, `FollowInv`, is that the part it holds is what the file has since the
  last newline before the offset (`Follows`), unless the file was truncated under it;
  `OrderInv`, that all lines sent are older than whatever is still to be read, in this
  file and in later ones, so that opening a new file from its top repeats nothing. It
  is what a truncated file breaks when it outgrows the offset between two polls.
- **`AccountsProofs`.** Of `RateLimiter`: `LimiterTypeCorrect`; `BurstIsBounded`: in
  no window of time does an address get more through than a burst and what the
  rate allows. The strengthening, `Covered`, relates what has passed to the level of
  the bucket as if it were topped up now; `EvictionChangesNothing` says that a
  bucket the janitor removes would be full. From the same invariant `BucketImplemented`:
  the limiter is `TokenBucket`, where nothing is ever evicted. Tokens are whole numbers here and
  floating-point numbers in the code. Of `Accounts`: `TypeCorrect`;
  `ResetsAreSingleUse` (a token that was applied is marked used, in the same
  transaction); `NewestOnly` (a live token is its account's newest) and from it the
  action property `ResetsByNewest`; `InvitationsAreSingleUse`: until two requests
  hold an invitation at once, one at most does, and an account it made was made by
  that one or has marked it used. Of `Avatars`: `AvatarsStayInStep`, with
  `NamesApart`: a file that is not named yet is known to its own request only, and
  one about to be removed is no longer the picture. Of `Roles`: `RolesTypeCorrect`;
  `OverridesFitRoles`, with the invariant that an override decided is not for an Owner
  (only a boot makes one, and no request lives through a boot) and, while requests
  follow one another, is for the role still there; `SomebodyManages`: until requests
  overlap the caller of the one in progress has the permission, and keeps it.
- **`McLinkProofs`.** `TypeCorrect`; `LinksAreProven`, with the invariant that rows,
  requests, commands on their way and what the game has shown agree on whom a code
  was made for; `CodesAreOneTime`: until a code is raced for, one request at most
  verifies it, and once it has made a link its row is gone or about to be deleted
  by the very request; `ListOnlyAdvances`, with `ListInv`: replies are in the order of
  the rosters in log and channels, nobody has been told of a roster later than one
  still on its way, a fetch may come back with nothing older than its floor
  (`RepliesInOrder`), and until two fetches cross the one there is has a floor no lower
  than anybody has been told, while what is in the cache was told last (`OneFetches`).
- **`BackupProofs`.** `TypeCorrect`, with: a job that works on the world holds
  `backupMu`. `SavingResumes`, with `SavingInv`: a job that paused saving is still at
  work and will send save-on, and when there is none, the last command the JVM has had
  or will read is save-on. `ArchivesWhole`, `WorldSurvives` and `WorldBack` rest on one
  invariant, `WorldInv`. Until a restore is wrecked it is `Sound`: all archives are whole,
  and for each step of a create or a restore, what the zip has so far, which of the world's
  places (in its place, aside, extracted) hold a whole one, and who may write there. From
  then on it is `Saved`: among the directories that nobody will remove there is a whole
  world. What leads from the one to the other is the death of the API or a rollback that
  fails (`SavedByWreck`), and these leave the old world aside. `PruningLeavesKeep`, with `PruneInv`: outside what a pruning
  has listed for removal there are `Keep` archives, until somebody deletes by hand; by
  a step of another creation there are only more.
- **`BackupSchedulerProofs`.** `TypeCorrect`; `NoWakeUpIsLost`: a row that
  differs from the schedule comes with a message in the channel, a request about
  to send one, or a scheduler about to read; `PanicsByOverflow`: only an interval
  whose product leaves the positive half of a word can panic the process. Of
  `ServerStop`: `StopsAnswerTrue`, with `StopInv`: the stop a lone request waits for is
  under way at least as long as the request has waited, or it has not waited at all and
  a STOP is still to be read. Of `Runtimes`: `OneRuntime`, with the invariant that what
  a caller has in hand is what the map holds, since the map is looked at again under
  the write lock, and that a tailer is started by the one goroutine that set the hub.

Only model-checked: liveness (`StatusSettles`, `HungJvmBlocksNobody`,
`EveryLineIsShown`, `ChangeIsRead`, `NothingLeaks`), which is out of the prover's reach,
as is `ENABLED`. The two refinements of `LogHub` and `RateLimiter` are proved only;
that of `Supervisor` is a property of the run `supervisor` as well.

## 6. Where the code and its documentation part

Found while modelling. The first is a run of its own; the others are states or
steps of the models, and the reason for the conditions in the properties.

- `handlers/roles.go:13-17`: the Owner role "can never be assigned or edited
  through the API", so that nobody can reassign the original owner.
  `SetUserRoleHandler` checks the new role, never the present one. In the trace of the
  run `roles_owner` the Owner gives himself the role Admin, and is Owner no more; anybody
  else who may manage roles could do it to him as well.
- `cmd/supervisor/main.go:12` and `docs/TECHNICAL_GUIDE.md:50` call `status.json`
  an atomically replaced heartbeat. Two goroutines inside `writeStatus` share
  `status.json.tmp`; one truncates what the other is about to rename. A reader may
  meet an empty or torn file and take the server to be down, until the next
  heartbeat (`StatusSettles`).
- `utils/file.go:52-55`: a reader "never observes a partially-written file". It
  may when two calls for one path overlap, for the same reason.
- `cmd/supervisor/main.go:164-166`: `stop` asks the JVM to stop and "waits up to
  stopTimeout for it to exit before force-killing it". The word "stop" is written
  first (lines 174-176), to a pipe: if a hung JVM has let it fill up, the write waits as
  long as the JVM lives, the time-out never starts, and a KILL queues behind the STOP
  (`PipeIsFull`).
- `cmd/supervisor/main.go:114`: the auto-start acts on what it has read of `desired`. A
  STOP that is read in between finds no JVM, and the one launched after it runs on
  (`stray` in `StoppedMeansDown`).
- `cmd/supervisor/main.go:274-281, 305-309`: errors of writing are logged and nothing
  else. A verb goes on with the old or an empty `desired`, which decides the next
  auto-start; a boot goes on with the predecessor's `status.json`, until the next heartbeat.
- `services/process.go:77`: the replay is drained, "so a stale "Done" line can't be
  mistaken for this one". It can, if the old session ended so shortly before that its line
  has not come from the log to the hub yet (the mark in `ReadyIsNotStale`).
- `types/hub.go:55-61`: a full channel drops lines, the "Done" line among them; a start
  request that misses it sends KILL after two minutes to a server that is ready
  (`missed` in `ServingIsNotKilled`).
- `services/minecraft.go:591-592`: an update of `server.properties` is
  "preserving any existing key not present in properties". One that reads the
  file while another has emptied it drops all of them; so does the next one after a crash
  between truncating and writing, or after a write that failed (`utils/file.go:45`), which
  leaves the file empty or short.
- `services/backup.go:86-88`: autosave is paused "so the zip doesn't capture a
  half-written region file". Nothing keeps the server from being started while the
  archive is written, and nobody looks whether it has obeyed after the two seconds of
  line 97.
- `services/backup.go:234-239`: the rollback restores "the original world so we don't
  leave the server without any world at all". The errors of `os.RemoveAll` and
  `os.Rename` are ignored: what could not be removed keeps the old world aside, and the
  next backup archives the part of a world that lies there and reports success, as it does
  after the API died in an extraction (`wrecked`).
- `INVITATION_AUTH.md:69`: invitations are "single-use". Two registrations that
  hold one at the same time both succeed, as does one after a failure between
  creating the account and marking the invitation.
- `handlers/mclink.go:62`: a "one-time" code. Two requests that verify it at once
  both link, and so does a second one when deleting the row failed.
- `services/permissions.go:131`: a role change clears overrides lest a stale one
  grants something unintended. An override admitted before and stored after a role
  change is in force all the same.
- `services/minecraft.go:363`: of two fetches that cross, the slower one leaves
  its older list in the cache for ten seconds.
- `handlers/server.go:119-140`: deleting the server also removes `.mcmanager`, and
  with it the FIFOs the supervisor has open. Until its container restarts, every
  START is refused (`ControlStays` holds only until then).
- `handlers/server.go:38-39`: "server already exists" is said of any `server.jar`,
  also of the part that a broken download left behind. And `utils/file.go:16-36`
  does not look at the HTTP status: an error page is saved as `server.jar`, and the
  creation succeeds (the flag `crossed` in `CreatedIsWhole`).
- `services/process.go:122`: "server stopped" is also the answer when the status
  file cannot be read, as it is for a moment when it is torn (the flag `alone` in
  `StopAnswersTrue`).
- `types/backup.go:22`: validation rejects nonsensical schedules, but has no upper
  limit: an interval whose nanoseconds overflow is stored, and panics at every
  boot.

## 7. What is left

1. An abstract backup service (a set of whole archives and a world) that `Backup`
   implements as long as nothing overlaps, and `LineFeed` for `LogTail` and `LogHub`
   together: today `LogTail` sends lines, `LogHub` numbers whatever it is sent.
2. Composition of `ServerDir` with `Backup`: a deletion while an archive is
   restored. Both move the world; today each model has the other's steps only as
   failures.
3. The change of an e-mail address in `Accounts`, which a mailed reset token
   outlives.
4. Restarts of the API in `RateLimiter`: its map is in memory, so a restart gives every
   address a new burst. `BurstBound` is about one life of the process.
5. In `Backup`, a JVM killed in the middle of a save. It leaves a torn region file of its
   own making, which a backup archives as it finds it; the model lets a JVM end
   between saves only.
