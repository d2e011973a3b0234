# A TLA+ model of llama-admin

llama-admin starts, watches and stops `llama-server` processes ("instances") for
the users of one machine, proxies inference requests to them, downloads model
files, and authenticates its callers. This directory holds TLA+ modules
translated from its source, the TLC configurations that check them on small
instances, and proofs for TLAPS that hold for every value of the constants.
`PROJECT.json` maps each definition to the lines it models.

    tlc -workers 2 -config MCManagerSerial.cfg MCManager     # one run
    tlapm InstanceProofs.tla                                 # one proof module

Paths below are relative to the repository's root.

## 1. Inventory

| component | state it keeps | operations | hard behaviour | correct when |
|---|---|---|---|---|
| Instance status machine, `pkg/instance/status.go` | one of five statuses; a table of transitions | `Set` | the manager's setters bypass it | every change of a status is in the table, whoever makes it |
| Instance and process, `pkg/instance/instance.go`, `process.go` | status, PID, port, options, `cmd`, `done`; a mutex | New, Start, Stop, Restart, MarkRunning, MarkStopped, MarkFailed | process exits at any moment; SIGTERM, grace period, second SIGTERM, unbounded wait under two mutexes | no process is forgotten; at rest means no process; methods return |
| Request proxy and health poll, `pkg/instance/proxy.go`, `pkg/server/handlers_openai.go` | `shuttingDown`, in-flight count, last use | WaitForHealthy, OpenAIProxy, ServeHTTP | health is asked of a port, not of a process; name, status, flag and port are read one after the other | a running instance serves; health is its own; only a port given back lets another answer; nothing but llama-server holds a request up |
| Port allocator, `pkg/manager/ports.go` | map port -> name, cursor | Allocate, Free, MarkAllocated | two search loops, wrap-around with its own base | refuses only when full; hands out the configured range |
| Manager and registry, `pkg/manager` | name -> Instance; ports; store; its mutex | create, start, stop, restart, delete, update, get, list, logs, Shutdown, loadInstances | the mutex is released after the lookup; one health waiter per start, living minutes longer than the request; rollback after a failed save | starting instances are watched by one waiter; ports follow instances; calls return |
| Instances table, `pkg/database/instances.go` | rows | Save (read, then upsert), Delete, LoadAll | statement faults; two-step save; primary key | rows and registry agree after a restart |
| Server process, `cmd/server/main.go` | listener, manager | boot, SIGTERM, drain, Shutdown, exit, crash | children survive it | shutdown ends; a second server can go on |
| Model downloads, `pkg/models` | jobs, part files, finished files | create, cancel, close, the downloader | goroutines share one part file; cancellation races with the end; files outlive the server | what is completed is what was asked for; outcomes stand; cancelled jobs end |
| Model catalog, `pkg/database/models.go`, `pkg/models/scanner.go` | alias rows, files on disk | register, list, delete, resolve, scan | row and file may disagree | an alias resolves to the file registered |
| Sessions, login and allowlist, `pkg/server/handlers_auth_oauth.go`, `handlers_auth_allowlist.go`, `middleware.go` | users, sessions, allowlist, GitHub's device codes | device start, token exchange, logout, add and remove addresses, middleware | exchange repeated after a lost answer; allowlist edited meanwhile; expiry against a clock; a late Touch | nobody gets in without an allowed address; failed logins leave nothing; an ended session is refused; nothing but GitHub holds a login up |
| API keys, `handlers_auth.go`, `pkg/database/apikeys.go`, `permissions.go` | key rows, permissions | create, list, delete, check | rows read in one query, verified slowly while they expire or are deleted | a deleted or expired key is refused |
| Command-line client, `internal` | saved session | login poll, logout, `start --wait`, one request per command | decoding of error bodies; polling of a status that others change | login ends with a session or an error; a start is reported as it went |
| Configuration, `pkg/config` | the configuration | defaults, file, expansion, environment | precedence | environment over file over defaults |
| Options and sanitizing, `pkg/instance/options.go`, `sanitize.go` | none | parameters to command line | order, blocked keys | no blocked key reaches the command line |
| Instance logger, migrations, routing, CORS, OAuth providers, hashing, website, installers | files, schema | I/O and wiring | none of interest to a model | |

**How they interact.** A REST handler calls one manager operation. The manager
looks the instance up under its mutex, releases it, and works on the `Instance`
object, whose methods take the object's own mutex, then the database. Start
leaves the instance in `restarting` and starts a goroutine
(`waitForInstanceHealthy`) that polls the instance's port and later sets
`running` or `failed`. `loadInstances` starts one goroutine per auto-restarted
instance; `Shutdown` one per running instance, and waits for them. Instances and
the manager share the port allocator through the manager only. Download jobs are
goroutines that share the part file of their repository with one another, and
their status with Cancel and Close. An inference request passes the API key
middleware, which reads the key rows, and then the proxy handler, which looks the
name up in the registry, reads the status under the object's mutex and forwards
through the instance's reverse proxy to whoever listens on its port. Management
sessions, API keys and inference share no mutable state with one another.

## 2. Modules

| module | models | used by |
|---|---|---|
| `Status` | statuses, transition table, `Set`'s check | `Instance`, `Manager` |
| `Supervision` | abstract: what an instance promises its callers about processes | refined by `Instance` |
| `Instance` | Instance objects, `process.stop` step by step, the operating system's processes | `InstanceProofs`, `Serving` (EXTENDS), `Manager` (INSTANCE) |
| `PortAllocator` | the allocator | `PortAllocatorProofs`, `MCPortAllocator`, `MCServices`, `Manager` (INSTANCE) |
| `Manager` | the composition: handlers, waiters, auto-restarts, shutdown, table, server process | `ManagerProofs`, `ManagerSerialProofs` |
| `Downloads` | download jobs and their files | `DownloadsProofs` |
| `Login` | device flow on both sides, users, sessions, allowlist, session middleware | `LoginProofs`, `MCServices` |
| `Keys` | API keys and the check of inference requests | `ServicesProofs`, `MCServices` |
| `Serving` | inference requests and `start --wait` next to an `Instance` that is being managed | `ServingProofs`, `MCServices` |
| `MCServices` | the last three and the allocator, one of them per behaviour | `ServicesProofs` |
| `MC...` | symmetry for TLC; the values are in the `.cfg` files | |
| `...Proofs` | theorems | |

**State and code.** In `Instance`, `born` is the set of objects New has returned;
`status`, `pid`, `port`, `opts`, `hasResolver`, `cmd`, `shuttingDown` are the
fields of those names; `holder[o]` says which method holds `o.mu` between two of
its steps, `stage[o]` where `process.stop` is (`kill`: before the first signal,
`wait`: in the select with the timer, `rekill`: the timer has fired, `block`: in
the last `<-done`). `pstate[p]` is the operating system's view of a launch: `up`,
`listening`, `gone` (exited, reaped and `done` closed). In `Manager` each thread
has `pc`, the operation `op`, its object and `snap`, what Save has read and not
yet written; an object is `<<name, round>>`, so that a deleted and recreated
instance is another object. `registry` is the map of `registry.go`, `rows` the
instances table, `allocated`/`next` the allocator. In `Downloads`, `part` and
`final` are directory entries, `content` the inodes they and the open
descriptors (`fd`) refer to, so that a renamed file that is still being written
is representable.

In `Login`, `cli[l]` is where a run of `auth login` is, `code[l]` its device code
as GitHub has it, `at[h]` where a handler of the token exchange is and then its
answer; a login that polls again after a broken connection has several handlers,
and a session is named after the handler that created it. `sessions`, `users` and
`added` are tables, `token` the client's config file, `touches` the goroutines of
the middleware that have not written `last_used_at` yet. `issued`, `lost` and the
`late` of a request are history: the sessions ever created, the logins of which
an answer was lost, and whether the session had ended when the request arrived.
In `Keys`, `keyState` is the row and `check` a request with the rows its query
returned. In `Serving`, `registered`, `doing` and `freed` stand for the manager:
the object under the name, the one management request at work, and the objects
whose port the allocator has taken back; `request` is an inference request on its
way through the handler, `wait` the command line's poll and the launch it began
with. `Serving` takes from `Manager` only what can be seen from a request and is
therefore smaller; the manager's own interleavings are `Manager`'s.

**Grain.** A method that holds its mutex from the first line to the last and
waits for nothing is one action. Start is two (the status is visible to the
processes and to the health poll in between); Stop and MarkFailed have one per
signal and wait. A manager operation is one action per stretch between two
points at which it can be overtaken. A download has one per system call or
network answer whose order matters.

**Abstractions.** Options, names and files are model values. A zombie counts as
up, as a signal to its group succeeds. Options are read once in Start. The wait
of WaitForHealthy is a step that may end with success whenever somebody listens
on the port, or with failure. Shutdown reads statuses in its goroutines rather
than before starting them. "Not found" and "name taken" are `Refused`. The mutex
of `process.go` is only taken under the instance's and is left out, as is
`proxy.healthy`, which nothing reads. `SetStatus`, `UpdateStatus` and
`MarkAllocated` have no caller in the manager (MarkAllocated is in
`PortAllocator` all the same). A download's file is `Size` blocks, a block being
what one Read returns. Fields written without synchronisation
(`DownloadJob.Status`, `Instance.Opts`) are taken to be read and written whole.
A hash verifies exactly its token or key. Time is a set of events: a device
code, a session or a key reaches its end, the 20 minutes of an exchange are over.
Users do not share addresses with one another as far as the model is concerned;
which of a user's addresses are verified is chosen anew at every exchange. A
database error is a choice wherever the code looks at it, and a lost write where
it does not. The reverse proxy's connection is one step to a listening process,
and an answer is one step.

## 3. Runs

| run | asks | bounds |
|---|---|---|
| `instance` | no lost process, rest means no process, mutex always returned, `Instance` implements `Supervision` | 2 objects on one port, one without a binary; 3 launches |
| `manager_serial` | one process per object, table, watcher, ports, health, launches with ports | 1 name, 2 rounds of creation, 3 launches, 1 request at a time, 1 port, a crash or shutdown and a second server |
| `manager_race` | unsaved creates untouched, one holder per mutex, no PID at rest, no step but markStopped hides a live process | 1 name, 2 requests at a time, database faults |
| `manager_live` | calls return, starts resolve, shutdown ends | 1 name, 1 request at a time, shutdown, auto-restart in a second server |
| `downloads` | completed files, bytes reported, outcomes, cancellation | 2 jobs, 2 files of one repository, 2 blocks |
| `services` | login, sessions, allowlist, keys, answers, `start --wait`, the allocator's cursor and refusals; what can hold up a login or a request | `part = "login"`: 2 logins, 2 exchanges, 1 command, 1 address; `"keys"`: 2 keys, 2 requests; `"serving"`: 2 objects, 2 launches, 2 ports, 1 request; `"ports"`: 2 names, ports 1..6 with 8100, 9000 and 65535 as 2, 4 and 6, configured minimum 1 |
| `ignored_minimum`, `reloaded_start`, `second_create`, `revived_proxy`, `stop_after_exit`, `resumed_part` | one statement of the repository each, that the code contradicts | as above, smaller |

**Why the bounds are enough.** Two launches let an object be started, stopped or
failed, and started again: a property about one object relates at most its
current and its previous process. Health and ports relate two objects, and the
case that decides them is one object of a name deleted while its process lives,
and the next object of the same name started, stopped and started again: three
launches and one name. A second name adds nothing there, as a second row cannot
be saved (`second_create`). Races are between threads on one object. One restart
shows what the next server finds; a second would find the same kinds of rows. Two jobs are enough for one to resume, share
or rename the other's part file, and two blocks for a part that is neither empty
nor whole. Two exchanges are enough for a login to lose an answer and ask again, or
for two logins to overlap; the allowlist is about membership, for which one
address suffices; two objects are an instance and the one that was deleted before
it, and with two ports the latter may have kept its own (deleted while restarting,
its process alive) or given it back, so that both have the same. Two launches are enough in `services` because a third would
have to be told apart from both, and no property there relates three; the proofs
of section 4 have no bound. The four parts of `services` share no variable, so
one behaviour exercises one part: their product would only multiply states.
Creation is bounded by `MaxMade` (rounds of making objects), boots by
`MaxBoots`; both are guards of the actions that count.

**Deadlock** is checked everywhere except in `downloads`, `resumed_part` and
`services`, where the system is allowed to come to rest: every job asked for and
done, every login run and every key created and deleted. In the others a request
that is refused is a step.

**Symmetry** is used in safety runs on names, clients, launches, jobs and files,
which no definition orders or distinguishes. The runs with liveness use none; in
`services` objects, launches and ports are numbers of which the lowest unused one
is taken first (`TakenInOrder`), which leaves out renamings only and is as sound
for liveness.

**Fairness.** Weak fairness on the steps of a goroutine that can run: the Go
scheduler does not starve a runnable goroutine, and `sync.Mutex` hands over to a
waiter that has starved for a millisecond. Weak fairness on the exit of a
process that has been signalled: the assumption that llama-server obeys SIGTERM
and leaves no descendant that holds its output pipe, which the code needs, as
there is no SIGKILL. Not assumed: that a request comes, that a server crashes or
is shut down, that a process becomes healthy or exits unasked, that a remote
server answers. A cancelled context ends the call it is bound to (`net/http`).
In `services` the device code's lifetime and the exchange's 20 minutes pass, the
handlers past their calls to GitHub are scheduled, and the exit of a process that
serves a request is noticed. Reading the status has strong fairness: the mutex is
taken and given back again and again by other methods, and a waiter that has
starved for a millisecond is handed it. Nothing is assumed of GitHub, of the user,
of the client that sends a request's body, of the connection, or of a llama-server
that has accepted a request: it may take for ever. `Allow`, which contains
FetchUserInfo's two calls to GitHub, and `Replies` and `LooksUp` have no fairness
therefore, and the two properties name the wait that is left instead.

## 4. Proofs

Constants are constrained only by `OwnerAssumption`, `RangeAssumption` (allocator), `NoneAssumption` and `BinaryAssumption` (instance),
`ManagerAssumption`, `NullAssumption`, `ThreadAssumption`, `PortAssumption`
(manager), `DownloadsAssumption`, `KeysAssumption` and `LoginAssumption`: distinctness of the
null values and of the kinds of thread, the order of the port range, a file of at
least one block, at least one exchange, and a finite set of logins, over which exchanges are counted.
The configured minimum may be any port number, below, in or above 8100..9000 (the
code checks nothing; a number that is no port is left out).

- `PortAllocatorProofs`. `PortTypeOK` is inductive once it is known what a pick
  is (`PickedPort`): the cursor is at most one past the last port, or at most at
  the configured minimum. `RefusesOnlyWhenFull` needs only that it is a number:
  the two loops cover `WrapLo..LastPort` wherever it stands. `PicksInRange` says
  what a configured minimum is worth, for every one, and needs `CursorAbove`: the
  cursor is never below both the wrap base and the minimum. A port handed out is
  not below both either, and is past the last only if it is below the minimum.
  Hence `LowMinimumIsKept`: a minimum of at most 8100 is kept to; for a higher
  one, `ignored_minimum` shows that it is not.
- `InstanceProofs`. The inductive invariant `IInv` is the conjunction of the
  checked invariants with two more: `OwnersBorn`, a live process's owner exists,
  and `FreshIsQuiet`, an object that does not exist yet owns nothing. The checked
  ones are not inductive alone: `RestIsQuiet` after a successful stop needs
  `SingleProcess`, that the process just waited for was the only one;
  `SingleProcess` after a start needs `RestIsQuiet`, that an object allowed to
  start has none; and the step of process.stop needs the lock invariant, that an
  object in a stage is in the status its method has set. There is one lemma per
  action. `PromiseKept` maps the state to `Supervision` (engaged: not stopped or
  failed; live: `LiveOf`) and shows each step to be a step or a stutter of it.
- `ServingProofs`. Every step of `Serving` is a step of `Instance` or leaves it
  alone (`ServingUsesInstances`), so `IInv` is kept by citing the lemma of
  `InstanceProofs`. `ServInv` adds what ties a request to a process: `Launched`,
  a process has the port of its owner; `PortsApart`, two objects share a port
  only if that of one was given back, after a Stop; `RequestsFit`, a request being answered
  has reached a process on its object's port; `WaitFits`, the launch the command
  line waits for is one. `OnlyFreedPortsStray` follows: same port, hence same object or
  one whose port was given back. `WaitToldRight` is part of the invariant: a stopped or
  failed object has no process by `RestIsQuiet`, and what has gone stays gone.
- `ManagerProofs`. Any number of clients, names, launches, rounds and boots,
  with failing statements, crashes and shutdowns. `MInv` has six parts. `ObjInv`:
  the objects' types, that every launch had a port (Start gets past the resolver
  only with one, and an object loaded from the table gets neither), and
  `PidRests`: no PID is shown at rest, nor while Start holds the mutex, without
  which the manager's own MarkStopped and a failing Start would break it.
  `Threaded`: the label of a thread goes with its operation (`AtOp`), as what
  follows a save depends on it. `Backed`: what the registry and the threads refer
  to exists, and New returns nothing twice; so an object just made is in nobody's
  hands, and `UnsavedUntouched` survives the next creation. `Phases`: the
  goroutines of Shutdown run only after draining, and a server that is gone has
  neither objects nor threads. `Locks`: a mutex that is held has one thread inside
  that object's method, and one that is free has none. `Tables`: registry, rows and allocator.
  A step of one thread keeps the parts about the others by `ThreadStep`; what is
  left per action is the operation's own effect. `ManagerUsesAllocator`: each step
  is one of `PortAllocator`'s, or ends the server, which empties the allocator.

  The rest of the module is about one line, `registry.markStopped`
  (`operations.go:120`), which looks a name up again and sets stopped whatever it
  finds. Its theorems go from no hypothesis to one about which requests may
  overlap, each a formula about behaviours that implies the one before it:

  1. *None.* `MarksAloneHide` (`OnlyMarksHide`): no other step takes the PID of a
     live process off an instance; it needs `PidIsCmd`, that a PID is always that
     of `cmd`. `Base` is `MInv` with `Kinds` (which thread performs which operation),
     `Resolved`, `Rounds` (no process belongs to an object still to be made),
     `Bare` and `Equipped` (a loaded instance has no resolver and gets no further
     than a failed Start). It gives `LoadedNeverRun`: nothing makes a loaded
     instance run, which is the first disagreement of section 5 for all bounds.
  2. `[]MarksOnlyQuiet`: *no mark hits an object with a process.* Then `Calm`
     (`Base` and `Quiet`: the only live process is the one `cmd` shows, and at
     rest there is none) is inductive with any requests overlapping, and with it
     `OnlyMarksLose`, `ManagerUsesInstances` (a step of the manager is a step of
     `InstSpec` or leaves the objects alone, or it is the end of a server or a
     boot) and `ManagerKeepsPromise` (the manager as a whole keeps `Supervision`,
     but for the end of a server, which its processes outlive).
  3. `[]MarksStopped`: *a mark finds stopped what it declares stopped.* Then
     `Attending` is inductive: whoever will end a start, first Start, then its
     caller up to the save, then the waiter, is alone with it, and the object
     restarts until then. Hence `OnlyMarksLeaveTable`, as the setters that do not
     consult the table are called from the right statuses only, and
     `WatchersAreOne`; and by `StoppedMarksLoseNone` everything under 2.
  4. `[]StopsAlone`: *no other request for its name overlaps with a request to
     stop*; starts, restarts, updates and deletions may overlap with one another
     as they like, and so may everything that is not a request: any number of
     waiters, the auto-restarts of what was loaded, shutdowns, crashes, boots and
     failing statements. (A thread with a request, `Asks`, is a client, or an
     auto-restart so late that it finds an instance made after the boot.) `Sole`
     is what makes it work: an object is registered under its own name (`Filed`),
     Shutdown stops instances only after the last request (`Drained`), Stop sets
     the proxy's flag first (`Flagged`), a request's object is the registered one
     until it is deleted (`HeldBy`), and what a stop has found not stopped is
     stopped by nobody else and stays stopped until it says so (`StopsAt`).
     `MarkStoppedFindsItQuiet` discharges 2 and 3, and `OneProcessEach`,
     `RestHasNoProcess` and `TableIsFollowed` follow.

  `Calm`, `Attending` and `Sole` need one another: a waiter that sets `running`,
  or begins MarkFailed, would otherwise do so to an object that a request has
  stopped. The objects' part of every step is proved once, in `NextCalls` and
  `ObjStepMoves`, and the threads' part once, in `StepKinds` and `RestKeeps`.
- `ManagerSerialProofs`. What also needs that starts, creations and deletions
  take turns: `SerialByName` says that no two threads with a request at hand have
  objects of the same name, `Serial` that no two have any. All else is as above.
  `SerialStopsAlone` shows that the former implies `StopsAlone`, so the theorems
  above hold of it. `SInv` adds to them that `HeldBy` and `StopsAt` hold of every
  request. And the hypotheses can be met: `OneClientIsSerial` proves `Serial` for
  one client, across crashes and boots, if no boot starts instances by itself, and
  `OneClientIsSafe` states what this gives with no hypothesis about behaviours;
  `manager_serial`, whose boots do start instances, reaches no state without
  `Serial`, as a late auto-restart needs a third round of creation. Without any
  hypothesis the properties are false: with two clients, TLC finds each violated
  (section 5).

  `RestartingIsWatched` also needs `Watched`, that each restarting object has its
  thread, and `RInv`, that what is registered has its row or its creator, and that
  there is one row, so that the save of a start cannot fail on the id. It assumes
  `Reliable`: no statement fails and no object lacks a binary. Each is necessary
  (section 5, second deviation). `PortHeld` and `HealthIsOwn` relate instances of
  different names through the allocator and are proved under `Serial`, from
  `PInv`: a launched object that was never stopped still has its port allocated
  (`PortKept`), also when it was deleted while it started, which is why the next
  instance gets another (`PortsApart`); and until the first boot, a process has
  its owner's port (`OwnPorts`).
- `LoginProofs`. `LoginInv` has four parts besides the types. `Written`: a
  handler exists from its POST on, and its session from CreateSession on.
  `InStep`: as long as nothing of a login was lost, its handler is connected to
  the client, and a session it has created is on its way or has arrived; this is
  what makes `FailedLeavesNothing` inductive. `LateStays`: a late request never
  leaves the middleware and its session stays ended. `NobodyAllowed`: without a
  configured address no handler gets past the allowlist, which needs the empty
  table, which needs that nobody holds a session.
- `ServicesProofs`. Of `Keys`: a request whose key has ended reads rows that do
  not include it, and a key that has ended does not come back. Of the composition
  that TLC runs: `ServicesAreEach`, a service that a behaviour is not about
  stutters, so every behaviour is one of each service; hence `ServicesTypeOK`, and all
  that is proved about `Login`, `Keys`, `Serving` and `PortAllocator` holds of what
  the run checks (`ServicesKeepTheirs`).
- `DownloadsProofs`. `DownInv`: `Asked`, a job has a source from its creation on;
  `Stops`, a job that runs and has not been stopped has a status that Close
  looks for; `Streams`, what a streaming job has appended since it opened the
  file is the prefix of its answer, provided nobody else wrote. The
  properties about files follow from it: `AppendedIsIntact` at the rename, where
  the answer has come to its end, `CountIsSize` while it streams.

All were checked with TLC before they were proved, the invariants included.
Theorems about `Instance` are about `InstSpec`: any number of callers, any order,
one obligation, that MarkStopped is called on an object without a live process.
`MarkStoppedFindsItQuiet` and `ManagerUsesInstances` show that the manager meets it
as long as stops are alone with their name, and `ServingUsesInstances` that
`Serving` does.

**Only model-checked:** liveness (`MethodsReturn`, `CallsReturn`, `StartsResolve`,
`ShutdownEnds`, `CancelledEnds`, `LoginEndsOrAwaitsGitHub`,
`RequestEndsOrAwaitsAnswer`), which rests on fairness and ENABLED and is out of the prover's reach. Every invariant and every
action property of a passing run is stated by a theorem.

## 5. What the checks show

With one request at a time and a working database the manager keeps its
instances: statuses change only along the table although three setters bypass
it, each starting instance has exactly one goroutine that will end the start, no
llama-server is launched without a port or while an earlier one of the same
object lives, and an instance's health is its own process's. With two requests
at a time the mutexes still have one holder, a create that must be rolled back
has been used by nobody, no interleaving shows a PID on a stopped or failed
instance, and no step but that of markStopped hides a live process. Every call returns if llama-server obeys SIGTERM.

A login ends whatever the network, the user and the server's restarts do, unless
GitHub, having redeemed the code, never answers the handler's questions about the
user; and one that fails leaves a session behind only if an answer or the config
file was lost. The allowlist cannot be bootstrapped from nothing, a session that
has ended is not served by a request that arrives later, and no late write of the
middleware revives it; the same holds of API keys. An inference request may be
answered by another instance than the one it names, but only over a port that a
Stop has given back (below); a restart, or the deletion of an instance whose
process lives on, never leads there. Once it has found its instance, it ends, or it
waits for ever for a llama-server that lives and does not answer. `start --wait`
does not report the failure of a start that goes on. The allocator refuses only
when every port is taken. A download that had its part file to itself is the file
that was asked for, also after a resume, and the bytes it reports are those in the
part file.

### Disagreements shown by a run

1. `reloaded_start`: after a server restart an instance has no port and no
   resolver, and starting it fails, although `manager.go:71` says a port will be
   allocated. `plans/phase-2-instance-lifecycle/plan.md:134` plans otherwise too.
2. `second_create`: every instance is saved with id 0, the primary key, so the
   second one cannot be saved.
3. `revived_proxy`: Stop sets the proxy's shutting-down flag for good; an
   instance started again answers 503.
4. `stop_after_exit`: stopping an instance whose process has exited is an error
   and leaves it in `shutting_down`, from which no operation leads out.
5. `resumed_part`: the part file belongs to the repository, so a download can
   complete with another file's blocks in it.
6. `ignored_minimum`: the search for a port begins again at 8100, whatever
   `instances.portRange.min` is. A minimum of 8101..9000 is not respected after the
   first wrap-around, and with one above 9000 the first port handed out is 8100,
   although `landing/content/docs/configuration.md:61` calls it the range allocated
   to instances. `portRange.max` is not used at all.

### Known deviations without a run of their own

They follow from the same models or from reading, and bound the properties above.

- Two requests for one name at a time: between Stop and markStopped a start can
  launch a process that is then declared stopped (`operations.go:120`);
  `SingleProcess`, `RestartingIsWatched` and `StatusFollowsTable` are therefore
  checked for requests that take turns, and with two requests at a time
  `OnlyMarksHide`, that no other step hides a live process. The proofs say how much of
  that is needed: all but `RestartingIsWatched` hold as soon as a request to stop
  is alone with its name, and the mark is the only step that can break them
  (`OnlyMarksLose`, `OnlyMarksLeaveTable`). A markStopped that
  changed nothing unless the instance is stopped would need no such condition.
  Proved for requests in turn are `PortHeld` and `HealthIsOwn`: of a stop and a delete of the same instance, the later one
  gives back a port that a new instance may already have. An auto-restart
  can be the second request: it goes by name (`manager.go:79`), and if the
  instance is deleted, made and started again before it runs, it meets a stop of
  the new one.
- A save that fails after Start (`operations.go:74`) leaves no waiter, and an
  empty `binaryPath` (`instance.go:129`) no process: both stay in `restarting`,
  and a restarting instance can be neither stopped nor started. It may be updated.
  `config.example.yaml:29-30` says that an empty path is looked up on PATH; the code
  does not look. `manager_serial` and `manager_live` run without database faults,
  and `RestartingHasLaunched` excepts objects without a binary.
- Ports leak when New refuses the options (`operations.go:30`) and when an
  instance that is not running is deleted.
- Save reads and writes in two steps: saves of a request and of a waiter may be
  written in the other order, and a waiter may write a row that was deleted.
- Deleting an instance that is restarting does not stop it
  (`operations.go:161`): its process goes on, under no name, once its waiter has
  found it healthy.
- A crash, or Shutdown while an instance is restarting, leaves its process, which
  keeps its port and answers health checks of the next server. There is no
  escalation to SIGKILL (`plans/phase-2-instance-lifecycle/plan.md:150`).
- `process.wait` reads `cmd` and `done` without the mutex and may, if it is
  scheduled only after a second start, wait for the wrong process.
- A port that Stop has given back may belong to another instance, and then an
  inference request may be answered by another than it names, in two ways. Its own
  instance is stopped and deleted, and another is created and started on the port,
  between the request's look at the proxy's flag and its connection
  (`handlers_openai.go:115`). Or an instance that was stopped is started again on
  the port it no longer holds and deleted while restarting; its process goes on
  answering on a port that the next instance is given. `OnlyFreedPortsStray` shows
  that there is no third. `HealthIsOwn` excepts objects that have been stopped.
- `FetchUserInfo` (`pkg/auth/github/github.go:69-87`) does not bind its two requests
  to the context it is given, and its client has no timeout, although
  `handlers_auth_oauth.go:60-64` caps the wait "so we don't hold the request open
  forever". A GitHub that stalls there holds up the handler, and the command line
  that waits for it, for good.
- The reverse proxy has no timeout: a llama-server that accepts a request and
  never answers holds it until the client hangs up.
- The session middleware covers the five `/auth` routes of `routes.go:45-55` only.
  Those of instances, API keys and models (`routes.go:57-98`) have none, although
  `README.md:12-13` says that the management API is protected by session tokens.
  `Login` says of sessions what they guard: those five routes.
- A request to an instance that is being stopped waits for the mutex and then
  sees "stopped", rather than getting 503 "immediately"
  (`plans/phase-3-openai-proxy/plan.md:20`).
- The client's device flow reads the server's error object as a string and polls
  on until the code's lifetime is over, where
  `plans/phase-6-cli/plan.md:109-113` plans to tell 408, 429 and other errors
  apart; the server answers none with 408. `FailedLeavesNothing` and
  `LoginEndsOrAwaitsGitHub` hold all the same.
- A session created for an answer that was lost stays until it expires. An
  address removed while a login is past the allowlist check still logs in, and
  existing sessions of a removed address go on. Removal compares with the
  configured addresses without regard to case, login compares exactly.
- `DeleteSession` ignores a database error: the client forgets a token that the
  table keeps.
- `api-keys create --expires 7d`, as its help suggests
  (`src/internal/cmd/api_keys.go:184`), makes a key that has expired at once:
  ParseDuration knows no days and its error is dropped. `Expiries` has that case.
- `permission_mode` and `key_permissions` are recorded and never consulted,
  unlike `plans/phase-4-api-key-auth/plan.md:22-24`; a key that passes the check
  reaches every instance, and `Keys` says no more than that.
- The deadline of `start --wait` is looked at between two polls only, and a poll
  waits for the instance's mutex.
- Downloads: `cancelled` can be overwritten by `failed` or `completed`; a 200 to
  a ranged request is appended; nothing verifies the file although the plan says
  so. The total is the length of the answer and not of the file, so a resumed job
  reports more than the total, and more than 100 %.
- Outside the models: foreign keys are not enforced, so permission rows outlive
  the key; `APIKeyStore.List` selects eight columns and scans nine, so listing
  fails once a key exists; `api-keys grant` sends the instance's id as a string
  where the handler decodes a number.

## 6. Not modelled

- **Pure functions of strings**: sanitizing of llama-server's parameters, and the
  configuration's precedence, expansion and dotenv parsing. They run without
  state or overlap; what they are worth checking for is the strings themselves,
  which these models abstract.
- **Model catalog**: one statement per operation, guarded by a UNIQUE constraint,
  and a directory walk.
- **Logger, migrations, routing, CORS, request logging, website, installers**:
  I/O and wiring.
- **Cryptographic primitives**: hashing, token generation and key formats are
  taken to be injective and fresh.
- **Parts of modelled components**: per-instance permissions, which no request
  reads; the in-flight counter and the last use of the proxy, which nothing
  reads; error texts of downloads, their total, and answers without a
  Content-Length, to which startOffset is not added; bodies, JSON and error formats;
  `wait` scheduled late (section 5), whose outcome depends on a data race between
  two generations of one struct.
- **Two managers' worth of detail at once**: `Serving` has the manager's effect on
  one instance, not `Manager` itself. Their product is beyond TLC at bounds where
  anything happens, and the interleavings of management requests are checked in
  `Manager` without inference.

What would come next: a version of Save that writes under the object's mutex, or
an orphan reaper, would make properties about rows and processes across crashes
statable; neither exists in the code, so there is nothing to check them against.
