# ContextForge control plane: TLA+ models and proofs

Specifications of the stateful core of this repository: what they model, what
TLC checks about it, and what TLAPS proves. Sources are named by their path in
the repository; `PROJECT.json` maps every definition to the lines it stands for.

## 1. The system

The repository is the operator's workspace around an IBM ContextForge MCP
gateway. Coding assistants (Codex, OpenCode, Gemini CLI, Claude Code, Pi) reach
shared MCP services through the gateway, and a *helper* MCP server sets each
project up for them.

| Component | State it keeps | Operations | Interacts with |
|---|---|---|---|
| Project state store (`scripts/control_plane_project_state.py`) | `<project>/.../context_forge_state.json`, its lock file, temporary files | load, default, `write_state_atomic` under `state_lock` | every helper process |
| Helper MCP server (`scripts/contextforge_helper_mcp.py`) | in-process plan/receipt caches, one durable cache file per project, a catalog read-back cache | MCP tools: propose, approve, apply, repair, reset, service management, onboarding | init helper, store, gateway HTTP |
| Project-init helper (`scripts/control_plane_project_init_helper.py`) | pending challenges and consumed receipts (process globals) | propose, approve, apply, repair, decide, reset, recover | store, binding, authorization |
| Client binding (`scripts/control_plane_contextforge_binding.py`) | the clients' project-local config files | plan a config text, plan a job | init helper |
| Authorization (`scripts/control_plane_authorization.py`) | none | create and validate receipts, compare stale-plan inputs | init helper |
| Service management (tools of the helper MCP server; candidates from `scripts/control_plane_service_management.py`) | decisions and jobs in the state, entries in the configs | enable, disable, remove, repair, decline, defer | store, binding |
| MCP wrapper (`scripts/contextforge_mcp_wrapper.py`) | token cache file and its flock, a scoped token on the gateway | log in, create a scoped token, forward stdio to HTTP, revoke | gateway HTTP, other wrappers |
| npm stdio host (`docker/contextforge-harness/scripts/npm_stdio_host_*.py`, `apply_onboarding_runtime_package.py`) | a record per service and an index of them, runtime state, installed trees and their markers, bridge processes, gateway rows | apply a package, delete one, both levels of rollback | the host proxy, the gateway |
| Serena instances (`scripts/manage_serena_project_instance.py`) | manifest, script, unit, directory and gateway rows of each project, one port each | create, refresh, verify, remove | provisioning, systemd, gateway |
| Service onboarding (`scripts/control_plane_service_onboarding_*.py`, tools of the helper) | draft files, recorded packages, the latest message of the user | draft, preview, approve, execute | npm host through `runtime_apply_host_proxy.py` |
| Pi extension (`pi-extensions/contextforge-global-shim/index.ts`) | routes, wrapper processes, the project shown | activate, call a tool, manage services, reload | state file (reads), helper, MCP wrapper |
| Hooks (`scripts/*_project_init_hook.py`, `.codex/hooks`) | none, or one snapshot file | classify the state, print context | store (reads) |
| Registration scripts, trust broker, planner, read models, operator tools | none of their own | idempotent upserts, pure functions, reports | gateway |

### What is hard in it

* **Several processes, one project.** Each client session runs its own helper.
  They share the state file, the configs and the durable cache. The only lock
  is the one inside `write_state_atomic`; a read-modify-write spans it.
* **Two files, no transaction.** An installation is an entry in a client config
  and a job in the state. Apply writes config, then state; reset removes state,
  then entries. A crash, an error or another session can fall in between.
* **Checks long before writes.** Apply verifies receipts and staleness, then
  provisions for minutes, then reads again, writes twice, and verifies the
  receipts once more.
* **Approvals survive processes.** Plans and receipts are cached in memory and
  on disk, expire after fifteen minutes, and are consumed in memory only.
* **Two records of one choice.** Whether a service is enabled is a decision in
  the state; whether a client sees it is an entry in its config; what a repair
  restores is a third record, the job. Each tool updates some of them.
* **Start-up stampedes.** A session starts one wrapper per service at once; all
  share one admin token, one cache file, and a gateway that refuses frequent
  logins.
* **Locks time out.** A lock file older than 60 seconds is unlinked by whoever
  meets it.
* **Two executors, one host.** The proxy serves each request in a thread; the
  runtime command of a run outlives the 60 seconds its executor waits. Nothing
  is locked: the index, the install directory, the port and the gateway rows
  are all read, changed and written back.
* **Readers derive.** Nothing in the state file says in so many words what a
  client should do next: hook, helper and Pi extension each derive it, from
  jobs whose order in the file is that of their hashes.
* **One event loop, many activations.** Tools, events and reloads of the Pi
  extension each stop what the last activation started and start it anew,
  awaiting one wrapper after the other.

### What makes each component correct

* Store: writers are serialised; a write is atomic and numbered; a
  compare-and-swap caller never overwrites what it did not read; a dead
  process's lock does not block for ever.
* Project initialisation: the state never claims an installation the config
  lacks; the user's own entries survive; an approval covers the plan the user
  saw, once, over the files it was made for; a persistent user gets there.
* Service management: a decision is not lost or resurrected by another tool;
  jobs, decisions and entries agree.
* Project document: what one reader has to resume another tells of; an
  installation for one client leaves the others alone; a repair that writes
  leaves nothing to repair.
* Wrapper: one login per expiry under concurrency; no scoped token outlives its
  wrapper unless it crashes.
* npm host: a run that reports success is whole, one that reports a rollback
  has restored, a delete leaves nothing, every bridge is known to somebody, two
  services never share a gateway URL.
* Serena: one port, one project; a create that succeeds is whole; no listener
  answers under another project's name.
* Onboarding: what is sent is what was shown and approved; answers are not
  lost; a persistent user gets his service.
* Pi extension: the routes follow the state file; no wrapper is left behind;
  every wait ends.

## 2. Modules

| Module | Role |
|---|---|
| `AtomicStore` | what the store promises: one register, read and committed in single steps |
| `StateStore` | `state_lock` and `write_state_atomic`, system call by system call; refines `AtomicStore` |
| `MCStateStore` | `StateStore` for TLC (symmetry) |
| `ProjectInit` | plans, approvals, apply, repair, decisions, reset over state, configs and cache |
| `MCProjectInit` | `ProjectInit` for TLC (which sessions exist) |
| `ProjectInitProofs` | theorems about `ProjectInit` |
| `McpWrapper` | wrapper processes: token cache, lock, login, scoped token, every way to exit |
| `MCMcpWrapper` | `McpWrapper` for TLC (which gateway each wrapper has) |
| `McpWrapperProofs` | theorems about `McpWrapper` |
| `ServiceManagement` | the service tools over state, configs and jobs |
| `MCServiceManagement` | `ServiceManagement` for TLC (whose session each helper is, symmetry) |
| `ServiceManagementProofs` | theorems about `ServiceManagement` |
| `ProjectDocument` | what the state file says: activation, repair, decisions, normalisation on load, and what each reader concludes |
| `MCProjectDocument` | `ProjectDocument` for TLC (selections, files of an older helper) |
| `StateFileProofs` | theorems about the state file: `StateStore`, which writes it, and `ProjectDocument`, which says what it means |
| `SerenaInstance` | the manager of the per-project Serena backends, command by command |
| `MCSerenaInstance` | `SerenaInstance` for TLC (the command lines in use) |
| `SerenaInstanceProofs` | theorems about `SerenaInstance` |
| `NpmHost` | executors, runtime commands, records, bridges and gateway rows |
| `MCNpmHost` | `NpmHost` for TLC (services, two with one port, and commands) |
| `NpmHostProofs` | theorems about `NpmHost` |
| `Onboarding` | drafts, packages, approvals and requests to the executor |
| `MCOnboarding` | `Onboarding` for TLC (who does and says what) |
| `OnboardingProofs` | theorems about `Onboarding` |
| `PiShim` | activations, wrapper processes and routes of the Pi extension |
| `MCPiShim` | `PiShim` for TLC (services, what is approved at first) |
| `PiShimProofs` | theorems about `PiShim` |

How they fit: `StateStore` justifies taking an access to the state file as one
step in `ProjectInit` and `ServiceManagement`, which say when each handler
reads and writes; `ProjectDocument` takes a handler as one step and says what
it writes. `Onboarding` takes the executor as one step, `NpmHost` is about that
step. `SerenaInstance` is what provisioning runs. `PiShim` starts the processes
of `McpWrapper`, knows of them only that they answer, fail, end or stay silent,
and takes from the file what `ProjectDocument!Imported` takes.

### StateStore

A process walks through `open` (`O_CREAT|O_EXCL`), `stat`, `break` (unlink of a
stale lock), `read` (load under the lock and the revision test), `replace`
(`os.replace`) and `release`. `base` is what its caller read before asking for
the lock. The document is the set of the updates it incorporates, which is all
the properties need to see a lost update. `Crash` ends a process at any label
and leaves its lock file; `LockAges` lets the lock file pass 60 seconds;
`Rewind` is the project reset or outside damage.

`mishaps` is a history variable that names the events locking does not survive:
`overlap` (two recoveries of one lock), `overstay` (a live holder beyond the
stale age) and `rewind`. The main properties say that nothing *else* breaks
them.

### ProjectInit

State file accesses are single steps here, which `StateStore` justifies. One
helper process per session; handlers that write more than once are split at
each read and write (`provision`, `plan`, `config`, `state`, `consume`; a reset
is `reset`, where it reads the config, and `erase`, where it writes what it has
computed from that). `durable` is the cache file; `mem` the process's caches and consumed
receipts; `shown` the plan the session's user has on screen. `Crash` falls
between any two steps, including in the middle of a config write, which is done
in place and leaves an empty file. `Edit` is the user taking a name or deleting
owned entries, `Damage` an invalid state file, `Expire` the fifteen minutes.

Four histories serve the properties. `edits` are the names the user has taken
while no handler was between its read of that config and its write; `recorded`
the jobs and declined services that sessions wrote while no handler was between
its last read of the state and its write, less what a reset, damage or a later
installation changed on purpose; `receipts` the approvals with the plan that was
on screen; `applied` the state writes of each session with each approval.

`mishaps` names what the handlers do not guard against: `clash` (two handlers
rewriting one config, or a reset beside anything), `torn` (death inside a config
write), `drift` (the user deletes owned entries), `damage` (something else left
an invalid state file, which only a plan made over it replaces).

### McpWrapper

Each wrapper runs once: `probe` (the cache, without the lock), `lock`,
`recheck`, `login` (with the retries after 429, the lock held), `truncate` and
`fill` (the cache file is written in place), `resolve`, `create` (the POST for
the scoped token), `created` (before the signal handlers are installed),
`serve`, `revoke`. An admin token is `fresh` while it has the minute that
`_cached_token` demands, then `closing` (no longer taken from the cache, still
accepted), then `expired`. A death releases the flock wherever it falls, and
leaves an empty cache between `truncate` and `fill`.

Histories: `killed` (died with no handler running), `cut` (an exchange with the
gateway whose outcome the process missed), `gone` (tokens the cache lost to a
death or to a wrapper of another gateway).

`forward_once` is not in it, nor the refresh on 401: `main` hands it no
credentials, so that branch never runs.

### ServiceManagement

One action up to the first write of each tool call, then its reads and writes:
`row` (the status has been looked up; fetching the catalog takes an HTTP round
trip), `config`, `read` (disable and remove read the state a second time) and
`state`. `digest` is the config each job has left behind, which decides whether
a repair writes anything. Only OpenCode entries are ever taken out
(`Removing`); only a repair for Pi records the services anew
(`Reactivating`). `off` remembers what was disabled or removed through a
client and not enabled since.

`mishaps`: `clash` (two calls that rewrite one config), `overlap` (any two calls
at once), `cut` and `torn` (a death between two writes, or inside a config
write), `drift` (the user deletes an entry), `repaired` (a repair of a job that
lists something taken off), `redecided` (a disabled service is declined or
deferred). Each exemption in a property is needed: TLC refutes it without.

The catalog offers every service at any time, old or not. Service bindings are
taken to be valid state keys, so that decisions under a binding and under its
key are one.

### ProjectDocument

`file` is the document as written; `Load` normalises it as every reader does.
`Activate`, `Repair`, `RepairMissing`, `Decide`, `Disable` and `Remove` are the
whole operations, `Reregister` a new virtual server in the gateway, `Edit` the
user's change to a configuration. A job id stands for its place in the sorted
file and a new one may fall anywhere, as hashes do. `Resume` is what the helper
finds to do, `Recommended` what the hook says, `Imported` what Pi loads. `last`
remembers the job of each client's latest activation. `Among`, the filter by
which a repair sorts the services of a job into those on record and the others,
is a recursive function, so that its results can be reasoned about.

### SerenaInstance

One action per observable write: `create` takes the flock for `reserve`,
`script` and `unit` and does the rest without it, in `round`s of truncating and
filling the manifest. Refresh, verify and remove take no lock. `listener` is
what answers on a port, which may be a `Stranger`; the readiness probe cannot
tell. Histories: `exposed` (ports chosen while somebody else had them),
`disturbed` (commands that met another on their project).

### NpmHost

Two processes per run: the executor (`pc`) and the runtime command it starts
(`wpc`), which goes on when the executor has stopped waiting. Executor: record,
index, runtime, gateway, resource, server, then either the report or the
rollback of what it saved. Runtime command: install, marker, stop the known
bridge, launch, wait, record, or its own way back. Any step may fail, any
answer be lost, any process die (`trouble`). So may the stop of the former
bridge: one that had to be killed does not count as stopped, and nothing is
brought back should the launch then fail; a delete whose stop failed is partial,
which the executor takes for a failure. Histories: `origin` (the services
when a run began, and whether a bridge has since come up and ended by itself),
`disturbed`, `strayed` (ports with a bridge nobody may know
of), `blind` (ports whose record was out of sight when somebody looked for a
conflict), `spoilt` (an install that
was interrupted after its marker).

### Onboarding

Draft files are read in one step and written in two (`cut`, `fill`); a package
is recorded under its id in two; an execution passes `gate` (the message of the
user is read), `load` (the package), `send` (both once more) and `sent`. A
request whose caller has given up is `adrift` and may still be executed.
`consented` holds the sessions in whose call an approval of it has stood at
some time; `rivals` the services whose draft two calls write at once.

### PiShim

One step is what runs between two awaits. An activation waits at `ack` (a helper
acknowledges the reload), `init` (the wrapper's answer to initialize), `list`
(its tools) or `cut` (what it waited for was refused, and it continues before
any other event). A wrapper belongs to the list of the load of the extension
that started it, once it has answered, and to none before. `mishaps`: `overlap`
(two activations at once), `elsewhere` (another client changed the file since),
`late` (a reload fell into an activation).

## 3. Runs

| Run | Shows |
|---|---|
| `store` | the lock serialises writers, a write takes effect at one point, compare-and-swap never clobbers, an orphaned lock is recovered, under a crash, an overstaying holder, resets and damage |
| `init_sessions` | two sessions of two clients, every operation: installations are configured, the user's entries survive, an approval installs once, no session takes back what another has recorded |
| `init_persist` | a persistent user gets his client set up |
| `init_other_sessions_plan` | **violated**: an approval falls on another session's plan |
| `wrapper` | one login per token lifetime, tokens stay with their gateway, scoped tokens are revoked, everyone comes to serve or exits |
| `services` | what was taken off stays off; what is Enabled is configured |
| `serena` | one port, one project; listeners stay apart; a create that succeeds is whole |
| `npmhost` | bridges are accounted for, two gateways never share a port, a reported rollback restores, a success is whole, a clean delete leaves nothing |
| `onboarding` | what is sent was shown and approved, accepted answers are kept, a persistent user gets his service |
| `document` | the hook tells of the helper's work, the current job is the latest unless an older one sorts behind it, other clients keep what they have, a repair that writes settles |
| `document_repair` | **violated**: the helper asks for a repair that then finds nothing to do |
| `pi` | routes follow the state file, no wrapper is left behind, activations and calls end |

Two type invariants (`McpWrapper`, `ServiceManagement`) are left to their
proofs. `init_sessions` does not check `ApprovedAsShown`, which the violation run
is about: a session alone keeps it, as `ShownSafety` proves.

### Bounds

* Store: two writers are enough for the recovery race, because a process that
  crashed comes back under the same name: both can meet the dead one's file.
  One commit each makes two revisions, of which a stale one can be compared.
* `ProjectInit`: two proposals and two approvals let an old plan meet a new
  one; a crash, a reset, an edit, a decision, an expiry and the second proposal
  can each fall at any point of the other handlers, any two of them in one
  history (`AnyTwo`): with a session provisioning, another deciding and one
  mishap that is what a lost record, a second installation or an edit between
  read and write take. Two services let a plan and an edit of the user's concern
  different names, one suffices where only the sessions matter.
* Wrapper: two wrappers of one gateway race for a login, a third of another
  gateway shares the file; two logins are what a stampede takes.
* Services: two sessions of one client and one of another, three calls: the
  shortest harmful histories (install, take off, repair; install, disable,
  decline) have three, and each call has up to four steps that interleave. With
  two sessions and four calls the same properties hold.

* Documents: two jobs for two clients over two services, one with two services:
  an older job can sort behind a newer one, and a repair can drop or reorder a
  service. Two changes by others (decision, removal, edit, registration) can
  fall before, between and after. Three files of an older helper, one for each
  validation it recorded.
* Serena: two ports for two projects, so that a port given away too early is
  missed at once; three commands and one mishap (a death, a failure, a stranger
  on a port) by two processes.
* npm host: three services, two of them on one port; three commands and two
  troubles, an overlap of runs costing both: a failing step whose rollback
  fails too is within them, and so is a command that goes on after its timeout.
  Four process ids, so that none is used twice while it is referred to. Two runs
  of one service and one of its neighbour, all overlapping, need four troubles:
  beyond an exhaustive run, but reached by TLC's simulation, and the reason for
  an exemption in `OneGatewayPerPort`.
* Onboarding: two draft calls, one trouble (death, timeout, failure, another
  message); both services try the same port first.
* Pi: two activations, two services, two processes at most (a spawn beyond them
  fails), one call, one change, three loads of the extension: the list of the
  second is the first that no tool keeps.

All bounds are constants in guards; of them the proofs use only that they are
naturals.

### Fairness

`FairSpec` of the store: a process inside `write_state_atomic` continues, time
passes, and some client keeps calling: the assistants retry a refused write.
`PersistentSpec`: the helper continues a handler it has begun, the user repeats
what the menus offer him, and provisioning succeeds if it is tried again and
again (strong fairness on that outcome only). `FairSpec` of the wrapper: weak
fairness of each process's steps. Every gateway call has a timeout, the flock
goes with its holder, and each process takes it at most once, so weak fairness
is enough for the lock as well. `PersistentSpec` of onboarding: calls go on,
the user previews, agrees and executes again and again (strong fairness: other
sessions may undo each of these for a while), and the executor succeeds if
asked again and again. `Spec` of the Pi extension: the helper process of an
acknowledgement ends, and a request is given up when its 120-second timer fires
(strong fairness: a timer that is due runs at the next turn of the event loop,
whatever runs before it). A wrapper need never answer. Crashes, edits, damage and
expiries are never forced, and bounded.

Deadlock is checked for the store. Elsewhere the system may stop: the user
leaves, wrappers have all exited, or the budgets run out.

## 4. Proofs

For any processes, clients, services and bounds:

* `StateFileProofs`, the store: `TypeCorrect`; `Serialization` (inductive invariant
  `LockInv`: until a lock is stolen the lock file belongs to whoever is inside,
  and a process about to unlink a stale lock is alone in that and still finds a
  dead process's lock there; without the second part the recovery step breaks
  the first); `CasSafety` and `NoLostUpdate` (`DataInv` relates the revision a
  caller read to the document that revision numbered); `Refinement`
  (`AtomicUnlessMishap`). `NoLostUpdate` assumes that every caller compares; no
  caller does today.
* `StateFileProofs`, the document: `DocumentTypes` and what follows, by `DocInv`
  (`DocInvariance`). The types are not inductive alone: a reading refers to jobs
  by id, so `Coherent` says that the current job exists and that the job of a
  client's state is a job of that client; `LastKnown`, that the file still has
  the last job of every client; `OnlyOlder`, that a file that does not load is
  as an older helper left it. `NoSilentWork` (`HookTellsOfWork`): whatever the
  helper has to resume is a job of the client, and a client with jobs is read as
  waiting for its reload. `LatestIsCurrent` (`CurrentIsLatestUnlessSorted`): the
  current job is the greatest of finitely many, hence the last or behind it.
  `OthersKept` (`OthersKeep`): an installation or a repair grows the records
  (`Grown`), and two documents that are alike as far as a client goes
  (`AlikeFor`) are read alike for it, although the whole file is normalised
  again. `RepairsSettle` (`WrittenRepairSettles`): after a repair that wrote the
  client is `Settled`, that is, its job names the services as they are with
  those on record in front and the client has every one of them. `LoadTwice`:
  loading settles at once.

  What `Among` returns is an induction over the length of a job. The induction
  theorems of the library take an operator and cannot be used, so `SetInduction`
  states induction for sets of naturals and is proved from the least
  counterexample that well-foundedness gives (`WFMin`). From it come
  `AmongItems` (what is kept are items of the job, of the services asked for) and
  two auxiliary facts about sequences and sets, `AmongRun` and `GreatestNatural`.
* `ProjectInitProofs`: `TypeCorrect`, by `TypeInv` (types, receipts in use have
  been issued, and a handler at a label is of the kind that label belongs to).
  `InstallSafety`: `InstalledIsConfigured`. Not inductive alone: `InstallInv`
  adds that no two handlers under way clash, that the state about to be written
  names only jobs configured by then, that the text about to be written keeps
  every owned entry, and that a reset under way has left no jobs.
  `EntriesSafety`: `UserEntriesKept`, by `EntriesInv`: a text about to be
  written, by an apply, a repair or a reset, contains every entry the user had
  taken when it was read; those he takes between that read and the write are
  not counted on, because the code does lose them. `OnceSafety`:
  `OneInstallPerApproval`, for two reasons that each suffice. Until a file is
  reset or damaged, or two handlers clash, the revision of the state has passed
  that of every plan installed (`GrowInv`), and a plan is applied only over the
  revision it was made from, whoever dies; and a session whose process lives
  remembers what it has consumed or has let the approval expire, whatever the
  others do (`MemoryInv`). Both need that a handler that applies holds the
  receipts of that very plan (`CarryInv`). `RecordsSafety` (`RecordsKept`), for
  any sessions: what one has recorded no other takes back. `RecordsInv` says
  that every state computed and not yet written contains the records
  (`Covers`), except those of the client and the services being installed;
  `recorded` is what it is because a handler that has computed its state
  replaces whatever is written before it writes. `ShownSafety`: with one session
  `ApprovedAsShown` holds, since memory and durable cache hold what was last
  shown, or nothing (`ShownInv`). With two it is false: the violation run is the
  counterexample.
* `McpWrapperProofs`: `TypeCorrect`; `HomeSafety` by `TokenInv` (tokens held or
  cached have been issued, by the gateway of whoever holds them);
  `NoStampede` by `LockInv` (whoever is between the second look at the cache
  and the end of its write holds the lock) and `FreshInv` (a fresh token is in
  the cache or about to be written, unless it is gone: this is what makes the
  second look conclusive); `RevocationSafety` by `ScopedInv`.
* `ServiceManagementProofs`: `TypeCorrect`; `OffSafety` by `OffInv`, which says
  of every call under way that the text it will write, or has written, agrees
  with `off` (`CallAgrees`); it needs that a call at a label is of a kind that
  gets there (`InPlace`) and that rival calls have been noticed
  (`ClashNoticed`). `EnabledSafety` by `ExposedInv`: between calls whatever is
  enabled is exposed, and the one call under way (`CallExposes`) will leave it
  so, except the service it is taking off.

* `SerenaInstanceProofs`: `TypeCorrect`; `PortsDistinct` (`OnePortOneProject`):
  the manifests, scripts and local ports of two projects differ unless a port
  was given away while somebody had it, because whoever reserves holds the lock
  until its unit file names the port; `ListenersApart` (`BackendsKeepApart`),
  which follows from it for what listens. `CreateCompletes` (`CreateIsWhole`) by
  `CreateInv`: a command that has met no other is alone on its project
  (`Unmet`), and then what a create has written so far, label by label, is
  still there (`Created`). A success is judged only at the last step, so the
  invariant has to carry the script, unit, rows and manifest all the way.
* `NpmHostProofs`: `Typing`; `InSteps` (which labels the executor and its
  command may be at together, and what has been saved by then), on which the
  others rest; `ListenersAreBridges`. `BridgesKnown` (`BridgesAccounted`) by
  `BridgeInv`: a port with a run at work on it either has strayed or has that
  run alone in the host, what a command launched is a bridge of its own
  service, and the former bridge is stopped before its record is replaced.
  `OneGateway` (`OneGatewayPerPort`) by `GatewayInv`: unless something blinded
  the look for conflicts, runs of one service do not overlap, whoever has passed
  the look has a record others would see, and so of two services with one
  port at most one is active; a row is written only by an active one. A row that
  exists must also exclude a rival *about* to register, and a row to be restored
  must still be there: without these two parts the step of the gateway breaks
  the property. `DeleteCleans`, `SuccessCompletes`, `FailureRestoring`
  (`DeleteIsClean`, `SuccessIsWhole`, `FailureRestores`) are about the step that
  reports. `QuietInv` says of a run that met no other what it has written,
  saved, registered, taken away and brought back so far, relative to what it
  found (`origin`). `ServeInv` adds what makes a success true of what is
  *served*: the marker tells the tree unless it is spoilt, a command installs
  what it aims at, no rival runs meanwhile, and so the bridge that listens runs
  the version its state names. `SuccessCompletes` asks for that bridge: without
  one the run is no success, unless one has strayed on the port or it has ended
  by itself after it came up; only its version is left open where an install
  was interrupted. `StopEnds`: however the stop of the former bridge ends, the
  bridge is gone.
* `OnboardingProofs`: `TypeCorrect`, by `HasPackage` (whatever is recorded or sent
  is a package, whatever is built has every answer); `AnswersSafety`
  (`AnswersKept`) by `AnswerInv`: who writes a draft had read the answers
  accepted and is alone in writing it, unless the draft has rivals;
  `ConsentSafety` (`SentAsApproved`) by `ConsentInv`: a session at the gate that
  would find a consent, and every session beyond the gate, is among those in
  whose call one stood, and the package it carries was shown.
* `PiShimProofs`: `TypeCorrect`, by `Coherent` (an activation that waits for an
  answer waits for a running wrapper that no other waits for); `StoppableSafety`
  by `KeptInv` (every running wrapper is waited for or in a list of the first or
  latest load, an activation's list is one of these, until a reload falls into
  an activation); `RouteSafety` by `RouteInv` (routes lead to running wrappers;
  without overlap one activation at most is under way, and what it has left or
  started is approved for the project shown).

Assumptions are the named `ASSUME`s of the modules: which processes pass
`expected_revision`, what each helper or wrapper belongs to, that helpers are
finitely many and a client list is not empty, that the stand-ins for absent and
torn contents are no versions, jobs, records, client states or documents, that a
file of an older helper has no jobs and no client states (both live in the
section it lacks), that job ids are finitely many, that bounds are naturals. TLC
evaluates each.

Every invariant and every action property of the passing runs is the subject of
a theorem. Only
model-checked is liveness (`OrphanIsRecovered`, `PersistenceInstalls`,
`PersistenceApplies`, both `Settles`): fairness and `ENABLED` are out of the
prover's reach.

## 5. Findings

Where the code does not survive a mishap, the property about it exempts that
mishap by name, and then shows that nothing else breaks it, not that the mishap
is harmless. The hazards of `PROJECT.json` say in their notes which ones these
are: lost updates of writers that pass no revision, entries and records written
between a handler's last read and its write, two sessions rewriting one config,
a config torn by a death, a repair after a disable, a call that a death or
another call interrupts, a removal beside a create, a lost index update, a
runtime command that times out or is killed, two calls on one draft, an older
job that sorts behind a newer one, overlapping activations and a reload inside
one.

Two runs are expected to be violated:

* After a helper restart "approve" applies to whatever plan the project's
  durable cache holds (`init_other_sessions_plan`).
* A repair compares configurations, the alarm that asks for it compares the
  services of the job with today's records: when only ids or their order have
  changed the helper asks for a repair, the repair finds the configuration
  current, and so for ever (`document_repair`).

Seen in the code besides, and kept as exemptions in the properties (the history
variables name them) or as branches of the models:

* Project initialisation: the receipts of an approval stay valid for fifteen
  minutes, and that they were used is known to one process. If the state file is
  reset or damaged into what the plan was made from, a helper that has died in
  between, or another session's, installs once more with the same approval.
* Project initialisation, reset: its manifest lists among its non-actions that
  it "does not remove unmanaged project-local MCP entries"
  (`scripts/control_plane_project_init_helper.py`). An entry added between its
  read of a config and its write is removed all the same. There is no run of its
  own for this: `UserEntriesKept` does not count on such an entry.
* Store: a stale lock is unlinked without looking whether it is still the file
  that was judged stale. No caller passes `expected_revision`, although the
  design calls for compare-and-swap, so writers lose each other's updates.
* Services: repairing a job restores the entries of services disabled or
  removed since. Declining or deferring a disabled service makes it Enabled
  without an entry, and enable then refuses to act. Entries of clients other
  than OpenCode are never taken out.
* Wrapper: one that outlives its admin token cannot revoke its scoped token.
* Documents: after a reload the job with the greatest id counts as current,
  whichever was written last. An installed client stays `reload_required`, so
  its hook goes on recommending to resume. Enabling on a file of an older helper
  replaces the document. Declining for any client hides the service from Pi, and
  declining before any activation silences every hook.
* Serena: a port counts as free while its project is stopped and its manifest
  torn; the readiness probe accepts whatever listens.
* npm host: a login that fails at the start of the gateway stage skips the
  rollback. An install marker may vouch for a tree that was interrupted. A
  rollback that fails at the runtime stage is still reported as passed. A
  rollback restores the whole index and drops what other runs added. A lost
  index update lets two gateways have one URL, and so do two runs of one service
  at once and a run that gives up on its command, for they take back a record
  that somebody still relies on. A delete leaves a record that no
  index entry names. A former bridge that had to be killed counts as not
  stopped, and is not brought back when the launch then fails.
* Onboarding: a draft may be cut short or lose answers to a second call. A
  package keeps the port chosen at preview. The proxy gives up after 240 seconds
  while the executor goes on.
* Pi: a child that idles out leaves dead routes until the next activation.
  Activations that overlap can bring back the routes of a disabled service, and
  a reload during an activation leaves a wrapper that only its own idle timeout
  ends. The two and a half seconds before SIGKILL may cut off a wrapper's
  revocation.

## 6. Plan

What is left, most important first:

| Module | Models | Properties aimed at |
|---|---|---|
| `McpForward` | `forward_once` and the stdio loop: concurrent requests, streams that end early, the scoped token running out | every request id is answered at most once |
| `DurableCache` | the read-modify-write of the plan and receipt cache file by several helpers | implements the atomic `durable` of `ProjectInit`, or shows where not |
| `ProjectInit`, extended | recovery of unmanaged conflicts | the user's entries survive recovery |
| `Receipts` | the receipt validators and the auth-strength lattice, as operators | the lattice is a partial order, allow is monotone |

## 7. Not modelled

* The client harness under `docker/client-harness` (dialogue runners, verifiers:
  the largest part of the code by lines): it drives the system from outside and
  judges transcripts.
* Pure planners, classifiers, read models and policies: functions from records
  to records that unit tests reach, with no state and no order of steps.
* Hooks beyond `Recommended`: they read the state and print text.
* Gateway registration and operator tools: one-shot scripts run by hand.
* `forward_once`: its silence towards a caller is a behaviour of `PiShim`, its
  refresh on 401 never runs, because `main` hands it no credentials.
* The writes inside the durable cache file: an access is one step.
* Contents of documents, menus and prompts, and the external gateway beyond
  what the code does with its answers.

`PROJECT.json` gives the reason per component.
