# A formal model of openblox

openblox runs untrusted commands in Docker containers under gVisor. It is a Go
library (`pkg/docker`, `pkg/sandbox`, `pkg/preview`) and a daemon (`openbloxd`,
`internal/daemon`) that owns the Docker socket on behalf of callers using
`pkg/brokerclient`. This directory holds TLA+ models of the parts of it in which
order matters, the TLC runs that check them, and TLAPS proofs of the properties
that matter most.

## The system

openblox keeps almost no state of its own. Container names and labels *are* the
registry, so every process on the host that manages sandboxes shares one table:
Docker's. What makes the code hard is that each operation is a sequence of Docker
calls, and between any two of them other callers, the reaper, the guests and
failures act on that table.

| Part | Source | Modelled by |
|---|---|---|
| Backend: Create, Open, List, Destroy, Stop | `pkg/docker/backend.go`, `sandbox.go` | `Docker`, `Backend`, `BackendLive` |
| The contract of `sandbox.Backend` | `pkg/sandbox/sandbox.go` | `Registry`, `BackendRefines` |
| Broker requests and the per-profile cap | `internal/daemon/sandboxes.go`, `capacity.go` | `Broker`, `BrokerLive` |
| Activity timestamps, expiry, the reaper | `pkg/docker/activity.go`, `reap.go`, `internal/daemon/reap.go` | `Lifetime` |
| Running a command, its timeout and kill | `pkg/docker/sandbox.go` | `Exec`, `ExecRefines` |
| Previews: tokens, revocation, proxy | `pkg/preview/`, `pkg/docker/expose.go` | `Preview` |
| A sandbox in use: calls through client and daemon | `pkg/brokerclient/sandbox.go`, `client.go`, `internal/daemon/server.go`, `exec.go` | `Calls`, `Guest` |
| Background processes | `pkg/docker/process.go` | `Process` |
| File transfer | `pkg/docker/sandbox.go`, `internal/daemon/exec.go` | `Files` |
| Error kinds on the wire | `pkg/brokerapi/errors.go` | `Wire` |
| Daemon process, Unix listener, shutdown | `cmd/openbloxd/main.go`, `internal/daemon/listener.go` | `Daemon` |
| Dialled streams, end to end | `pkg/brokerclient/dial.go`, `internal/daemon/dial.go`, `pkg/docker/dial.go` | `Dial` |
| Policy: configuration, options, labels | `internal/daemon/config.go`, `cmd/openbloxd/main.go`, `pkg/sandbox/options.go`, `pkg/docker/backend.go`, `pkg/brokerclient/options.go` | `Policy` |

`PROJECT.json` lists every component, modelled or not, and the hazards with the line
where each one bites.

## The modules

**Docker** (external) is the container table: the status, name and policy label of
every id, and the calls that change it. It states what `pkg/docker` relies on: a name
is held by at most one container, ids are not reused, a removal may fail half way and
leave a "dead" container.

**Backend** has one action per Docker call of each operation, with the local code
that follows it. `pc[c]` is the call that caller `c` makes next; `sb[c]` is the id in
its handle. Every call can be answered, be refused, or be lost after its effect;
contexts are cancelled and processes die between calls. `ReapRemoves` and
`GuestHalts` stand for everything else that removes or halts a container.
**BackendLive** adds one history variable, the containers seen live during a call.

**Registry** is the abstract specification: each name holds nothing or one sandbox,
which is created, started, halted and removed, one change at a time. **BackendRefines**
maps the container table to it.

**Broker** composes handleCreate, handleGet, handleDestroy and handleStop with the
Backend calls they make: existence check, reservation under `capacity.mu`, Create,
re-check of the profile, release of the slot. A crash of the daemon loses the
reservations and leaves the containers. **BrokerLive** adds the history variable of
`BackendLive` to it.

**Lifetime** has a clock, the labels Create writes, commands that leave a timestamp
when they end, timestamps that land late, out of order or not at all, and any number
of reapers, each judging the list and the clock reading its sweep began with.

**Exec** is one command: the caller's select between the stream and the context,
the wrapper script and the kill script statement by statement, over a record that the
command may overwrite, and a sandbox that can die (with Docker noticing later) or be removed at every point. **ExecRefines** maps it
to the exec of `Calls`: a sandbox is running until Docker has recorded its death; the
result is decided when `diedUnder` is asked, since only `Stopped` is still open then; an
attach whose answer was lost is a refusal to the handler, although its command may run.

**Preview** has the tokens Expose mints, the strings that decode to them (more than one
to a token), the handler's set of revoked strings with its pruning, requests whose two checks are separate steps, and the idle connections the
proxy's transport keeps and hands to later requests of the same host.

**Guest** puts callers of one sandbox side by side. **Calls** is what they share: the
client's refusals and round trip, the handler that opens the sandbox, and the life of
the execs it makes (begun, refused because the sandbox stopped or is gone, cut short,
lost). `pc[c]` is the exec the handler of caller `c` is at, `err[c]` what the library
returned and later what the client returned. **Process** is `startProcessScript`,
statement by statement, over the guest's pids, which die and are given out again.
**Files** is WriteFile (mkdir, cat, chmod) and ReadFile (test, cat), chunk by chunk, on
one path. **Wire** is the two mappings between sentinels and wire kinds. Commands
of a transfer may be killed in the sandbox, or not be started. Three history
variables say when the promises apply: `crossed` (scripts overlapped, or one failed),
`alone` (nothing else has touched the file during the transfer) and `cut` (the sandbox
ended the cat of a read before it was done).

**Daemon** is `run` from its first listener, with `Listen` step by step over what is at
the socket's path, and `serve` to its return. The process can be killed at
any moment and is started again. **Dial** adds the streams: the client's `DialPort`, step
by step, with the hook and the deadline that bound its handshake; `handleDial` with the
two copies of the hijacked connection, which end in either order; and the two ends. The
owner of a stream reads an end when the daemon closes the connection and when the daemon
goes; the history variable `cut` tells a stream that was broken off from one that ended.

**Policy** follows the configuration file to the timeout of a command: validation of the
head, of each profile and of the credentials, in the map's random order; the credential
`run` takes; options over the defaults, labels and limits; the client's refusal of options
that are policy; the labels read back, also by a daemon restarted with another file.

### Abstractions

- `Reserve` and `CountLive` take the List and the decision as one step under the
  mutex: `pending` changes only under it. Containers can still come and go around it.
- A removal is one step. "paused" and "restarting" containers are left out (nothing
  pauses one, and the restart policy is off), and so are containers that hold a
  sandbox's name but were not made by openblox.
- An API call has its effect no later than its return, except a lost one, which has
  it at the moment of failure.
- When ids run out, Docker refuses to create. In `Broker`, requests that validation
  rejects change nothing and are not modelled.
- A sweep visits the listed containers in any order. The stamp of a command is taken
  when Exec ends, which is when `touch` runs.
- `Exec` models the behaviour under gVisor, where an exec starts a session of its own.
- A preview token is its nonce, and its signature is what it guarantees: the token
  verifies on the route it was minted for and on no other. The strings callers bring are
  apart from it: any number of them decode to one token, by the function `TokenOf`.
  `upstreamHost` is taken to be injective, which a hash is in practice.
- `Policy` scales numbers down: a MiB is 4 bytes and an int64 has 64 values, so that sizes
  overflow within the inputs. A formatted duration parses to itself. CPUs, a float, is left
  out: it has a check of its own in `Profile.validate`, and `int64(CPUs * 1e9)` is zero,
  which Docker takes for no limit, below a billionth of a CPU (`backend.go:320`).
- `Calls` abstracts an exec to its outcomes; `Exec` has its steps, and `ExecIsCall` proves
  the abstraction right for the handler of `Exec`. The execs of file transfers and of
  background processes go through the same code, except the stream of a download, which
  only attaches. A body has a fixed
  number of chunks, and a chunk is known by who wrote it.
- In `Process` the kernel gives pids out in turn: the pid a script got is not given out
  again before that script ends. What `killGroup` kills is in the group of the script,
  the process it started included; it may fail, or find its record removed.
- A caller of `Guest` whose last command was left behind in the sandbox makes its next
  call when that command has ended.
- In `Dial` a connection towards the caller holds one chunk, so the copy can block.
  Resets are closes: what is unread on a closed connection is lost.
- A signal before `NotifyContext` is installed is a kill. Two daemons on one socket path
  are not modelled.
- Shutdown ends when the handlers it can see have returned or its budget is spent, so in
  `Daemon` it may end at any time. What follows, one receive per Serve goroutine into
  variables of `serve`, is one step with the return: nobody else sees the receives.
- A shell of `Process` that nobody waits for is gone when it ends; its status is kept only
  for an exec that still reads it.

## The runs

`tlc -workers 2 -config <cfg> <module>`; each takes between a few seconds and about
two minutes.

| Run | Configuration | Bounds | Shows |
|---|---|---|---|
| `backend` | `MCBackend.cfg` | 1 name, 3 ids, 2 callers, all faults | names stay unique, halted containers stay halted, Create never returns what was halted throughout, and the Backend implements the Registry |
| `broker` | `MCBroker.cfg` | 3 names, 3 ids, 2 requests, a capped and an uncapped profile | a 201 matches name and profile; a profile exceeds its cap by less than the number of concurrent requests |
| `broker_live` | `MCBroker_live.cfg` | 1 name, 2 ids, 2 requests, cap 1, all faults | `pending` is exact; a request makes each call once and in order; every request is answered |
| `lifetime` | `MCLifetime.cfg` | 1 id, 1 reaper, 2 commands | nothing is reaped before an enabled bound has run out; max age is enforced although removals fail and the reaper restarts |
| `exec` | `Exec.cfg` | one command, all faults | a reported kill is complete; a running command can be found until it is signalled; nothing survives a Stopped result; a status no kill leaves is the command's own; the command is started once; Exec returns |
| `preview` | `MCPreview.cfg` | 2 routes, 2 tokens, one of them in 2 spellings, 2 requests, clock to 3 | requests reach only their token's route; the revocation of a string survives pruning |
| `guest` | `MCGuest.cfg` | 2 callers, seven pairs of operations, 2 pids, 2 chunks, all faults | serial starts start once; a transfer reported done is whole; errors cross the wire unchanged; refusals stay true until acted on; no exec is made twice; every call ends |
| `daemon` | `Dial.cfg` | 2 listeners, 1 stream, 1 chunk up, 2 down | the process exits with sockets unlinked and failures reported; dialling returns; the stream outlives its context, loses nothing unless it is broken off, has a relay and does not pin its handler |
| `policy` | `MCPolicy.cfg` | 77,760 profiles over unset, negative, ordinary and overflowing values; every head, every choice of credentials for three profiles; four files to restart with | every sandbox of an accepted profile has bounded lifetime, limits and commands; one credential serves all; what is reported is in force |

Why the bounds are enough: two callers already meet in every pair of steps; three ids
let one name be created, replaced and replaced again, which is what every known race
needs; three names with a cap of one let a profile go past its cap in more than one
way. Names meet only in the callers' and Docker's shared state, so one is enough for
`backend`; the proofs cover any number, and any number of reapers. The clocks pass
every bound given to them. Streams share nothing but the process, so `daemon` has one;
two chunks are the first that can be split between the reader that read the 101 and the
connection. In `guest`, two callers and two pids are enough for a process to run, die and
have its pid taken while another script is between its test and its record; two chunks
are the first at which two writers of one file can leave a mixture. Pairs that share
only the sandbox's life are represented by one of them.
The proofs below remove the bounds for the safety properties they cover.

### Where the code and its documentation disagree

Each of these runs ends with a counterexample to a sentence of the repository; the
sentences are quoted under `findings` in `PROJECT.json`.

| Run | What happens |
|---|---|
| `create_replaces_running` | Create judges one container halted and destroys by name: the name meanwhile holds the running replacement another Create returned |
| `exec_group_survives` | what a finished command left in its process group is not killed at the timeout |
| `process_starts_twice` | two concurrent StartProcess calls interleave the statements of their scripts, both find no pid and both start the command |

More disagreements are visible in the models or the code and have no run of their own:

- a request that found its sandbox holds no slot; when the sandbox goes before Create, a
  new one is made outside the cap (`sandboxes.go:49`, against `capacity.go:11`);
  `CapOvershootBounded` is the bound that does hold;
- a context cancelled around ContainerStart fails the rollback too, and the created
  container stays (`backend.go:172`);
- Create can return a container that another Create has made and not yet started
  (`backend.go:164`);
- idleness counts from the end of the last command, so a command longer than the idle
  timeout has its sandbox reaped under it (`reap.go:92`);
- when the answer of ContainerExecAttach is lost, the command runs and nobody kills it
  (`docker/sandbox.go:345`);
- a download whose `cat` is killed, is never started or dies with its sandbox ends without
  an error, since nobody asks for its status: the caller reads 200 and a truncated file,
  which `exec.go:131-135` sets out to prevent and `docker/sandbox.go:448` accepts.
  `TransferWhole` excepts these reads and no others;
- a file removed between `test -f` and `cat` reads as an empty one, and `test -f` does
  not establish that the file is readable, as `docker/sandbox.go:447` says;
- `pumpStdin` discards the error of the source: a library caller whose reader fails gets
  nil and a truncated file. Through the daemon the request's context has ended by then,
  and chmod fails (`docker/sandbox.go:379`);
- a missing file is ErrNotFound, which `sandbox/errors.go:11` reserves for a missing
  sandbox; a probe that is killed or not started, or a stop under it, looks the same
  (`docker/sandbox.go:434`). `RefusalsHold` therefore says nothing of a read's ErrNotFound;
- a command that ends with 128 or 137 by itself is reported Stopped when the sandbox stops
  for another reason while `diedUnder` waits, though it was running "when the command
  ended" (`sandbox/sandbox.go:167`); `StoppedIsDeath` is what does hold;
- Revoke records the string it was given and the handler looks up the string it was
  brought (`proxy.go:85`, `98`), while `split` decodes the signature loosely
  (`token.go:156`): what is revoked is one spelling of a token, and not the token, as
  `proxy.go:71` has it;
- the owner of a dialled stream cannot tell one that was broken off from one that ended:
  the error of Docker's stream is dropped (`internal/daemon/dial.go:63`), and the kernel
  closes the connections of a daemon that goes (`main.go:180`);
- `capacity.go:85` counts halted sandboxes because "Backend.Create restarts one under the
  same name"; Create replaces it (`backend.go:141`). They hold their name either way;
- a pid that has gone to another process makes StartProcess return nil with nothing
  running under the name (`process.go:34`);
- a Serve that fails before another listener's goroutine has run leaves that listener
  open, and its socket on disk (`main.go:166`);
- an option equal to the library's default is dropped without a word by the client, and the
  profile may say otherwise (`brokerclient/client.go:104` says "rejected rather than
  ignored", `options.go:63` calls it a fault to drop one silently);
- a `default_timeout` above the *inherited* maximum is accepted and always clamped
  (`config.go:260`);
- `GET /profiles` reports an omitted bound as `0s`, not as the default in force
  (`internal/daemon/dial.go:80`).

### Fairness

Outside `Exec`, which is small, the subscript of a condition names only variables of which
every step of its action changes one: the condition asks for the action itself, and TLC,
which evaluates it on every edge, has less to compare.

- `Broker`: a request's own steps are weakly fair (goroutines run, Docker answers or
  fails). Taking the mutex is strongly fair: `sync.Mutex` hands over in order once a
  waiter has starved for a millisecond.
- `Lifetime`: the clock and the sweep are weakly fair (`RunReaper` is a ticker loop).
  The removal of one container by one reaper is strongly fair: Docker does not refuse
  the same removal for ever.
  Judging is strongly fair: the process does not die in every sweep.
- `Exec`: only the caller's goroutine and the timers. Nothing is assumed of the guest,
  and no Docker failure is forced to happen.
- `Guest`: the steps of the daemon and of Docker, the timeouts of execs, and the reading
  of a file's body. Nothing is assumed of the commands: an exec has a timeout. The stream
  of a download has none, so that `cat` of a regular file goes on and that the client
  reads what it asked for are assumed.
- `Dial`: `serve`; and of each stream, as one condition, the relay's goroutines, `DialPort`
  and the context's hook: while one of them can go on, one does. Callers and
  sandboxes may do nothing for ever; a caller that stays connected and does not read
  blocks the copy towards it, and the code has no bound for that (`RelayEnds` says so).

## The proofs

`tlapm <module>` checks them; they hold for all values of the constants. In four of the
modules (`USE Zenon` at the top) Zenon is the default prover, and a step that counts or
handles sequences asks for SMT.

**BackendProofs**: `Typed`, `UniqueName`, `NeverResurrected`, `CreateLive` and
`Refinement`. Uniqueness of names rests on Docker refusing a second container of a
name; the work is in showing that no step of any interleaved call gets around it.
`NeverResurrected` needs that a caller at "start" holds a container that was only
created. `CreateLive` strengthens the property with what each step of a call knows
about the container it holds. `Refinement` shows that every Backend step maps to one
Registry step of one name, or to a stutter; it needs uniqueness, since the abstract
state reads "the" container of a name.

**BrokerProofs**: `BrokerTyped`, `AnswersMatchPolicy`, `NoSlotLeaks`,
`OvershootStaysBounded`, `BrokerUniqueName`, `BrokerNeverResurrects`, `BrokerRefinement`,
`AnswersLive`, `LockNeverLeaks`, `HandlersAdvance`. The inductive
invariant adds what each request knows at each step, and that the number of slot
holders is the cardinality of a finite set of requests which each step changes by at
most one element. The bound on the overshoot counts names instead of containers: those a
profile holds and those a request may still create under it (`Taken`). Finding a sandbox,
creating it and losing it add no name; only a reservation does, and it is given while the
profile holds fewer than its cap. Since names are unique, the names bound the containers.
The results about the registry are proved once more for the broker: each of its steps has
one of the effects on Docker's table that `BackendProofs` maps to the Registry, and the
lemmas on effects do not ask whose step it was. `AnswersLive` carries what `CreateLive`
knows about a caller through the recheck and the answer of handleCreate.

**LifetimeProofs**: `LifetimeTyped`, `NoEarlyReap`, `SweepsMissNone`, `SweepsEndClean`.
Timestamps only lag: a stamp on
disk or in flight is never later than the clock, and a sweep's clock reading is never
ahead of it, so what a sweep finds overdue is overdue. Lost stamps can only matter
where the idle bound is enabled. The last two say the opposite of `NoEarlyReap`: as long
as Docker fails no removal, a sandbox that was past its maximum age when a sweep began stays
on the sweep's list until it is removed, by this sweep or another, so a sweep that comes to
its end leaves none. A sandbox created meanwhile is younger than the sweep's clock reading.

**ExecProofs**: `ExecTyped`, `ExecKilledForGood`, `ExecRecordFindable`,
`ExecStoppedDeath`, `ExecResultOwn`, `ExecMovesOn`, `ExecIsCall`. The invariant
says that a sandbox that does not run has no processes, that before the attach there
is nothing to kill, what each statement and each exit of the kill script stands for, and
that the wrapper hands on the command's status and no other but those of a kill. The two
results about the kill except a command that overwrote its own record, for which the code
promises nothing (`docker/sandbox.go:219`, `263`).
`ExecIsCall` shows that each step of Exec is a step of the exec in `Calls` (it begins, is
refused, ends, dies with its sandbox, is cut short or lost), the caller giving up, the
sandbox ending, or nothing the handler sees. What `GuestProofs` says of callers therefore
rests on an exec that the code's own steps implement. Docker's failures are among the faults
of that exec even where `Exec` has none: a deadline that passes before the attach, or that
finds the sandbox dying, is an error without a sentinel all the same.

**PreviewProofs**: `PreviewTyped`, `RoutesKept`, `RevocationHolds`. `RoutesKept` needs
that every pooled connection leads where its host says and that an admitted request
carries a token of its own route. `RevocationHolds` needs that a withdrawn string is in
the revoked set or its token past its expiry, which is what pruning preserves; it holds for
any strings and any `TokenOf`, and speaks of the string that was withdrawn.

**PolicyProofs**: `PolicyTyped`, `LifetimesBounded`, `ResourcesStayBounded`,
`CommandsStayBounded`, `LoginStaysCommon`, `ReportsStayTrue`, for any
files, credentials, options and positive defaults. The invariant says that labels, limits
and handle are functions of an accepted profile, and that validation has compared every
credential it has passed. `ResourcesStayBounded` needs that sizes stay multiples of a MiB
through an overflow, since the width is one.

**GuestProofs**: `GuestTyped`, `SerialStarts`, `TransfersWhole`, `RemoteErrorsAgree`,
`RefusalsStayTrue`, `CallsAdvance`, for any callers, pids, body length and faults. The
invariant has three parts: what each call knows at each step (`CallPart`); as long as scripts have not crossed,
at most one is at work, and a live process is the recorded one or the one that script has
just started (`SerialInv`); and for a transfer that is alone, the file is exactly the chunks
its cat has written so far (`TransferInv`). `RefusalsStayTrue` needs that a sandbox that has
stopped holds nothing and does not run again, and that no step of another call undoes what
a refusal said.

**DialProofs**: `DialTyped`, `SocketUnlinked`, `FailuresReported`, `StreamsWhole`,
`StreamsOutlive`, `StreamsRelayed`, for any streams and any numbers of chunks. The
invariant says which listeners are open at each point of `run` and `serve`; that chunks are conserved (what was
sent is buffered or has been written; what the sandbox made is still to be copied, on the
wire, read ahead or read) as long as the end concerned is open and the stream was not cut;
what the hook and the
deadline can be at each step of `DialPort`; and that the answer tells where the handler is,
whose goroutines run only while it relays (`RelayInv`).

### Progress

Liveness needs fairness and is out of the prover's reach: `RequestsFinish`,
`MaxAgeEnforced`, `ExecReturns`, `CallsFinish`, `DaemonExits`, `DialReturns` and `RelayEnds`
are only model-checked. For four of them the other half of the argument is proved, for any
constants: a request, an Exec and a call on a sandbox never go back (`HandlersAdvance`,
`ExecMovesOn`, `CallsAdvance`), so each ends once its steps are taken, and whoever waits for
`capacity.mu` waits for a request that waits for nobody (`LockNeverLeaks`). For `MaxAgeEnforced` it is that
a sweep that ends has done its work (`SweepsEndClean`). What fairness
adds is that a step that can be taken is. The one loop, killGroup's attempts, is bounded by
its timer.

### Checked one way only

- Only model-checked: the seven liveness properties above.
- Only proved: the types of every component but `Backend` (`BrokerTyped`, `LifetimeTyped`
  and so on), which the inductive invariants contain; `LockOwned`, which TLC agrees with and
  whose violation `RequestsFinish` would show as well; `SweepMissesNone` and
  `ImplementsCalls` (of `ExecIsCall`), which TLC agrees with on the bounds of `lifetime`
  without failing removals, and on those of `exec`; and `CreatedWasLive`: with the history
  variable the broker has 8.2 million states on the bounds of `broker` without faults, too
  many for a run that is repeated (TLC has found no violation in them).

## Not modelled

- Image pulls (`image.go`): they happen before a container exists; Backend models
  their failure as a failure of `CreatePrepare`.
- TLS configuration (`listener_tls.go`, `brokerclient/remote.go`), routing patterns and
  JSON: library calls without interleavings of their own. `decode`'s refusals are in `Calls`.
- The client's Open, List, Destroy and Stop: one round trip each, without state; its Expose
  and Revoke repeat `pkg/docker/expose.go`, which `Preview` models.
- `caller.go`: reads a connection's peer once per request, for the log.
- The framing of Docker's exec streams, and the relay script: a relay is the sandbox's end
  of a stream.
- The conformance suites, the test PKI, the benchmark scripts and the deployment files:
  test and packaging support.
- Contents: output buffers, file contents and arguments are data no property
  distinguishes.
