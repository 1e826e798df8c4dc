# Verification of wesh

wesh shares one terminal program over the web: an HTTP server upgrades browsers
to WebSockets, spawns a child on a PTY and relays bytes between them. This
directory holds TLA+ modules of its server and of its browser page, the TLC
configurations that check them on small instances, and the theorems TLAPS proves
about them. Line numbers are in `PROJECT.json` ("map").

## The system

Paths are relative to `internal/server/` unless they say otherwise.

| Component | State | Operations | Hard behaviour | What makes it correct |
|---|---|---|---|---|
| Hub: fan-out and outboxes (`clients.go`) | `registry.set/order/seq`, per client `outbox`, `creditBlocked`, `creditPending`; `hubCond` | `onChunk`, `trySend`, `drain`, `kickOrCreditLocked`, `kickSlowConsumerLocked`, `afterDrain`, `detach`, `writer` | one PTY reader, one writer goroutine per client, a condition variable, kicks while a map is ranged over, critical sections that nest | the stream reaches each client whole and in order, or the client is cut off; the reader never sleeps for ever |
| Write permission (`clients.go`) | `registry.owner`, `client.mode`, `rwEligible` | `decideModeLocked`, `registerLocked`, `promoteNextLocked` | succession that kicks the successor and restarts | one writer under policy *owner*, no vacancy, first come first served |
| Dimension arbiter (`resize.go`) | `arbiter.sizes/last`, a 50 ms debounce timer | `addMember`, `removeMember`, `reportResize`, `recalcNow`, `pushSessionDimsLocked` | pushes that fail kick, kicks push | all clients end up with the dimensions of the PTY; nobody who left weighs on them |
| Per-client sessions (`perclient.go`) | `pcSessions`, per session `reaped`, `exitCode`, `waitDone`, `teardownDone`, `dwellTimer` | `upgradePerClient`, output closure, `sessionWatcher`, `teardownPCLocked`, `reapOrphanSession` | signal against reap, gates read before the fork, stale timers | never more registered sessions than `maxClients`, no signal to a reaped child, teardown once, EXIT before the close |
| Lifecycle (`server.go`, `clients.go`) | `exiting`, `pcExitReq`, `exitEmptySignaled`, `exitEmptyTimer` | `lifecycle`, `pcSupervisor`, `Shutdown`, `maybeExitWhenEmptyLocked` | timers against attaches, snapshots of the clients, a bounded join | the program ends once, with the right code, and does end |
| Handshake (`server.go`) | half-open counts, Hello timer | `Attach`, the attach endpoint | one place taken and given back on each path; capacity read outside `hubMu` | no leaked place, no client without a ticket |
| Tickets, throttles (`tickets.go`, `throttle.go`, `spawnthrottle.go`) | maps with expiry | issue, redeem, fail, allow | single use, a clock | a ticket serves once and gives no more than its mode |
| Logins (`sessions.go`) | a table in memory, a file shared by several instances | issue, validate, revoke, reload, persist | merge, temporary file, rename; crashes; other instances | a persisted login lasts until it expires or is revoked |
| Input path (`server.go`, `clients.go`) | `inputQ`, a limiter | mode gate, `tryEnqueue`, `inputWriter` | permission judged at one time and used at another | only writers type |
| Page: connection (`web/src/main.ts`, `lib/reconnect.ts`) | `ws`, `connectGen`, per-connection flags, reconnect loop with its timer and budgets, panel, login view | `connect`, `scheduleAttempt`, the handlers of the socket, events of the window | two awaits in `connect()`, superseded calls and sockets, events at any time | a session is not disturbed; an outage ends; no dialling for ever |
| Page: view (`web/src/main.ts`, `lib/prefs.ts`, `lib/title.ts`) | sizes, mode marks, preferences, buffers, clipboard latches | WELCOME branch, `refit`, `sendResize` | RESIZE and WELCOME cross; promotion; reconnects that keep some state | the page is what the last WELCOME says; sizes settle |
| Acceptance scripts (`web/uat`) | | sequences of actions and expectations | what the program does between two steps | every script passes in every interleaving |
| Wire protocol (`internal/proto`), PTY (`internal/pty`) | none; a child process | encode, decode; spawn, read, wait, signal | system calls | trusted here, see below |
| Proxy identity, origin, TLS, headers, metrics, log, health, command line, assets | fixed at start-up, or only written | checks of one request, observation | none that spans steps | not modelled |

They interact through one mutex, `hubMu`: `Attach` registers into the hub and
the arbiter, the arbiter pushes through the outboxes, a full outbox leads back
to a kick, a kick to the arbiter and to succession. Only the outboxes have locks
of their own, for the writer goroutines drain them at any time. `afterDrain`
takes `hubMu` again to give credit back. `hubCond` is on `hubMu`. Page and
server meet in frames only: Hello, RESIZE and INPUT one way, WELCOME, OUTPUT,
ERROR, EXIT and a close code the other.

## Modules

| Module | Content |
|---|---|
| `Hub` | the shared-session hub: registry, permission, outboxes, credit gate, arbiter |
| `OrderedStream` | what the fan-out promises: each client gets the chunks published since it joined, in order |
| `PerClient` | the per-client mode: sessions from the gates to their removal, exit when empty, supervisor, `Shutdown` |
| `Service` | the server as its clients see it: attach endpoint, handshake with its guards, then either session mode, abstractly, up to the exit status |
| `Logins` | the login sessions and the file that several instances share |
| `Link` | the page's connection: attempts, reconnect loop, socket, panels, login |
| `View` | what the page shows: sizes, mode, preferences, and the server's half of that dialogue |
| `Scripts` | how an acceptance script is written down |
| `LinkScripts`, `ViewScripts`, `ServiceScripts` | the scripts of `web/uat`, each set played on the module of its name |
| `MCHub`, `MCPerClient`, `MCLogins` | values for TLC |
| `HubProofs`, `HubRegistryProofs`, `HubDeliveryProofs`, `PerClientProofs`, `ServiceProofs`, `LoginsProofs`, `LinkProofs`, `ViewProofs` | theorems, one module per component (three for `Hub`: types and credit; write permission and arbiter; streams and Welcomes) |

### Hub

One module for three components, because their interesting behaviour is what
they do to each other inside one critical section. Definitions keep the names of
the code where it has one.

*Critical sections.* `calls` is the stack of what the holder of `hubMu` still
has to do. `onChunk` pushes a loop `Fan`, `recalcNow` a loop `Push`, a leaving
owner `Promote`, an attach `Register`. `hubMu` is free when the stack is empty
(`Free`), and an operation that takes `hubMu` starts only then; between two
iterations of a loop only the writer goroutines move, as in the code. A kick
inside a loop (`Remove`) puts its own work on top, so nested pushes and
promotions happen at the place where the code makes the call, before the outer
loop goes on. A loop over the Go map visits its entries in any order and skips
those deleted meanwhile.

*Credit.* A full outbox cuts off a spectator, and a writer that lags behind
another one which still flows; otherwise the writer gets credit: the refused
frame is kept and the gate counts it as blocked. When each writer is blocked,
`onChunk` waits. Within 500 ms of its attach a writer is credited even though
another one flows; elapsed time is not modelled, so both outcomes are possible
whenever another writer flows. `AfterDrain` gives credit back below half of the
capacity.

*Writer goroutine.* `Drain` takes the whole outbox, `WriteFrame` writes one
frame, `WriteFails` is an error or a timeout. `mergeBatch` may join OUTPUT frames
into one message; the receiver sees the same bytes, so frames are written one by
one. A client that is gone may still have its last batch written.
The goroutine's wait offers it both `done` and `notEmpty`; Go picks either, so a
departed client may or may not drain once more.

*Abstractions.* Chunks are numbers, tickets are their mode, dimensions a few
pairs. Sizes of frames are small numbers that keep the inequalities between the
code's constants (`HubAssumption`): a Welcome fits an empty outbox, and
below the half mark there is room for the largest frame and a Welcome. In the code an
outbox has 512 KiB and a chunk 32 KiB, and only tests set others; what would happen
with an outbox too small for this is assumed away, and no property speaks of it. The
capacity check of the handshake (`maxClients`) is made outside `hubMu` before
the upgrade and bounds nothing here: `Clients` is the set of attaches that got
through. A RESIZE counts only from a writer, as the read loop requires. The hooks
of `detach` and of a kick into the per-client teardown and into exit-when-empty
do not touch the hub's state and belong to those components.

*History.* `since`, `recv` and `view` record what a client was sent; no guard
reads them.

### PerClient

An element of `Clients` is one attach. `phase` follows the goroutine that serves
it (`Gate`, `Spawn`, then `Register` or `Refuse`), `watcher` the one goroutine
that waits for its child, `teardown` the once-only sequence of
`teardownPCLocked`. A critical section of `hubMu` is one step: in this mode none
waits or nests. Everything outside it is a step of its own, so the gap between
the return of `Wait` (`WaitReturns`) and the record of it (`Record`) is there, and so
is the fork between the two looks at the capacity.

*Signals.* A stop signal obliges a child to nothing, and a child may end at any
time, so the stop signal has no state. `kills` holds the SIGKILL timers, one per
place that arms them; when one fires it looks at the fences the code looks at.
A child in `Killable` ends after SIGKILL; another hangs in the kernel.

*Exit when empty.* A grace timer is named by the client whose leaving armed it.
A timer that ran out becomes a callback waiting for `hubMu` (`fired`), which
`Stop` no longer reaches.

*Ends.* `Shutdown` goes through its snapshots one session at a time; its wait on
`hubCond` is evaluated step by step, with a deadline and the timer that wakes it.
`termOnce` and `os.Exit` let one `terminate` through, after which nothing happens.

*Abstractions.* The exit code is named by the child it comes from. `sessions` is
`pcSessions`, and the bound of `CapacityHeld` is on it: children that lost the second
look at the capacity, and wait for `reapOrphanSession`, come on top (see Findings). A refusal for lack of
spawn tokens is possible at any gate. `Leave` is a detach for any reason, and a
kick by the dwell timer, which does the same here; since no output is modelled,
either may come at any time. Handshakes up to the gates, among them the HTTP gate on the
number of clients, are not modelled: `Clients` got through. `Close` within
`Shutdown` ends with or without a detach.

*History.* `epoch` records for each grace timer who had attached when it was
armed; `killed` records the SIGKILLs, for a fairness condition.

### Service

`Service` follows the handshake step by step and abstracts from the sessions
behind it, which `Hub` and `PerClient` open up. `phase` is where the handler of
`Attach` stands: *dialled* (it holds a half-open place), *upgraded* (past the gate on the
number of clients, waiting for Hello), *checked* (`checkTicket` let it
through), *released* (`helloDone` closed, place given back), *in* the registry, or
*ending*, *out*. `Post` and `Dial` go through the guards in the order of the code
(`AttachAnswer`, `UpgradeAnswer`). The Hello timer may fire while a Hello is being
checked: the client sees the close, the handler goes on, as in the code. A place is
taken (`Dial`) before the number of clients is looked at (`Admit`), which gives it back
when it refuses, so a client that is about to be told 503 can cost another one a 429.
`HelloPasses` and `HelloFails` take the ticket store as given: the branch of `checkTicket`
for a server without one (`server.go:1386`) is not modelled, since `main.go` always makes
share tokens and with them a store.

Behind the registration, a writer of the shared session is the first eligible
client in line (`WriterHeadsTheLine` proves it of `Hub`); sizes are arbitrated; INPUT
is answered by the child it reaches; a client that does not read is kicked at once (shared) or after its dwell (per-client).
`fate` is the status a child is going to end with, `ChildEnds` is where `Wait`
returns, `Terminate` is the exit of the program.

*Abstractions.* All clients come from one source address. The block of a source
after a failed login ends at any time (`BlockEnds`); its length, which doubles, is
not modelled. Spawn tokens are not refilled. INPUT is judged and delivered in one
step: the byte-limited queue is not modelled.

### Logins

A request is a sequence of system calls: reload (read, then note time and size),
merge, open and truncate the temporary file, write, rename, stat. `pc` is where an
instance stands. A file is an inode under a name, since the temporary name is
shared as well. `Crash` takes an instance back to its start anywhere. `kept` is
history: what the file was given by a rename and nobody has ended since.

The constant `Overlap` says whether two instances may be between merge and rename
at once. `LoginsDurable` needs that they are not, see Findings.

### Link

JavaScript runs a handler to completion, so an action is one handler, and what
interleaves is what awaits. `chain` is where the newest `connect()` stands, `stale`
counts older calls whose fetch is still open: their generation is over, so all
they can do is return, or enter the catch clause, which looks at no generation.
`ws` is the socket the page refers to; of the sockets it replaced only their
states are kept (`old`). Delays are in seconds and only compared; the 1 Hz
countdown is wording. The login view is `login`, the panel `loop.panel`.

### View

One page and the part of the server that answers it. A size stands for cols x
rows. Frames are queues in both directions; those that no longer matter when a
socket is lost are gone with it. The WELCOME branch is one step, written as a chain of
functions on the page in the order of the code (`ReadWelcome` with the reset of a
per-client page, `refit`, `ApplyPrefs`, `EndWelcome` with the clearing after a reconnect).
`welcomeDone` outlives the socket until the next `connect()`, so the overlay still shows
on a page that has lost its connection, as in the code. Two xterm keys and two behaviour keys stand for the
eight and four of `prefs.ts`.

The other clients of a shared session are one size, `others`: the least of those that the
arbiter weighs besides this client, 0 if there are none. That is all the arbiter's minimum needs.
Who is weighed depends on the write policy (`participates`): writers under *owner* and *all*,
everybody in a session without `--writable`. Under *owner* nobody counts beside this
client once it may write (`Alone`). `OthersChange` stands for whatever the others do. Handlers for title, selection, clipboard and links
have no effect on the rest and are driven by scripts only.

### Scripts

An acceptance script is data: a set-up and a sequence of steps, which do
something, await an observation, check one at once, or hold one through a quiet
window. While a script waits, the program goes on by itself in any order, with a
well-behaved network unless the script breaks it. A script that can always be
brought to its end passes in every interleaving of the model, not only in that of
one test run; a model that left out a behaviour a script relies on would fail
it. So the scripts also check the models against the expectations of the
repository's own tests. In each module the script without steps is the
component's own specification: what holds with all events at all times.

Not played: scripts about assets, headers, metrics, TLS, logs and configuration
(`phase07`, `phase08`, parts of `phase03` and `phase13`), S7 of `phase05` and
others that look at pixels, count bytes or measure time, the parts of scripts that drive a shell
or a browser's own dialogs, and steps the program no longer satisfies: see
Findings.

## Runs

| Run | Setting | Shows |
|---|---|---|
| `hub_all` | policy all, 2 clients, ro and rw tickets, 2 shapes, 1 RESIZE | types; no lost wake-up of the gate; credit is always repaid; last Welcome queued is the truth; nobody who left weighs on the dimensions; spectators' streams exact; a kick spares the last writer |
| `hub_succession` | policy owner, 3 clients | a single writer, no vacancy, FIFO, also when successors are kicked |
| `hub_live` | policy owner, 2 writers, no resize, fairness | the gate reopens; each chunk fanned out reaches each client that stays; `Hub` implements `OrderedStream` |
| `hub_gap_owner` | as named | counterexample, see Findings |
| `pc_sessions` | 2 attaches for 1 place, exit when empty with a grace | types; `maxClients` is kept; no child is forgotten; the exit code is known before the supervisor can use it; no lost wake-up; each emptying is noticed; no exit by a stale grace timer |
| `pc_live` | the same without grace, one child of two cannot be killed, fairness | EXIT is delivered, places are freed, `Shutdown` returns, the program ends when it must |
| `pc_shutdown` | per-client mode | counterexample, see Findings |
| `service` | 3 clients, 2 half-open places, 1 client admitted; and 53 scripts, with their own command lines | half-open places are counted exactly; tickets admit once, with no more than their mode; a silent client gives way; every script passes |
| `logins` | 2 instances, 3 logins, crashes, a full disk, writes that do not overlap | a persisted login is in a whole file until it expires or is revoked |
| `link` | a page that needs no share link, any network and user, 1 superseded call; and 20 scripts, one on a share link | a running session is quiet and kept; a page that has stopped shows why; the loop has a driver; an unreachable server is given up; outages end; every script passes |
| `link_stuck` | the page without scripts | counterexample, see Findings |
| `view` | 2 window sizes, 2 frames under way, both session modes, writers alone, among others, and none; and 24 scripts, under policy owner | the page is what the last WELCOME says; sizes settle, those of a common rectangle too; every script passes |

*Bounds.* `MaxChunks` and `MaxResizes` bound the chunks produced and the RESIZEs
accepted. The capacity holds two or three frames, so an outbox fills, drains
under its half mark, fills again during a drain and overflows in a nested push,
all within three or four chunks. Two clients suffice for the gate (a writer and a
spectator, or two candidates in turn); three for a succession with a kicked
successor. Clients are interchangeable, and the runs of safety properties use that
symmetry; `hub_live`, which checks liveness, does not. Deadlock is not checked: when all
clients have come and gone and the chunks are spent, the hub rightly has nothing to do.
Under policy all two writers already make a push nested in a push: the debounce timer
pushes to both, the first does not take it and is kicked, and the outer push is stale when
the inner one returns. The theorems cover what these runs do not reach, for the
properties they name: policy all with three writers, policy owner with resizes, and
read-only sessions. Every invariant and every action property that a passing run checks
has a theorem.
In `PerClient` two attaches and one place are enough for both gates, an orphan,
a place that is freed and taken again, and a grace timer that is replaced. The program may end, or wait for clients that never
come, so deadlock is not checked there either.

In `service` three clients make one that is in, one that has passed the gate and
one that is refused, with two half-open places so that the limit is met while one is
given back. `Cast` bounds the behaviours that no script drives: the first two
clients get their own kind of ticket, the third presents one of theirs, and requests
that fail before a handshake begins are left to the scripts. In `logins` two
instances and three logins, with four inodes: the file, the temporary file and one
open by each instance; a renamed file's inode is used again. In
`link` one superseded call is enough for every property, since superseded calls do
not see each other; attempts beyond `MaxAttempt` have no new transitions, and
`MaxDials` is more than any script waits for. The properties of `LinkProofs` hold
for all bounds. In `view` the sizes 1 and 4 with `DimMax` 3 give a window that is
clamped, one that is smaller than the session, and one that is not displayed; the URL gives
nothing, or a font and one colour of a theme, against a font of the server (its themes are in a script).
`MaxFrames` also holds back the reading of a WELCOME and the debounce while the page's
own frames wait to be read, since both may send.
Scripts end, and pages that were given up wait: deadlock is not checked there.

*Fairness* (`FairSpec`). The holder of `hubMu` goes on (`HubStep`); a woken reader, a
fired timer and a writer that wants `hubMu` get it in the end, although others
take it in between (strong fairness: Go's mutex hands over to a starved waiter
after 1 ms); a writer goroutine drains what is there; a `conn.Write` ends,
because the pinger closes a connection whose peer stopped answering (so this
needs `--ping-interval` other than 0); a broken connection ends its read
loop, which detaches. No client is obliged to come, leave or resize, and the
child is not obliged to print.

In `PerClient` (`Scheduled`) goroutines that can go on do, and timers run out.
One condition covers them all, because each of these actions uses something up:
none can be put off for ever by the others. A child that was sent SIGKILL ends
if it is in `Killable`; a client whose connection the watcher closed leaves.
Clients need neither come nor leave, children need not end, and nobody need call
`Shutdown`.

In `Service` (`Timely`) handlers run on and the Hello timer of a silent client
fires; one weak fairness condition is enough, since its steps use something up. It
leaves out the gate on the number of clients (`Admit`): whoever is refused may dial again for ever, and
such steps must not count as progress of the others.
In `Link` the timer fires, a fetch is answered or throws, a socket that is opening or
closing gets there, and a server answers Hello or drops the connection (its
timeout); a server need not end a session, and the user and the window need not do
anything. `PageGivesUp` and `PageRecovers` ask for what follows once the user,
or failures, stop. In `View` timers fire, frames arrive and the arbiter's debounce
ends. While a script is played, what can go on by itself does, and the script goes
on when it can: a test has time limits far above those of the program.

## Proofs

`HubProofs` proves for all values of the constants, under `HubAssumption`:

- `TypeCorrect`: the type invariant. It needs that loops on the stack hold
  dimensions, that members of the arbiter have sizes that the arbiter can
  combine, and that a common rectangle exists: each nonempty set of dimensions has a narrowest
  and a shortest one (`NatLeast`, from the library's theorems on well-founded orders).
- `GateNeverSleepsOpen`: `NoLostWakeup`. It is inductive with types: each step
  that could open the gate (a writer leaves, comes, is promoted, gets its credit
  back) wakes the reader in that step; each other step leaves the writers blocked.
- `CreditAlwaysRepaid`: `CreditIsRepaid`. Not inductive: a credit is given when
  the outbox refuses a frame, so one must know that a refusal means a queued
  frame. The strengthening adds that the bytes counted of an empty outbox are
  zero, that a client which has not registered or whose batch is being written
  is in the matching state, and that a frame fits an empty outbox (from
  `HubAssumption`).

`HubRegistryProofs` proves the four permission properties from one invariant
(`PermissionInv`), under the same assumption. The properties speak of moments when
`hubMu` is free, or of single steps, and are not inductive. The invariant says what
the stack may hold, only pushes above one operation, and what that operation
still owes to permission (`Duty`): a promotion is owed exactly while the owner
is vacant, and a newcomer about to be registered has the right exactly if nobody else has it.
Each step pays or keeps what is owed, however deep pushes and kicks nest above it.

- `OneWriter`: `SingleWriter`; `OwnerAlwaysReplaced`: `NoVacantOwner`.
- `SuccessionInOrder`: `FifoSuccession`; `LastWriterSpared`: `KickSparesLastWriter`
  (action properties).
- `WriterHeadsTheLine`: under policy owner, whenever `hubMu` is free, who may type is
  exactly the head of the line of those with a right to write (`HeadOfLine`). It draws the
  first three together, and is what `Service` takes for granted (`ModeIn`). `LineInv` adds
  that the numbers of the attaches are distinct and that the owner, even one that has just
  left, came before everybody who may follow it.

It also proves `GhostsDoNotWeigh` (`NoGhostMember`), which speaks of
moments without a critical section and is not inductive. `ArbiterInv` holds within
them too: the members of the arbiter are the registered clients that take part and
the newcomer whose registration is still owed (`Duty`, as above), since `addMember`
comes before `registerLocked` and a push between them may kick others; and the PTY has
the members' common rectangle unless a RESIZE awaits the debounce timer.

`HubDeliveryProofs` proves what the hub promises about frames, on top of the
invariants above (`DeliveryInv` is their conjunction with the three that follow).

- `SpectatorStream`: `SpectatorStreamExact` for every configuration. The property looks
  at what was received; the invariant (`StreamInv`) follows the chunks on their way: what
  is received, in the batch of the writer goroutine, in the outbox and, for a client with credit,
  kept as the refused frame, put one after the other, is the run of chunks from the attach to
  the last one the client was due (`Due`: a fan-out that has not reached it owes it one).
  `FanInv` says that a fan-out under way is that of the last chunk, `IdleInv` that a
  goroutine holds frames only while it writes.
- `CalmStream` and `FanOutIsOrdered`: the exact stream of *every* client (`StreamExact`),
  and the refinement of `OrderedStream`, step by step: a step of the hub publishes, joins,
  delivers, or changes nothing the abstract stream sees. Both under `Calm`: the session is
  read-only, or under policy owner without a RESIZE. This hypothesis is the boundary of
  finding 1: each of its parts is one of the two ways in which a credit can be used up
  before the fan-out reaches its holder, and without it the theorem is false. In a calm
  session a fan-out is alone in its critical section, so a credit keeps its own frame
  and the closed gate lets no other chunk past.
- `WelcomesConverge`: `WelcomeConverges` for every configuration. It speaks of moments
  when `hubMu` is free and of the last Welcome only. Within a critical section
  (`WelcomeInv`) each registered client without a credit is `Aware`: either a push of the current
  dimensions on the stack has still to reach it (`Telling`), or the last Welcome of what it
  saw and is sent tells the truth (`Told`). New dimensions come with a push to everybody
  registered; a push stops as stale only when a nested one, for newer dimensions, has
  gone to everybody before it; a client that loses a frame holds a credit, and repaying
  the credit sends a Welcome.

`PerClientProofs` proves every safety property that `pc_sessions` checks, for all
values of the constants, under `PerClientAssumption`:

- `PerClientTyped`: types.
- `SessionsBounded`: `CapacityHeld`, inductive once pcSessions is known finite.
- `EveryChildIsOwned` and `ExitCodeIsRecorded`, by one invariant (`ChildInv`):
  nobody waits for a child before its upgrade is decided, a watcher past `Wait`
  has reaped, and a recorded session has left its code.
- `SupervisorNeverMissesTheEnd`: `SupervisorAwake`, inductive by itself: what
  makes an exit due broadcasts in the same step, or is `Shutdown` at work.
- `EmptyingIsNoticed` and `GraceAlwaysFresh` (an action property), by `GraceInv`:
  while a client is registered the latch is open, and a timer that counts was
  armed after the last attach.

`ServiceProofs` proves for all values of the constants, from one invariant
(`AdmissionInv`): a place is held exactly in the phases of `HalfOpen`, a ticket that
admitted somebody is spent and admitted nobody else, and with a credential nobody gets
past the handshake without one.

- `ServiceTypeCorrect`: types; `PlacesExact`: `HalfOpenExact`;
  `TicketsAreHonoured`: `TicketsHonoured`, in which succession follows from the
  definition of the writer by `Eligible`.

`LoginsProofs` proves `LoginsTypeCorrect` for every use of the file, and
`LoginsAreDurable` under `Overlap = FALSE`. The invariant (`DurableInv`) follows the
table that is being written: what the file keeps is in it from the merge on, it goes
to an inode that is not the file's, that is empty when it is filled and whole when it
is renamed.

`LinkProofs` proves from one invariant (`LinkInv`), whose new part is that the
loop's state is *steady* (`SteadyLoops`: a timer or a panel of the loop only while
it runs): `LinkTypeCorrect`; `QuietWhenHealthy`: `HealthyIsQuiet`;
`SessionKept`: `HealthyKept` (an action property).
`PageNeverBlank` (`NeverBlank`) needs besides that a page with no timer, no socket and no call
that will still act shows something (`TellInv`): an older call whose answer comes after a
session came up is dropped without a word, so the page must show something already while that call awaits.
`LoopIsDriven` (`LoopHasDriverBelowBudget`) needs one more fact (`DriverInv`): once a
session came up, nothing but the timer runs the loop until the next `connect()`.
`scheduleAttempt` sets a positive timer or gives the loop up, and every other step keeps
the awaited call or the socket that will get there. The budget is the hypothesis
that finding 3 is about.

`ViewProofs` proves `WelcomesHonoured` (`WelcomeHonoured`). The property speaks of a page
that has read everything; the invariant (`ViewInv`) says of the frames on their way that
each has the server's preferences and the last one its role (`DownInv`), that a key of
the URL has its value from the start and a key nobody gives its default (`PrefsInv`), and that the
notice and the addon come once (`OnceInv`). Since `refit` runs at each turn, the lemmas
say what it leaves alone (`RefitKeeps`), and what one WELCOME does from `ReadWelcome` to
`EndWelcome` (`WelcomeReads`). Preferences are compared key by key, and put together at the
end (`PrefsSpread`). It holds for whatever the URL says (`Searches`), whatever
`--client-option` gives to the keys there are (`OptionsAssumption`, which `main.go` checks at
start-up), with and without OSC 52 and a clipboard, themes and their merging included.

Only model-checked: the liveness properties (`GateReopens`,
`Delivered`, all of `pc_live`, `SilentGiveWay`, `PageGivesUp`, `PageRecovers`,
`PageSizesSettle`, the scripts), since liveness under fairness is out of the prover's reach.

## Findings

Three runs end in counterexamples.

1. `hub_gap_owner` refutes `StreamExact`: clients.go says that no OUTPUT frame is
   ever dropped on a connection that is kept. `kickOrCreditLocked` keeps the first
   refused frame of a credit only. A nested push, in the middle of the fan-out of a chunk,
   uses the owner's credit for a Welcome; the fan-out then reaches the owner, whose
   outbox is still full, and the chunk is dropped. With `AllWrite = TRUE` and three
   chunks the same property fails without a RESIZE: a writer holds a credit while
   another one flows, the gate is open, and further chunks are dropped or overtake
   the kept frame. What does hold, and is proved: spectators always have the exact
   stream (`SpectatorStream`), and so do all clients under policy owner when no size
   changes (`CalmStream`).
2. `pc_shutdown`. Nothing on the way of an attach looks at `exiting`. An upgrade
   that was forking registers after `Shutdown` found the sessions gone, and before
   the supervisor looks again; the program goes on and serves it. `DrainedEnds`
   shows that this is the only way: without such an attach the program ends.
3. `link_stuck`. When auth_failed exhausts the budget of immediate retries while the
   reconnect loop already runs, `onclose` calls `startReconnect()`, which returns
   because the loop runs; no timer is set, no call awaits, the socket is closed. The
   page says "Reconnecting" until the user or the window does something.
   `LoopHasDriverBelowBudget` and `PageRecovers` show that this is the only way.

Seen while modelling, without a run of their own:

- `perclient.go:538`. A SIGKILL timer may fire between the return of `Wait` and its record
  under `hubMu`: in `PerClient`, `KillFires` is enabled between `WaitReturns` and
  `Record`, and the group of a child already reaped is signalled. Comments at
  `perclient.go:98-101` and `577-581` and `docs/ARCHITECTURE.en.md:98` call it impossible.
- `server.go:1020`, `clients.go:341`: concurrent handshakes admit at most as many
  clients too many as the half-open cap. `release()` comes before the registration,
  so places are free again before `registry.n` counts; with a maximum of one and a cap
  of one TLC has two clients *in*, and nothing but the number of handlers bounds more.
- `sessions.go`. Overlapping writes share the temporary name: with `Overlap = TRUE` TLC
  finds one instance writing into the file that the other has just renamed, and a
  torn file is read as no file (the header allows for one lost login). `persistLocked`
  merges other instances' logins into the file but not into its own table, and then
  notes the file as seen: it refuses those logins until the file changes again,
  although the comment at 134-136 promises that they are visible. A revoked login is
  merged back from the file by the very write that should remove it.
- `perclient.go:15` and `257-259` speak of a bound on concurrent *child processes*. What
  is bounded is `pcSessions` (`CapacityHeld`). An upgrade that loses the second look has
  forked already; its child is killed and reaped by `reapOrphanSession` after the
  refusal is sent, and a child that hangs in the kernel stays for as long as it does. So there may be
  more children than `maxClients` for a while, as many as upgrades that fork at once.
- `main.ts:399`. A RESIZE that a page sends between Hello and the WELCOME that makes it a
  spectator is dropped by the server but remembered in `lastReported`; after a promotion
  it is not sent again, so the new owner's session keeps the size of its Hello. `SizesSettle`
  excepts it (`dropped`).
- `main.ts`. The catch clause of `connect()` asks for no generation: an old call that
  throws takes the loop a step on. `visibilitychange` restarts the loop over a terminal
  panel of a page that had a session. On a restore from the cache the page's own
  `close()` comes back as 1005, which ends the loop it has just started with
  "Connection lost".
  A WELCOME hides the panel only while the loop runs, and never the login. The comment on
  the login (`main.ts:567`) calls it and the final panels exclusive, but `showStatus` does not
  hide it. And with the retry budget spent, a login that succeeds over the stuck loop of
  finding 3 can leave a page that shows nothing; `NeverBlank` excepts the spent budget.
- Scripts that the program no longer satisfies: `phase03` S1a and `phase05` S2d and S4a
  want a Basic challenge for a page without credentials, `phase03` S1c the same
  challenge for a wrong credential as for none, but the page is served and draws its
  own login (`server.go:698`); `phase05-dom` D3a and T5 of `pw/phase06-pw.mjs` want
  a panel "Server is full", D5a "Disconnected", where a full server and a kick now lead
  into the reconnect loop.

## Not modelled

- The output closure of the per-client mode (`perclient.go:400-500`): the frame it
  holds, its one-slot token and the dwell timer. `Service` has what a client sees of it.
  So no property speaks of OUTPUT still in flight when EXIT is written.
- The byte-limited input queue and `mergeBatch`.
- The global bucket of the spawn throttle, refills, and the lengths of blocks.
- The shared mode's `lifecycle` and `Shutdown` below the level of `Service`: their
  snapshots and bounded joins are single steps there.
- Static configuration, observation, the codec, the PTY's system calls, xterm.

## Next

1. The output closure and the end of a stream in both modes, on `Hub`'s outboxes.
2. `PerClient` and `Hub` shown to implement the rest of what `Service` assumes of a session:
   the succession is proved, sizes, kicks and ends are not.

Trusted: the Go runtime and its memory model, the browser's event loop, the WebSocket
library (a closed connection fails its reads and writes), POSIX rename, the kernel's PTY.
