# TLA+ specifications of openconnectd

openconnectd manages `ocserv` VPN servers on one host. It keeps *instances* (one
ocserv each) and their *clients*, persists both in one JSON file, renders a
configuration file per instance, runs a small CA per instance, and supervises
the ocserv processes. HTTP handlers run concurrently on one `Manager` that has no
lock of its own; the record store and the supervisor each have a mutex, and the
files of the PKI, the password file, the pins and the configuration have none.
That is where the interesting behaviour is, and what these modules are about.

## Inventory

| part | code | state | operations | what makes it correct |
|---|---|---|---|---|
| record store | `state/store.go` | the records in memory, `state.json`, `state.json.tmp`, an RWMutex | Put/Delete of instances and clients, readers, Open | atomic and durable mutations, no client without its instance, the lock always released |
| PKI files | `ocserv/pki.go` | per instance: `ca.pem`/`ca.key`, `clients/<serial>.pem/.key`, `revoked.json`, `crl.pem` | EnsureCA, EnsureServerCert, IssueClient, RevokeClient, ClientBundle | a recorded serial has its files; a deleted client's serial stays in the CRL |
| password file | `ocserv/ocpasswd.go` | `<instance>.ocpasswd` | SetPassword (external tool), DeleteUser | other users survive a delete |
| pins | `ocserv/manager.go` | `<instance>.per-user/<cn>` | write, remove, rebuild | a client's address is the one recorded |
| client operations | `ocserv/manager.go` | locals of handlers only | CreateClient, PatchClient, DeleteClient, ClientConfig | the five places a client lives in agree once handlers are done |
| instance operations | `ocserv/manager.go` | `<instance>.conf` | CreateInstance, PatchInstance, DeleteInstance, Reconcile | file and process follow the record |
| supervisor | `ocserv/process.go` | map of processes, the processes | Start, Reload, Stop, Running | no ocserv out of reach |
| rendering | `ocserv/config.go` | none | Render, validate | directives match the record |
| sessions and bans | `ocserv/occtl.go`, manager | locals of handlers only (reads occtl) | Sessions, Bans, Unban, Disconnect | one instance that is down or hangs hides no other; no unban reported that did nothing |
| HTTP API | `httpapi/server.go` | none | routes, bearer token, status codes | the outcome matches what was done, and every request ends |
| metrics | `metrics/exporter.go` | none | Render, a scrape with a deadline of its own | a scrape ends, whatever ocserv does |
| TUI | `tui/tui.go` | lists, cursor, focus, status; the commands in flight | fetch, tick, keys, kick, toggle | the cursor stays on the list, actions hit the row they were pressed on, the screen comes to agree with the daemon |
| client library, CLI, version probe, config | `pkg/api`, `cmd`, `version.go`, `internal/config` | none | formatting and flags | – |

Interaction: a handler calls the store, the PKI, the password tool, the pin and
configuration files and the supervisor one after the other. ocserv reads the
files when it boots and on SIGHUP, at moments of its own. Requests about the live
state run `occtl` against one instance's socket after the other, with no lock at
all; the TUI polls them over HTTP. A start-up opens the
store and runs `Reconcile` before the API is served (`main.go:84`). Under systemd
the ocservs end with the daemon and the unit starts it again.

The hard behaviours are listed, at their lines, under `hazards` in
`PROJECT.json`: read-modify-write of unlocked files by concurrent handlers,
errors and crashes between two of a handler's steps, retries that meet
half-done work, signals to processes that boot or are already dead, walks over
sockets that go down or hang half way, and answers that come after later ones.

## Modules

| module | stands for | state |
|---|---|---|
| `Records` | the persisted records as values, and the four mutations as functions | – |
| `AtomicStore` | what the store promises: a mutation is one step, in memory and on disk, or in memory only when the flush fails | `mem disk seen` |
| `Store` | `store.go`: lock, marshal, truncate and write of the temporary file, rename, failure of each, crash | `mem disk tmp lock pc raw ok seen` and the ghosts `base`, `promised` |
| `Pki` | the PKI files and the file operations of `pki.go` | `ca pems keys revoked crl` |
| `PkiBootstrap` | EnsureCA, EnsureServerCert, loadCA, writeCRL, IssueClient's signing, file by file | `files recorded issued req`, ghosts `unseeded`, `torn` |
| `Clients` | the client handlers of `manager.go` over AtomicStore, Pki, password file, pins and the CRL each ocserv has in force | AtomicStore's and Pki's, `req passwd pins running hup inForce`, ghost `gone` |
| `Supervisor` | `process.go`, and the life of a process: booting, serving, exited, reaped | `procs proc` |
| `Instances` | the instance handlers of `manager.go` and Reconcile over AtomicStore, the configuration files and Supervisor | AtomicStore's and Supervisor's, `req conf todo` |
| `Live` | Sessions, Bans, Unban and Disconnect of `manager.go` over `occtl.go`, one occtl run at a time, with the deadlines of their callers | `known socket live ban req`, ghost `watch` |
| `Tui` | `tui.go`: the model, its messages, the commands in flight, over a daemon that others change and that may be out of reach | `inst sess reach m running timers ticks cmd`, ghost `acted` |
| `RecordLemmas`, `StoreProofs`, `ClientsProofs`, `SupervisorProofs`, `InstancesProofs`, `PkiBootstrapProofs`, `LiveProofs`, `TuiProofs` | lemmas and theorems | – |
| `MCStore`, `MCClients`, `MCInstances`, `MCPkiBootstrap`, `MCLive`, `MCTui` | values for TLC; `MCTui` counts the changes and the keys | – |

`Clients` and `Instances` are built on `AtomicStore`, which `Store` is proved to
implement. `Instances` calls `Supervisor`'s operators as the code calls its
methods. A handler is a record in `req`: its program counter and its locals. One
step of it is one call into a locked component or one operation on a file; an
`os.WriteFile` is a truncation and a write, because others can look in between and
either may fail: the lists of the revocations, the password file, the pins, the
configurations and the PKI's own files alike. (The certificate and the key of a
client are the exception: they are read only once a record names them.)
Work that touches no shared state (validation, building a template) is part of
the next step. Definitions marked "Not the code" are deliberate bugs that the
properties are tested against, each replacing the definition that follows it.

Abstractions, all of data: a record holds the fields the properties tell apart
(auth mode, serial and address of a client; auth mode and enabled, or listeners,
the rest and enabled, of an instance); a file is its content, or `Torn`; a serial
is a fresh value (`newSerial` draws 128 random bits). The listeners of an instance
are the five fields `listenersDiffer` compares; `Bound` computes from them what
the file says, as `instanceConfig` does, and `Clash` says which two of these
cannot be served at once. A pin is an address, none, or `TornPin`: cut short by a
write that has not ended. (What ocserv makes of such a file is left open; a cut
that leaves the digits of another address is not told apart.) The rest of a record
is one value, some of which `Render` refuses (`Unrenderable`: camouflage without a
secret). What ocserv does is external, taken from how the code uses it: it reads
its files at boot and on SIGHUP, does not rebind on SIGHUP (the comment at
`manager.go:154`), exits when its sockets are taken or its file does not parse,
and dies of a SIGHUP that arrives before it has a handler. A crash of the daemon
takes the ocservs along, as its systemd unit does. In `Live` an ocserv answers on
its socket, does not (the run fails at once), or hangs with the socket open (the
run lasts until the caller gives up); what occtl prints is a set of rows. In `Tui`
a call is answered from the daemon's state at one moment, or fails; an action may
be carried out and its answer still be lost.

`EnsureCA` is one step in `Pki` and taken apart in `PkiBootstrap`, and
`CreateInstance`/`DeleteInstance` are one step each in `Clients` (they are taken
apart in `Instances`); the CA is made for an instance that takes certificates or
on request (`CreateCAIfEmpty`), and only the former has its ocserv read a CRL. In
`PkiBootstrap` a certificate and a key are named by the key pair they belong to, a
CRL by the pair that signed it; an issued certificate by the CA that signed it, as
the bundle that `IssueClient` puts together is dropped by `CreateClient` and made
anew from the files by `ClientBundle`; reading a file that exists succeeds there,
although the code takes a failed read for a missing CA.

## What the callers keep apart

The code admits any request at any time. Several properties hold only for callers
that take turns, and the constant `Discipline` says at what:

- `"none"`: nothing is kept apart;
- `"client"`: one handler at a time per client; renders of the instance, which list
  the clients and then write their pins, come at any time;
- `"pin"`: besides, a handler of a client does not meet a render that has still to
  write the address it listed for that client; it may meet one that listed none for
  it, or has written it, and any handler of another client;
- `"instance"`: one request at a time per instance.

From `"client"` on, an instance is created or deleted while no request is at work on
it. `PinFollowsRecord` is what tells `"client"` from `"pin"`, see below.

`PkiBootstrap` needs less, `InTurn`: one create of a name at a time.

`MayFail`, `MayCrash` and `MayDie` switch on failing operations, crashes of the
daemon and ocservs that exit on their own. A property is checked under the
weakest combination it holds for.

## Runs

| run | question | bounds |
|---|---|---|
| `store` | is the store atomic, durable, deadlock-free, and an AtomicStore? | 2 threads, 1 instance, 2 clients, one value of each record: two mutations of different keys, and of the same key, meet in every order |
| `clients_in_turn` | instance discipline, nothing fails: CRL complete for ever and in force, passwords kept, handlers return | 1 request in flight, 2 clients, 2 serials, all three modes, instances with and without certificates: enough for a deletion, a second one, and an instance deleted and created again in between |
| `clients_apart` | pin discipline, 2 handlers interleaving, failing writes and flushes: pins and serials | 2 requests, 2 clients, 2 serials, mode "cert" (a password touches neither) |
| `clients_free` | no discipline, failures and crashes: no client without its instance, files behind every serial, only pinnable records, the store used as promised | 2 requests, 2 clients (one with an unsafe name), one bad address |
| `instances_in_turn` | instance discipline, ocservs die, daemon crashes: file and process follow the record | 1 request, 2 processes, 2 listeners that share the UDP socket and not the TCP one, 2 values of the rest |
| `instances_free` | no discipline, failures too, records that Render refuses: no ocserv escapes the supervisor | 2 requests, 2 processes, 1 listener, one good and one refused value of the rest |
| `bootstrap` | creates in turn, everything else at will, writes fail, daemon crashes: CA, CRL, server certificate and issued certificates fit together | 3 requests, 5 key pairs: one each for the CA, the server, a half-made CA, its successor and a stale read |
| `live` | instances fall, hang, come back and are deleted between two occtl runs: answers are complete, say of an unban what it did, and come | 2 instances, 1 user, 1 session, 1 address, 1 request: a walk with something before and behind it |
| `tui` | answers in any order, keys at any time, a daemon changed by others or out of reach: cursor, aim, honesty of the status, one timer, convergence | 2 instances, 1 user, 2 commands in flight, `MaxChanges` = 2, `MaxKeys` = 2: one answer overtakes another, with a key and a change on either side |
| `lost_revocation`, `revoke_retry`, `enabled_serves` | where the code does not do what its documents say; see `findings` in `PROJECT.json` | as small as the counterexample allows |

The runs about handlers have one instance: instances share nothing but the store
(whose run mixes keys) and the sockets. Two concurrent handlers are enough for
every lost update; the third adds no new kind of interleaving, only length. A
process outlives its instance's next one in the models, so two handles give a
stopped process and its successor; a third would only be a longer queue of
stopped ones. Bounds in guards: `SerialLeft` (`Clients`) admits a create that
will issue a certificate only while serials are left for it and for every handler
in flight; `Fresh` (`Supervisor`) spawns only with a free handle; `Slots` (`Tui`)
bounds the commands in flight, and `MCTui` counts what others change and which
keys are pressed. `live` has one request, because requests share nothing but what
ocserv holds, which changes at will anyway; the theorems are about any number.
Symmetry is used on requests, serials and handles in the runs without liveness, and
on the two clients in `clients_apart`, where nothing tells them apart.
Deadlock is checked everywhere but in `tui`, whose program quits.

### Fairness

`FairSpec` asks for weak fairness of each handler's next step (a goroutine that is
runnable is scheduled; no handler waits for another except for the store's lock,
which is itself shown to be released), of the start-up, and of what an ocserv
does about a signal it has been sent or a boot it has begun. Nothing is assumed
of arriving requests, of failures, of deaths or of crashes.

In `Live` it asks for the handler's next step and for `Expire`, the end of the
caller's patience: five seconds for a scrape (`exporter.go`) and for the TUI,
thirty for `api.Client`. It ends the request's context and with it the occtl run.
The handlers set no deadline themselves: a caller that waits for ever (a bare
`curl`) waits for as long as ocserv hangs. In `Tui` it asks for the timer, for each
command's goroutine, whose calls end within five seconds, and for the delivery of
its message by Bubble Tea's loop.

### Where the code and its documents differ

- Two concurrent deletes lose a revocation (`lost_revocation`).
- A retried delete reports success without a CRL (`revoke_retry`).
- A patch can leave an enabled instance down for good: SIGHUP during the boot, or
  sockets still held by the process being replaced (`enabled_serves`; the run finds
  the former, and does not tell the two apart).

Met while modelling, and not runs of their own:

- A render that listed a client's address before a patch took it away writes it back,
  and no later render removes it, although the pins are "derived state" and a client
  without an address should fall "back to pool assignment rather than keeping a stale
  pin" (`manager.go:456`, `:559`): with `Discipline = "client"` in
  `MCClientsApart.cfg` TLC refutes `PinFollowsRecord`.
- A create that fails or dies between `ca.key` and `crl.pem`, and is tried again with
  success, leaves an instance without the CRL file its configuration names: the second
  `EnsureCA` finds a CA and returns (`pki.go:65`), although it seeds a CRL "so ocserv
  always has a file to read" (`pki.go:92`). With `CRLSeeded` as an invariant of
  `MCPkiBootstrap.cfg` TLC refutes it. `CRLUnlessHurt` says what is left of the promise:
  besides that window, only a revocation that fails or dies in its rewrite costs a CRL,
  and leaves it torn, not missing.
- "A failing instance is reported rather than skipped", says the comment on `Bans`
  (`manager.go:321`), so that "could not ask" does not read as "nobody is being
  attacked"; the code reports an error only when every instance failed. With
  `FailedAskReported` as an invariant of `MCLive.cfg` TLC refutes it. `BansFaithful`
  states what an answer does hold.
- Two concurrent creates of one client both succeed, the second over the first:
  with `Discipline = "none"` in `MCClientsApart.cfg` TLC refutes `SerialStable`.
- Two concurrent creates of one instance can leave the CA certificate of one with
  the key of the other, for good: with `InTurn = FALSE` in `MCPkiBootstrap.cfg` TLC
  refutes `RecordedHasCA`.
- A missing `ocserv` or `occtl` is answered with 404, because the text of the error
  says "not found"; `docs/API.md:11` gives 404 for something that does not exist.
- `exporter.go:71` labels a session by instance and user, and a user may have two
  sessions (`max-same-clients`, `config.go:161`): two series with the same labels.

## Proofs

All for any number of threads, handlers, instances, clients, serials and processes.

**Store** (`StoreProofs`). The inductive invariant is the type invariant together
with: only the holder of the lock is past "idle"; what a thread has marshalled is
the memory it locked; a temporary file about to be renamed is exactly that; and
memory and disk keep the promises of every key that no mutation has touched
since. `DiskWhole`, `AcknowledgedSurvives` and `ClientsHaveInstance` follow, and
the refinement maps a mutation to the abstract commit at its rename, or at the
step that gives it up. Type correctness alone is not inductive: a rename is only
safe because of what the temporary file holds by then. `FlushesAlwaysGoOn` is what
safety can say of the lock: its holder goes on in `flushLocked`, never back, and
gives the lock up on every path.

**Clients** (`ClientsProofs`). Whatever `Discipline`, `MayFail` and `MayCrash`
are. The argument: certificate files are written before a record can name them
and never removed, so what a handler carries towards `PutClient` is backed by
files at every step, however long it is overtaken; and it only reaches `PutClient`
through the pin writer. The invariant says this of every handler in flight, by
its program counter, and of both copies of the records. With it every write of the
records is one of `AtomicStore`'s mutations, so `Clients` refines it.

Two more invariants, with the assumptions named here, say what one handler has made
of the client or the instance it is at work on. With the discipline `"pin"`, the pin is
the record's until the handler opens it, then cut short, and then the address it is
about to record; what a render still has to write is what the records say now, because
no handler of those clients could start. A write or a flush that fails leaves the pin
cut short, removed, or ahead of the disk with the record in memory; it never leaves
another address. `PinFollowsRecord` follows if the daemon does not die. A crash between
the pin and the record leaves a pin that no record explains; but the start-up renders
every enabled instance and so, if its writes work, writes every recorded address again,
which is what `AddressesOutliveCrashes` says: a recorded address is in force even then.
(A pin that should be gone stays: a render writes pins and removes none.) Both
conditions on the callers are needed: without the first, two handlers of one client
leave the pin of one and the record of the other, and without the second a render
writes back what it had listed (see above). `SerialStable` needs the first only, and also holds through crashes, unless
writes may fail too: a failed flush leaves memory ahead of the disk, and a crash then
brings back a client without the certificate it was given. TLC refutes it with both.

With callers that take turns, writes that work and no crash, `revoked.json` and the
CRL are the same list whenever neither is being written, and the handler that
rewrites them, or the password file, carries everything they said:
`DeletedStaysRevoked` and `PasswordKept` follow. That a new CA's empty CRL costs
nothing needs one thing more: without a CA nothing was ever revoked. The assumptions
are needed: the findings and the list above show what happens without turns, and a
crash inside `saveRevoked` or `writeLines` loses the list or the file, as both are
truncated in place and written afterwards.

What ocserv makes of it needs no assumption: `CRLAlwaysInForce` says that a running
ocserv that takes certificates and has no signal on its way enforces the CRL on disk, if that is whole, because
a list is signed before the SIGHUP and a SIGHUP that finds no process is made good by
the start that follows. With `DeletedStaysRevoked` this gives `DeletedAlwaysRefused`:
once the signal is taken, every client that was deleted with success is refused.

`HandlersAlwaysGoOn`, here and in `Instances`, is the part of "every request returns"
that does not need fairness: a step of a handler ends it or leaves the same call with
strictly less to do, counted in clients still to be written by a render and in calls
left. That it returns then only needs that it is scheduled.

**Supervisor** (`SupervisorProofs`). `NoStray` is not inductive: that a handle in
the map names a process of that instance which was not told to stop has to go
with it, or `Stop` could signal another's process. `StopAlwaysReachesAll` follows
from the two: the map names one process of an instance at most, and yet a `Stop`
leaves none of them untold.

**Instances** (`InstancesProofs`). The typing invariant tells what each handler
holds at each point; with it every step is one of `Supervisor`'s, so the
supervisor's invariant carries over by its own lemma and `NoStray` with it, and in
particular no two ocservs of an instance were not told to stop (`NeverTwoUntold`).
Every write of the records is one of `AtomicStore`'s mutations
(`InstancesUseStoreAsPromised`), so both users of the store refine what `Store`
implements.
`ConfAlwaysFollowsStore` assumes callers that take turns and writes that work:
then the one handler at work on an instance has already written the file when it
stores the record, and Reconcile renders again what a crash left half done.
`UnwantedAreTold` and `AllServeTheRecord` make the same assumptions. Their invariant
says, by the program counter of the handler at work on an instance, what its
processes are: as the handler found them until the new file is there; then on the
listeners asked for, unless they are about to be stopped; and, with no handler,
told to stop where the instance is gone or disabled, on the record's listeners
where it is not. A signal on its way makes good whatever is not a listener, and a
process only ever takes over a file that is whole. `SettledOnlyEverEnds` needs none of
these assumptions: without a handler or the start-up at work, the ocservs of an
instance only become fewer. With `UnwantedAreTold` that leaves of `UnwantedGoesDown`
what ocserv itself has to do, obey a SIGTERM.

**PkiBootstrap** (`PkiBootstrapProofs`), with `InTurn`. The argument: the files of
the CA are touched only while `ca.key` does not load, and `ca.key` loads only with
the `ca.pem` it was written after; so a handler that has found the CA whole works
with the same CA for ever, and whatever a dead create left is made anew by the
next. The invariant says what each job may hold and write at each step, and that
the CRL is there, being written, or due, unless one of two failures came: in a create
after the key of the CA and before the end of the CRL (`unseeded`), after which nothing
is said of the CRL, or in a revocation between the truncation and the write (`torn`),
after which it is whole or torn and never missing.
`PairsAreMadeOnce` adds that whoever writes the server's files has found no whole key:
then neither pair, once whole, is ever written again, by no retry, delete or new
create. It is why `Pki` may take `EnsureCA` as one step that does nothing the second
time. `BootstrapAlwaysGoesOn` is the `HandlersAlwaysGoOn` of this module.

**Live** (`LiveProofs`). For each kind of walk, what has stood since its start and
is not yet in the answer belongs to an instance still to be asked. The ghost only
shrinks, one occtl run takes one instance off the list, and what it leaves out was
not there at that moment; so with nothing left to ask, the answer holds all of it.
For an unban the count of instances where it worked and the ghost of what it
lifted stay empty together. `RequestsAlwaysGoOn`: a walk asks each instance once,
twice for a list of bans, and reports nothing more once its caller is gone.

**Tui** (`TuiProofs`). The typing invariant includes where a command's action comes
from, which needs that the cursor is on a row of the list in view: `CursorOnRow` is
an invariant because every message that changes a list or the focus ends in the
clamp. `OneTimer` counts the timer that is set and the tick that has fired and is not
taken: `TimerFires` turns one into the other and `TickMsg` back. `StatusHonest` needs the same of the messages on their way. `ActsAsAimed`
follows as only `Act` sends, and what it sends was fixed when the key was pressed;
`ActionsSentOnce` adds that a command never goes back, so that one key is one call.

Each assumption on the constants is a named `ASSUME` that TLC evaluates in the
runs; they say that the values which stand for "no file", "torn", "no record" and the
like are told apart from what they are not, and that the switches are what they can be.

The theorems that name no property of a run were put to TLC on the runs'
configurations before they were proved.

Only model-checked: everything temporal beyond safety (`LockReleased`,
`EveryRequestReturns`, `RevocationEnforced`, `UnwantedGoesDown`,
`ScreenConverges`), which needs fairness and is out of the prover's reach. For all
but the last the theorems above prove what does not depend on it: that nobody goes
back or loops, that a list once signed is owed a signal, that what should go was told
to. What is left to TLC is that each next step can be taken (`ENABLED`) and, by
fairness, is. Every invariant and every action property the passing runs check is
proved. There is no recursion in the models.

## Not modelled

The text of the rendered configuration and of the certificates, cryptography,
HTTP routing, authentication and status codes, metrics text, flags and YAML, how
occtl's output is parsed, the API client, the CLI and the version probe: they keep
no state, and unit tests serve them better. What the TUI draws is not modelled
either, only what it holds. A daemon that dies without its children (outside
systemd) is not modelled.

## Plan

Done, in this order: `Store` with its refinement, `Pki` and `Clients`,
`Supervisor`, `Instances`, `PkiBootstrap`, `Live`, `Tui`, the concrete listeners of
`Instances`, and the theorems above. Left:

1. Device names and status codes as operators over bounded inputs.
