# TLA+ models of TitanSSH

TitanSSH is a desktop SSH client: a Rust backend (Tauri) that opens SSH
connections, and a React front end that shows what the backend tells it. These
modules model the core of the backend, and of the window as much as answers and
events can overtake. TLC checks them on small instances; TLAPS proves the
safety properties for instances of any size. Paths below are relative to the
repository; line numbers are in `PROJECT.json`, which also maps each definition
to the lines it models.

## The system

A *runtime session* is one open tab. It has up to three kinds of SSH
connections of its own to the same host: the terminal's, a control connection
for SFTP and a small pool of connections for transfers, and one for monitoring.
Every one of them verifies the server's key in the same place.

| Component | State | Operations | Interacts with |
|---|---|---|---|
| `SessionManager` (`core/session_manager.rs`) | session registry, per session a shutdown flag, a command channel, a status | open, close, write, resize, list | starts the terminal and the SFTP session; on close calls, in this order, identity `cancel_session`, terminal shutdown, monitor `stop_session`, SFTP `cleanup_session` |
| `TerminalService` (`core/terminal_service.rs`) | connect phase, deadline, IO loop | connect with a deadline, read/write/resize/close | identity (waits for the user), events `session:status` |
| `HostIdentityService` (`core/host_identity.rs`) | temporary trust, pending challenges, cancelled sessions | `verify`, accept, accept and save, reject, cancel, forget, cancel all | called by every connect; `TrustStore` |
| `TrustStore` (`storage/trust_store.rs`) | `known_hosts` file and its cache | lookup, upsert, remove, list | identity |
| `SftpConnection` (`core/sftp_service.rs`) | one slot: Idle, Connecting, Ready, Failed, Closed | eager connect, `get`, invalidate, close | directory listings and size requests |
| `TransferPool` (`core/transfer_pool.rs`) | slots, FIFO of waiters, reaper thread | checkout, checkin, cancel a waiter, close | transfer workers |
| `SftpService` tasks (`core/sftp_service.rs`) | task registry, cancel tokens, a global semaphore | enqueue, cancel, clear, worker, cleanup | pool, control connection, events `sftp:task_status` |
| Safe publication (`core/sftp_service.rs`) | temporary file, target | copy, check for cancellation, publish, clean up | the file systems at both ends |
| `MonitorService`, monitor loop (`core/monitor_*.rs`) | tasks, snapshot cache | start, stop, collect | identity, events `task:status`, `monitor:snapshot` |
| `HostConfigService`, `HostStore` (`core/host_service.rs`, `storage/host_store.rs`) | `hosts.json` | save, delete with compensation | `SecureStore`, identity `forget_endpoint` |
| `SecureStore` (`storage/secure_store.rs`) | credentials in one or two OS stores | set, get, delete | every connect, `HostConfigService` |
| Commands (`commands/*.rs`, `lib.rs`) | none | adapters | decide the thread a call runs on |
| Front-end stores (`src/stores/*.ts`) | what the window shows | apply events, merge snapshots | invoke commands, listen to events |

**Threads.** A synchronous Tauri command runs on the main thread, so two of
them never overlap; the commands that may block (download, directory listing,
start of monitoring) run on the blocking pool. Every session has a terminal
thread and a connect thread, an eager-connect thread, a task with a blocking
worker per transfer, at most one reaper per pool, and a thread per monitoring
task. They share state behind mutexes that are held for short critical
sections and released before anything that can block. Each action of the
models is one such critical section, or one return of a blocking call.

**What is hard, and what makes each component correct.**

- *Transfer pool.* Capacity, exclusive use and FIFO have to survive connects
  that happen outside the lock, waiters that are cancelled while they are
  woken, connections that come back after the close, and a reaper that decides
  to end while one more connection becomes idle. No waiter may sleep while
  capacity is free and nobody will wake it.
- *Transfer tasks.* A task passes through an enqueuing thread, a queue, a
  connect, a permit, the transfer and the release, and may be cancelled or
  lose its session anywhere. It must end, once; its connection and its permit
  must come back; a cancelled task must not touch a file; two tasks must not
  write one target; what the window was told must agree with the registry.
- *Control connection.* One thread connects at a time while others sleep; a
  failure is shared; a lost connection is rebuilt once for all who lost it; a
  closed slot stays closed.
- *Host identity.* Three connections of a session and the connections of other
  sessions ask about keys at once, join one question, supersede it for another
  key, are released by somebody else's save. Nobody may pass on a key that its
  user does not stand for, nobody may wait for a question nobody can answer,
  and a closed session must leave nothing behind.
- *Terminal.* A deadline that does not run while the user is asked, against a
  connect thread that reports its phase through shared state and may hang; a
  close that finds the session anywhere between the first look-up and the loop;
  a tab that must not let the user type when nobody listens.
- *Monitoring.* A start that is overtaken by the closing of its session.
- *Host configurations.* Credentials, a file and trust records are three
  stores with no transaction; each step may fail, or the process may end.
- *Safe publication.* The old target must survive every failure and every
  cancellation; nothing of a cancelled transfer may appear.
- *Front end.* Answers and events overtake one another.

## Modules

| Module | Models | Proofs |
|---|---|---|
| `SlotPool` | what the pool promises: at most `Limit` users, nobody served after close, everybody answered | |
| `TransferPool` | `core/transfer_pool.rs` | `TransferPoolProofs` |
| `TransferTasks` | tasks of `core/sftp_service.rs`, with an instance of `TransferPool` | `SftpServiceProofs` |
| `ControlConnection` | `SftpConnection` and `run_control_op` | `SftpServiceProofs` |
| `HostIdentity` | `core/host_identity.rs`, the challenge commands, the trust store as a map | `HostIdentityProofs` |
| `TrustStore` | `storage/trust_store.rs`: the file, its lines, the cache | in `ConnectProofs` |
| `SecureStore` | `storage/secure_store.rs` on Linux: the two stores of credentials | in `ConnectProofs` |
| `Connect` | `connect_session` in `core/ssh_transport.rs`, composed of `TrustStore` and `SecureStore` | `ConnectProofs` |
| `HostConfigs` | `core/host_service.rs`, `storage/host_store.rs`, credentials and trust records as maps | `HostConfigsProofs` |
| `Monitoring` | `core/monitor_service.rs`, the loop of `core/monitor_worker.rs`, the close of a session, the tasks of `stores/monitor.ts` | `MonitoringProofs` |
| `MonitorSampling` | `parse_*`, `compute_*` and the baselines of `core/monitor_worker.rs` | `MonitoringProofs` |
| `Publish` | what a transfer promises about its target: whole or absent, put in place once, replaced only if asked | |
| `SafePublish` | `run_transfer_blocking`, both publishes and both clean-ups in `core/sftp_service.rs` | `SafePublishProofs` |
| `SftpProjection` | `stores/sftp.ts`, with as much of `SftpService` as answers it | `WindowProofs` |
| `TerminalSession` | a session in `core/session_manager.rs`, its threads in `core/terminal_service.rs`, its tab in `stores/session.ts` | `WindowProofs` |
| `MC...` | instances for TLC: model values, functions over them, symmetry | |

A module of proofs may be about two components of one subsystem. The
definitions of `ControlConnection`, `MonitorSampling` and `SftpProjection` that
every specification has are therefore prefixed (`ControlSpec`, `SamplingSpec`,
`ProjectionSpec`, ...).

Operators whose line ends in `\* variant` are plausible mistakes in the
operator below them. No specification uses them; they exist so that each
property can be shown to fail when the code is changed that way.

### TransferPool

State is `PoolState` (`slots`, `idle`, `nextSeq`, `waiters`, `closed`,
`reaper`), the wake-up of each waiter (`wake`) and the place of each worker in
`checkout`/`checkin` (`phase`). `Checkout` and `Retry` are one iteration of
`checkout`'s loop each, including the sweep that precedes it (`Expired`,
`Live`, `Free`); `ConnectOk`, `ConnectErr`, `ConnectLate` are the second
critical section of `create_connection`; `CheckinDrop` and `CheckinHealthy`
the two kinds of `checkin`; `ReaperScan` and `ReaperWake` the two of
`reaper_loop`. A connection is its number. Time is reduced to `stale`: an idle
connection may pass its timeout at any moment.

`KeepsPromise` states that the pool implements `SlotPool`, with a worker that
waits as one that has asked; `KeepsFairPromise` that it does so with
`SlotPool`'s fairness, hence that whoever asks is answered.

### TransferTasks

One session with its pool, and transfers of either kind (`Mixes`: which of the
tasks may be the downloads, chosen at the start). A download asks for the size
of its file before it is inserted (`DownloadSize`, then `DownloadInsert`), on a
thread of the blocking pool, where two downloads and a close may meet it.
`Pool == INSTANCE TransferPool` shares the pool's
variables, and the actions of the worker call the pool's. `at` is where the
thread that enqueues a task, and then its worker, stands. `status`, `tokens`
and `cancelled` are the registries; `unsent` is a status that has been written
and whose event has not been emitted, since `transition_task` emits after it
releases the lock. `closing` follows `cleanup_session` through its separate
critical sections. Uploads, cancels, clears and the close run on the main
thread, hence never inside one another (`MainIdle`).

The records that eviction keeps are left open, because the creation times it
sorts by are wall-clock times. How a file is moved is reduced to its outcome,
which `SafePublish` takes apart.
The global semaphore is shared with transfers of other sessions (`Others`), some
of which may hold permits when the model begins and may give them back. Later
ones need no model: the semaphore serves in order (`sftp_service.rs:28`), so
that they come after whoever of this session waits. `late` is a history: the
tasks whose token was set when they went to sleep in the pool's queue.

### ControlConnection

`slot` is `ConnectionState`; a transport is the number of its connect.
`EagerBegin`/`EagerEnd` are the eager thread; `Get...` are one look at the
slot each inside the loop of `get`; `Connected` the end of a caller's own
connect; `OpEnd`, `OpLost` and `Invalidate` the operation, its loss and the
retry. Connections may be lost, and an operation may panic with the
transport's lock held, at any moment.

### HostIdentity

An *attempt* is one call of a session's verifier, by its terminal, SFTP or
monitoring connection. It is presented with a key (`Present`), looks up the
state (`LookUp`), and passes, joins a question, asks one, or supersedes one
(`Confirm`, `Join`, `Challenge`, `CancelSuperseded`, `Ask`), then waits
(`Wake`). A challenge is named by the attempt that created it. Decisions take
two steps, as in the code: the challenge leaves `pending` under the lock, and
the decision is delivered outside it (`owed`, then `decision`). `vouched` is a
history variable: what the user has stood for.

Assumed: a fingerprint determines its key (challenges are joined by
fingerprint); a session has one endpoint; attempts are not reused (a new
attempt is a new element of `Attempts`).

### TrustStore, SecureStore and Connect

`TrustStore` is the file `known_hosts` (`file`, a set of lines) and the copy the
program works on (`loaded`, `records`). A host is the sequence of characters
that reading a line depends on, so that writing a record (`FormatHostPattern`)
and reading it back (`ParseHostPattern`) are what they are in the code. Every
operation holds the lock from the load to the cache and replaces the file by a
rename, hence is one step; a load or a write may fail, another program may spoil
or mend the file, and the program may end, which forgets the copy.

`SecureStore` is what the Secret Service and the kernel's keyring hold of each
credential. `Reading` prefers the former where it answers; `Set` goes to the
one that answers; `Delete` to both. The service comes and goes, and a reboot
empties the keyring. On the other systems there is only the first store, which
is `SecureStore` with `up` always TRUE. A credential written to the keyring is
shadowed by an older one as soon as the service is back, so no property says
that every credential reads as last stored: `settled` is the history of those
that must, because the service has neither come nor gone since.

`Connect` composes the two the way `connect_session` does: the credential
(`LoadCredentials`), the handshake (`Handshake`), the verdict on the key
(`Verify`), the user's answer where there is a question, and only then the
authentication.
Every attempt there is the first of its session; several attempts of one
session are the subject of `HostIdentity`, to which the trust store is a map.
`SpellingAssumption` says that the spelling of each endpoint survives the file;
the run `trust_spelling` has one whose spelling does not.

### HostConfigs

`save` and `delete` run on the main thread, one at a time, and write three
stores in turn: the credentials, `hosts.json` and, through `forget_endpoint`,
the trust records. Each write is a step of its own (`SetSecret`, `Commit`,
`DeleteStale`, `Undo`, `Remove`, `DeleteSecrets`, `CleanTrust`), which may
fail, and the process may end between any two of them (`Crash`). A credential
is named by its host and authentication type, as the code derives its
reference; its content is left out. `HostStore::save` truncates the file before
it writes it: a write that is cut off leaves a file no command can read any
more. `step`, `host`, `want`, `old` and `wrote` are where the running command is
and what it holds in local variables.

`DanglingAccounted` is about what is missing, at every moment: a reference in
`hosts.json` whose credential is gone is one whose credential a failed save had
written anew and deleted again (the history `undone`), and no save has written
it since. `OrphansAccounted` and `TrustAccounted` are about what stays behind:
between commands a credential nothing refers to, or a trust record of an
endpoint no host has, is there because a deletion failed, the process ended, or
a session still open saved the key later (the histories `orphaned` and
`leftover`), and for no other reason.

### Monitoring

`start_monitoring` is `LookUp` (the two look-ups of the session), `Register`
(credentials, then the insertion) and `Launch`; the worker's thread goes
through `WorkerBegin`, `CheckFirst`, `Verify` (the host key, on which
`HostIdentity` has more), `Dial`, `Loop`, `Collect`, `Cache`, `Push`, `Fail`
and `End`. `CloseBegin`, `CancelSession`, `StopSession` and `ForgetSnapshot`
are the part of `close_session` that concerns monitoring, each its own critical
section. The window keeps a task's last status (`view`), the last event of a
task it does not know yet (`early`) and the task it shows for a session
(`shown`); events of a task arrive in the order in which they were emitted, the
answers of commands at any time after (`Answer`, `Stopped`, `ClearSession`).

A status is changed by the task's worker alone, which emits the event next, so
the two are one step. A call of `stop_monitoring` is handled when it is made;
its answer takes its time. No page of the front end makes such a call today; the
command and the store offer it.

### MonitorSampling

The host counts (`Receive`, `Work`), loses interfaces and has them start again;
the script reads the counters, and the answer is parsed and dated when it has
arrived, by a clock that may have been set in between. `network` and `processor`
are the baselines of the worker. `traffic` and `busy` are histories: what has
happened since the reading before. Linux may take back ticks of iowait, which
the script counts in the total and in the idle ticks, so both may fall (`Work`).
A usage is in tenths of a percent, rounded to the nearest as the code does
(`Tenths`); `UsageIsOfThePeriod` therefore bounds it from both sides, to half a
tenth. A reading takes no time; received bytes stand for sent ones; memory and
disk need no second sample and are left out.

### Publish and SafePublish

A `SafePublish` transfer goes through `run_transfer_blocking`: the look at its
token, the temporary file beside the target, the copy chunk by chunk with a look
at the token before each, the flush and the sync of a download, the last look,
the publication and, where anything failed, the clean-up; then the verdict and
the terminal event. `temp`, `synced` and `target` are the files; a remote
request may also be left without an answer when it has taken effect (`lost`),
and a local file that cannot be looked at is taken to be absent (`unseen` has
the transfers whose temporary file the clean-up took so).
`PublishSpec` is `Publish!Spec` under a mapping that names whose file is at the
target, and gives a target that is not whole a name `Publish` does not have: so
the target changes only to a whole file, to that of a transfer at most once, and
to one in the place of another only where the user agreed.

Assumed of the systems at both ends: a rename is atomic, what a server has
acknowledged survives the close of the file (whose result the code drops), and a
source does not change while it is copied. The 10 s after which a blocking call
gives up (`ssh_transport.rs:413`) are an answer that is lost.

A closed session announces Cancelled of a task whose worker may still publish,
and its leftover file is named to nobody; so what `OnlyDonePublishes` and
`LeftoverTold` say of the terminal event is said of tasks still in the registry,
of those whose server has answered and, of leftovers, of files that could be
looked at.

### SftpProjection

One session's window: `rows`, `early` (`pendingTaskEvents`), `closed` and the
numbered listings (`seq`, `loading`, `path`), against a registry whose tasks are
created, run, end and are cleared. Calls (`enqueue`, `snapshot`, `clearing`,
`closeCall`, `listings`) are taken up and answered in any order, events of
different tasks arrive in any order, those of one task in theirs. A session is
opened once; whatever the window knows by the time the snapshot answers was
created after the asking, on one clock that is not set back
(`sftp.ts:160`). Failed is treated as Cancelled, and eviction is left out.

Not every order ends well: `overtaken` and `late` are the histories of those the
source does not provide for (see below), and `RestAgrees` and `ClosedStaysClosed`
speak of all others.

### TerminalSession

One session, from the return of `open_session`. The terminal thread (`at`)
loads the credentials, then polls for the connection: `ReadPhase`, a wait of
100 ms that ends with a result (`Receive`) or without (`NothingYet`), and then
`Judge`, which uses the phase read before the wait. When it is connected it
goes round `Loop`, `Read`, `Obey` (once for each command), `Drained`,
`CheckEof`. The connect thread goes through the phases of `connect_terminal`
(`Advance`, `Vouch` for the verifier) and sends what comes of it (`Send`); it
may also stop anywhere for ever. `closing` follows `close_session` through its
four effects on the terminal: the handle leaves the registry, the waiting
verification is cancelled, the flag is set, the command is sent. Time is
`expired`: the deadline may pass at any moment of the poll.

The window starts without the session; the answer of `open_session` (`Opened`)
and the status events (`ApplySessionStatus`) come in any order, the events
among themselves in theirs. Typing needs a tab that shows Connected, a resize
only a tab (`XtermView.tsx`), so a resize may wait in the queue from before the
connect. Writing the status and emitting it are one step, since only the
terminal thread does either.

## Runs

All runs but `trust_spelling`, which ends with its counterexample, are exhaustive
on their instance.

| Run | Instance | Shows |
|---|---|---|
| `pool` | 4 tasks, 2 connections | capacity, ownership, no lost wake-up, extras have a reaper; `SlotPool` is implemented, with its fairness |
| `tasks_queue` | an upload and a download, or two uploads to one target; 1 connection, 1 permit that a transfer of another session may hold, room for 1 ended record | with cancels, clears and a close anywhere: what is announced, once, of each end, what is left, that uploads never meet at a target, that the pool is kept whole, that tasks end and permits return if transfers do, that a cancelled task ends even if no transfer does |
| `control` | three calls | one connector, one rebuild, closed for good, every call ends |
| `identity` | one session, two attempts, two keys | who may pass, who is left waiting; closing lets go, a decision reaches its waiters |
| `hosts` | two hosts, two endpoints | no credential and no trust record is left for no reason; a reference that dangles is the work of a compensation, at every moment |
| `connect` | two attempts at two endpoints, two keys, a password of two values | a key is taken for known, changed or unknown by what the user last saved or removed; a credential reads as last stored |
| `trust_spelling` | an endpoint written in brackets | a counterexample, see below |
| `monitoring` | two tasks of one session | every worker can be stopped or has been told to; a closed session collects nothing, and its workers end; the window agrees with what was announced |
| `sampling` | one interface, bytes and clock up to 2, one byte between readings, 3 ticks | no rate claims more than happened in the period it is of; a usage is the share of work in it, to the digit shown |
| `terminal` | one session, three commands | the status agrees with what the thread does, typing is heard, a connect is answered for even if it hangs, the thread of a closed session ends |
| `publish` | two transfers to one target, of one chunk, of either kind and strategy | the target is never torn nor replaced unasked (`Publish` is implemented), only Done publishes, what is left behind is told if it could be looked at |
| `projection` | an upload into the directory shown and a download, two directories, two listings | at rest the window agrees with the service; a closed session stays closed |

The detailed modules each have a type invariant. `TypeCorrect`, or the theorem
of that name with a prefix, proves it; only in `TrustStore`, `SecureStore`,
`Connect` and `SlotPool` does it document the variables: `ConnectProofs` states
the types it needs for itself.

The bounds. Each component's interesting behaviour needs few actors: a queue
with a head and a tail behind a pool of two that has a base and an extra (4
tasks, 2 connections); two workers and a main thread contending for one permit
and one connection; one caller that connects, one that sleeps and one that
arrives late; a question and an attempt that joins or supersedes it; two hosts
that share an endpoint or move from it; a task that is running and one that is
started while their session is closed; a command that waits for the connect, one
that fails and one that is overtaken by the close; a transfer that meets its
target taken by another, before or after its own check, and a file with a chunk
that may be missing; an endpoint at the standard port and one whose port is
written; a counter that rises, falls back and vanishes, a processor with a tick
of each kind in one period and one taken back, over a period that is a fraction
of a second, a second, or negative; an upload that refreshes the listing it ends
in and a download that does not. Connections and connects are bounded by the
tasks and calls that cause them: a task asks the pool once, a call connects at
most twice. The number of timeouts is not bounded; a connection is lost at most
once. Deadlock is not checked where everybody may be finished (`CHECK_DEADLOCK
FALSE`); the liveness properties say that nobody stops before.

Symmetry is used in the safety runs `hosts` (hosts, endpoints) and `publish`
(transfers). Task numbers of the pool are ordered and not symmetric.

### Fairness

Weak fairness of what threads do on their own: a woken thread runs, a connect
returns, the reaper's sleep ends, a command once begun is finished. Whoever
holds a connection of `TransferPool` gives it back; in `TransferTasks` no
transfer has to end (`WorkerStep` is fair, `Move` is not): `TasksEnd` has the
end of transfers, of this session and of others, as its premise
(`TransfersEnd`), and `CancelNeedsNobody` does without. Each has a reason in the
code: condition variables and channels wake threads that then only need the
processor; the TCP connect and libssh2 have timeouts. A connect may ask the user
about the host's key, and that wait has no timeout, so where a property depends
on connects (`KeepsFairPromise`, `TasksEnd`, `CallsEnd`) the assumption includes
that the user answers or closes the session. Nothing is assumed of the user
otherwise: no call has to be made, no task cancelled, no session closed, no key
presented; the models of `HostIdentity` do not assume that the user decides.
`TerminalSession` assumes less: the terminal thread runs, the deadline passes, a
close once begun is carried out, and a verification that was cancelled, or that
has let the key pass, returns (`ClosedLetsGo` of `HostIdentity` is the reason
for the former). Neither the secure store nor any other step of the connect need
return: libssh2's timeout does not cover the authentication
(`terminal_service.rs:156`), which is what the deadline is for.

### What the code does otherwise than its comments say

The run `trust_spelling` ends in a counterexample to `SavedReadsBack`. An IPv6
host spelled with its brackets, which saving accepts and connecting understands
(`ssh_transport.rs:502`), is written to `known_hosts` in a second pair of
brackets (`trust_store.rs:275`). No line of that form is read back: after the
next start the whole file is refused, and every connection with it, although
`trust_store.rs:10` says that the exact spelling of the configuration is kept.

The models also show, without a run of their own, that

- two downloads to one local file are both accepted when their size requests
  overlap: the check and the insertion are two critical sections
  (`sftp_service.rs:566` says that two active downloads never have one target,
  line 615 checks it);
- a late `Running` is emitted after the `Cancelled` of the close: the status is
  written under the lock and announced outside it (`sftp_service.rs:840`, 855);
- the compensation of a failed save deletes the credential the stored
  configuration still refers to, when the user entered the secret of an existing
  host again, although its comment says that it avoids dangling references
  (`host_service.rs:219`); `DanglingAccounted` says that nothing else leaves one;
- an upload whose `create` fails because the connection is lost returns the dead
  connection to the pool, since the error of `create` is not one of a connection
  (`ssh_transport.rs:298`; `sftp_service.rs:1156` says that lost ones have been
  dropped);
- an answer to an enqueue that comes after both a snapshot and an event of its
  task sets the row back to Pending, for good (`sftp.ts:190`);
- a task cleared while a snapshot that has it is on its way appears again
  (`sftp.ts:156`), and an answer to a snapshot that comes after the session was
  closed takes back the mark of the closed session, so that later events are
  kept as early ones (`sftp.ts:165`, against the comment at 266);
- a checkout that arrives after a waiter was woken and before it runs takes
  its slot (`transfer_pool.rs:194` says that new arrivals never do): the woken
  waiter has already left the queue, and joins it again at its end;
- a task cancelled before its worker is in the pool's queue, or between a
  wake-up and its return to the queue, stays Pending until a slot is free
  (`sftp_service.rs:759`); `CancelNeedsNobody` says that no other cancelled task
  waits for anybody;
- a temporary file of a download that cannot be looked at, because the drive is
  gone or a permission was taken away, stays with nobody told: `exists()` answers
  no when the look fails (`sftp_service.rs:1579`, against the comment at 1577);
- a download whose size request outlasts the closing of its session stays in
  the registry (`sftp_service.rs:901`);
- an operation that panics with the control connection's lock held costs the
  session its connection: the error of a poisoned lock is taken for a lost one
  (`sftp_service.rs:1222`);
- an attempt that has been accepted, and whose session is closed before it
  wakes, goes on to authenticate (`host_identity.rs:529`);
- of two sessions that save different keys of an endpoint, each shown no record,
  the later replaces the record of the earlier;
- a snapshot may be cached after the cache of its session was cleared
  (`monitor_service.rs:144`), and an event of a task that comes after its
  projection was cleared stays among the early ones for good
  (`monitor.ts:99`);
- a monitoring task whose start looked the session up in time and is registered
  after `stop_session` stays in the registry as a record without a worker
  (`session_manager.rs:204`: the stop covers all tasks of the session);
- a terminal is given up with a Timeout while its user is asked about the key,
  when the verification begins during the last wait before the deadline: the
  phase was read before the wait (`terminal_service.rs:188`, and the test at
  1092, say that this wait does not count); a connection that comes up between
  the wait and the judgement is thrown away likewise
  (`terminal_service.rs:191`);
- a status event that comes before the answer of `open_session` is dropped, and
  the tab shows Connecting for good (`session.ts:154`);
- a write or resize that fails leaves a live terminal with the status Error for
  the rest of its life: the tab covers it and takes no more typing
  (`terminal_service.rs:286`);
- a session released by another session's save records no trust of its own
  (`host_identity.rs:189`), a key saved between the look-up and the creation
  of a challenge is asked about (`CONTEXT.md:44`), and after `cancel_all` a
  late verifier still asks (`host_identity.rs:95`).

`SftpService::new` (line 315) speaks of 5 connections in its comment where the
constant is 20; nothing depends on it here.

## Proofs

The proofs hold for any finite or infinite sets of calls, attempts, sessions,
endpoints, keys, credentials and transfers, under the named assumptions of the
modules: for the pool that `Tasks` is a finite set of numbers and `MaxConns` a
positive one, for the transfer tasks that there are finitely many, for `SafePublish` that names of transfers are not those of other
files, for `Connect` that each attempt has an endpoint and a credential and that
spellings survive the file (`SpellingAssumption`).

- `TransferPoolProofs`: every safety invariant the runs check, that a closed pool
  is empty (`ClosedIsEmpty`), `BaseIsKept`, and that the pool implements
  `SlotPool` (its safety part). The argument has two layers. `Shape` says who owns
  which slot and who is queued (`Lent`, `QueueIsSleepers`) and has no numbers in
  it; capacity, ownership, the wake-ups and the reaper are each inductive
  relative to it. Capacity also rests on the cardinality of the swept set; the
  refinement rests on capacity and ownership, since `SlotPool` counts users
  where the pool counts slots: users own distinct slots.
- `SftpServiceProofs`, of the transfer tasks: types, `PoolKeptWhole`,
  `OneTerminalEvent`, `EventsTellTheEnd`, `UploadTargetsDistinct`, for any number
  of tasks, connections, permits and transfers of other sessions. The
  pool's invariants are not proved again: `PoolFacts` is an instance of
  `TransferPoolProofs`, and every step of the service is a step of the pool,
  or drops a connection once the session is gone (`PoolTaken`). From it follow
  that the service uses the pool as `TransferPool` says until the session
  leaves the registry (`PoolRefined`), and the capacity, at any time
  (`PoolCapacityHolds`). To know that a task which gives a connection back has
  one, the strengthening ties the two numberings together (`Numbered`), the
  worker's place to the pool's phase (`Holding`), and the registered session to
  an open pool (`Session`); `Shape` is what survives a connection that is
  dropped behind the pool's back, and `Lent` is weaker than `Ownership` for this
  reason. That an end is told once needs that nothing follows one (`Once`);
  that it is told truthfully, that the events and the one still unsent are a
  legal history of a task at its worker's place (`Story`).
- `SftpServiceProofs`, of the control connection: types, one connector, sleepers
  attended, one rebuild, closed for good. `SleepersAttended` is not inductive
  alone: it needs that a slot that says Connecting has exactly one connector
  (`OneConnector`); `OneRebuild` needs that a call about to invalidate has
  seen its transport lost (`LostIsLost`).
- `HostIdentityProofs`: types, only vouched keys, nobody left behind, a closed
  session is forgotten, one question, joined attempts are alike, a decision is
  made once. The strengthening says that a challenge is in one of four places
  (pending, owed by the main thread, owed by the attempt that superseded it,
  decided) and never in two (`OnePlace`), and that an attempt that has not
  come as far as a challenge is none (`EarlyIsNoChallenge`).

- `HostConfigsProofs`: types, `OrphansAccounted`, `TrustAccounted`,
  `DanglingAccounted`. What holds between commands needs what
  holds inside them: the strengthening says, for every stage a command can be
  at, which of the stores it has already changed (`Stage`), and accounts for
  every unreferenced credential and record as recorded in a history or still to
  be dealt with by the running command (`InFlight`, `EndpointInFlight`). That
  nothing else dangles needs that a commit refers only to what was written, or
  to what the configuration it replaces referred to already (`NoNewDangling`).
- `MonitoringProofs`: types, `NobodyOutOfReach`, `ClosedCollectsNothing`,
  `WindowAgrees`. That
  a closed session collects nothing rests on two orders: a task is registered
  before its worker connects, and a session is cancelled before its tasks are
  stopped. A worker whose key was accepted in time is in the registry when the
  stop comes; a later one is refused (`Refused`). That the window agrees rests on
  the last event under way being the last announced, and on none being kept of a
  task that is known (`Kept`).
- `MonitoringProofs`, of the samples: types, `RatesAreOfThePeriod` and
  `UsageIsOfThePeriod`, for any interfaces, counts, length of a second and
  settings of the clock. The
  strengthening says of every reading the program still holds, as a baseline or
  on its way, what has been counted since: of the processor exactly what the
  history says, of an interface no more (`Baselines`; it may have started again),
  and that the baselines are of the last snapshot. What remains is arithmetic:
  a quotient times its divisor, a quotient rounded to the nearest, and a usage
  from ticks that may be taken back (`RateBound`, `Rounded`, `UsageBound`).
- `SafePublishProofs`: types, `OnlyDonePublishes`, `LeftoverTold`, and that
  `SafePublish` implements `Publish`, for any transfers and any length of file.
  Its invariant has four parts: what is true of the temporary file of a transfer
  at each place of its run (`Ready`: whole where it is published, on the disk
  where a power failure could tear it), what the histories stand for
  (`Histories`), which events may have been sent of which verdict (`Words`), and
  who has left a temporary file (`Leftovers`).
- `ConnectProofs`: `SettledReadsBack` and `VerdictIsOfSaved`, for any number of
  attempts, endpoints, keys and credentials. For credentials the strengthening
  says where a settled one is (`InItsStore`) and that a deleted one is in
  neither store (`GoneFromBoth`); for keys, that the file, unless it is spoilt,
  and the copy, once loaded, are both what was saved, one record for each
  endpoint.
- `WindowProofs`, of a session's status: types, `StatusAgrees`, `TypingIsHeard`,
  for any number of commands. The status and the thread agree inductively; what
  the window may be believed for rests on the last event under way telling the
  status (`LastTold`), and on Connected, unlike the others, never being shown
  when the status is another and nothing is under way (`WindowFollows`).
- `WindowProofs`, of its files and transfers: types, `RestAgrees` and
  `ClosedStaysClosed`, for any number of tasks, directories and listings.
  `RestAgrees` speaks of a state in which nothing is under way, so its invariant
  has to say what each thing under way stands for, while the session is open: of
  each task, that nothing is known of it before it is made (`KnownOf`), that the
  last of its events tells its status and no other tells an end (`OrderedOf`),
  and that a row, an event kept back or the entry in a coming snapshot is current
  when no event is under way (`FollowsOf`). Only the last of these has to except
  the tasks in `overtaken`. Each step belongs to one task and leaves the others
  alone (`OthersSame`), or to the session. `ClosedStaysClosed` rests on no call
  being made in a cleared session (`Answers`).

With these, every safety property of a passing run, invariant or action property,
is proved for instances of any size.

Model-checked only: all liveness, `KeepsFairPromise` as far as it is about
fairness included, since fairness and ENABLED are outside the prover; and
`SavedReadsBack` of the run that violates it.

## Plan

What would come next, the most important first:

1. The start of the program: `HostStore` copies the `hosts.json` of an older
   identifier (`host_store.rs:11`) with no temporary file, so that a copy which
   is cut off leaves a file that is neither read nor copied again.
2. Two sessions of one endpoint with two attempts each in one instance of
   `HostIdentity`: the release of an attempt by another session's save is in the
   model and in its proofs, and no instance that has it is small enough for the
   liveness run.
3. The variants of the liveness properties that are safety properties: that
   whoever waits has a thread that is about to answer it, as `NobodyLeftBehind`
   and `SleepersAttended` say it, for the transfer tasks and the terminal.

## Not modelled

- libssh2, the SSH protocol and what goes on inside a request: the models take
  from it that a request succeeds, fails, is left unanswered or hangs.
- Parsing beyond what a property depends on (JSON, base64, `/proc`, `ls`), the
  wording of errors and messages, serialisation: data with no control in it.
- The command adapters, except for the thread a call runs on; the state of
  settings, layout and host lists in the window, which is changed by one handler
  at a time; rendering.
- Progress events, progress labels of a session, snapshots and trends of the
  monitor: each replaces the one before and no decision depends on them.
- A panic in a worker before its transfer (`sftp_service.rs:1017`), which would
  keep the slot it had reserved: nothing on that way is seen to panic.
- The implementations of `secure_store.rs` for systems other than Linux, which
  have one store; the copy of an older `hosts.json`, see the plan.
- Tests. About two thirds of the lines of the Rust sources are unit tests in the
  files they test; the models cover somewhat more than half of the rest, and
  what they do not cover is on this list or declares types.
