# A formal model of Moshu

Moshu runs AI agents for one user on several machines. An **Agent Server** holds
the conversations, decides which Actions may run and keeps the durable record of
them; **Runtime Boxes** execute the Actions (shell commands, file edits, MCP
Tools) where the files are; a **Desktop** client and a **Mobile** client show
what happens and ask the user for approvals. The modules of this directory model
the parts whose correctness depends on the order of steps of several processes,
on crashes, and on messages that get lost. TLC checks them on small instances,
TLAPS proves what matters most for every value of the constants.

Paths below are relative to the repository; the exact lines of every definition
are under "map" in `PROJECT.json`, the hazards with their lines under "hazards".

## 1. Inventory

| Component | State | Operations | What makes it correct |
|---|---|---|---|
| **Invocation journal** (`apps/runtime-box/src/invocation-journal.ts`) | records and consumed-grant tombstones, in memory and in `invocations.json` | begin, succeed/fail/cancel/outcomeUnknown, listEvidence, acknowledge, confirmAcknowledgements, load | a grant starts an Action once; an invocation has one outcome; a crash or a failed write loses neither |
| **Action intents and grants** (`packages/database/src/action-repository.ts`) | rows of `action_intents` and `execution_grants` | createGrant, consumeGrant, complete, completeLocal, mark*, cancelUndispatched, acknowledgements, recoverOnStartup | a final verdict is never revised; evidence that arrives late can still be accepted |
| **Action dispatch** (`apps/agents-server/src/runtime-box-registry.ts`, `action-authorization-service.ts`, `mcp-action-dispatcher.ts`; `apps/runtime-box/src/tool-handler.ts`, `mcp-tool-handler.ts`, `index.ts`) | the calls in flight, the connection, the reconciliation loop | invoke, cancel, time out, reconcile, connect, lose, restart | the two durable records agree in the end, and the Box drops a result only after the server stored it |
| **Approvals** (`apps/agents-server/src/approval-service.ts`, `packages/database/src/approval-repository.ts`) | approval rows, Session policies, the waiters of the process | requireApproval, decide, updatePolicy, cancel, sweepExpired, recoverOnStartup, resetForSession | only an approved Action runs; a critical one only by the user's own decision; everyone waiting is told |
| **Chat runs** (`apps/agents-server/src/chat-application-service.ts`, `packages/database/src/run-journal-repository.ts`, `run-timeline-outbox-repository.ts`) | Run rows, Parts, the timeline outbox, the executions and reservations of the process | send, execute, the runtime's events, cancel, fail, finalize an orphan, flush, delete | one live Run per Session; ends are final; a tool Part says what the authorities say |
| **Agent session cleanup** (same service, lines 1115-1580) | pending cleanup rows, in-flight attempts | attempt, time out, retry | every deleted Session's provider files go in the end |
| **Registry and inventory** (`runtime-box-registry.ts`, `runtime-box-generation-fence.ts`, `runtime-box-inventory-repository.ts`; the Box's `runtime-resource-store.ts`) | entries by Box, the leases, the mirrored resources with epoch and revision | register, replace, clear, markReady, synchronize, hint, poll, getChanges | the mirror is a past state of that Box; it catches up; ready implies synchronised |
| **Projects** (`project-application-service.ts`, `project-repository.ts`) | projects, their workspaces and deletion jobs | create, preflight, delete, resume a deletion | no send runs in a Project that is being deleted |
| **Process RPC** (`packages/process-rpc-core`, `packages/process-rpc`) | pending requests, inbound executions, event handlers, heartbeats, generations | request, answer, cancel, time out, event, ping, close | a request is answered at most once and with the truth or with "unknown"; slots are freed; what nobody waits for stops |
| **Product event feed** (`product-event-hub.ts`, `product-rpc.ts`; `apps/desktop/src/bun/desktop-agents-client.ts`) | routes by request, subscriptions by Session and peer; the client's cursors, reservations, provisional events, pending retirements | bind, commit, rollback, release, subscribe, publish; connect, list, subscribe, replay, send again, deliver, retire | what a client follows it sees in order, once and without holes, across reconnections; a deleted Session is announced |
| **Mobile ingress and attention** (`mobile-ingress-*.ts`, `mobile-attention-drainer.ts`, `mobile-*-repository.ts`) | challenges, paired devices and the generation accepted of each, attention items, their outbox | claim, approve, challenge, authenticate, accept, revoke, project, prune | one served connection per device, none of a revoked one; an attention item appears once per cause |
| **Mobile app** (`apps/mobile/src/rpc`, `ios/App/App/plugins`) | the state of the connection, its attempts and timers; the native side's binding and active socket; snapshot, cursors, provisional events | launch, pair, connect, retry, background, unpair; live event, replay a gap | what is shown as connected is; a fatal end is final; it comes back in the foreground; what is shown of a Run is a prefix of its log |
| **Desktop host** (`apps/desktop/src/bun/companion-process-supervisor.ts`, `desktop-lifecycle.ts`) | the companion processes, the connection, the owner of a restart, the queued cause, the budget | start, restart, stop, shut down | no process is forgotten, one owner of a restart, the status is true, work ends |
| **Remote access** (`dev-tunnel-service.ts`), **MCP servers** (`packages/mcp-runtime`), **providers** (`packages/agent-runtime`), **Box tools** (`apps/runtime-box/src/tools`) | an external process, connections, credentials, queues per file | start, stop, reconnect, execute | no two owners of one external resource |
| **Wiring, schema, user interface** | - | - | - |

How they interact. A client calls `chat.send` on the Agent Server, which creates a
Run and executes it in the background. The agent runtime calls back for every
Tool; the service asks the **approval** gate, then obtains and consumes a
**grant**, and **dispatches** the Action to the Box over the RPC connection. The
Box writes its **journal** before and after it executes the Tool. The result is
stored by the server, acknowledged to the Box, and the Box's receipt confirmed.
Approvals and Actions each leave rows in the **timeline outbox** in their own
transactions; flushing the outbox projects them on the Run's Parts, and clients
are told. Two connections (server-Box, client-server) can vanish at any time, and
each process may stop and start again on its own.

What is hard: the Agent Server is one JavaScript thread, so code between two
awaits is atomic, but much is read before an await and used after it (the peer,
the Session's state, the approval); both processes have durable records that are
written at different times; the RPC can time out while its answer is under way;
the runtime's callback, the authority's row, the user's cancellation and the
deletion of the Session may come in any order.

## 2. The modules

| Module | Models | Its variables stand for |
|---|---|---|
| `Actions` | the vocabulary: invocations and outcomes | - |
| `InvocationJournal` | the Box's journal; EXTENDS `Actions` | `records`, `consumedGrants` (memory), `disk` (the file), `boxUp`, `expired` grants; `admitted` and `recorded` are history |
| `ActionRepository` | the server's rows; EXTENDS `Actions` | `intents`: state, `serverAckedAtMs`, `boxReceiptConfirmedAtMs`, `consumedAtMs` |
| `ActionPipeline` | composes both with the calls, the connection, the Box's handlers and the reconciliation | `calls` (where the server is in an invocation), `stale` (the captured peer is no longer current), `link`, `net`, `handler`, `attached`, `loop`; `recorded` and `admitted` of the journal are the history |
| `ActionOutcome` | the abstract promise: one outcome, one verdict per Action | `truth`, `verdict`; implemented by `ActionPipeline` |
| `Approvals` | the approval gate | `requests`, `policies` (rows), `waiting` (`#waiters`), `gate` (what the caller was told), `due`, `visible`, `commands`; `applied` is history |
| `ChatRuns` | the life of a Run and of its Parts | `status`, `text`, `tool`, `outbox` (rows), `call` (what approvals and Actions know), `exec` (`#activeRuns`), `fence` (`retainFence`), `starting` (`#startingSessions`), `fatal`, `thrown`, `retired` |
| `BoxInventory` | a Box's resources and the server's mirror of them | `epoch`, `log`, `resources` (the Box's tables), `conn`, `hints`, `accepted` (the generation fence), `entry` (the registry's), `ops`, `fetch`, `answer` (`inventorySyncTail` and where its first synchronisation is), `mirror` (the server's tables), `mutation`, `wrote` |
| `RemoteCall` | the abstract promise of a call: what its caller is told is what happened, or "unknown" | `known`, `fate`; implemented by `ProcessRpc` |
| `ProcessRpc` | one connection from both of its peers | `end`, `net` (frames under way), `cut`, `outcome` (of each request, at its caller), `handler` (at the other end), `events` |
| `DesktopFeed` | the events of Runs from the server's log to the Desktop's renderer, across lost connections | `log`, `executing`, `retired`, `route`, `subs` (the server); `toServer`, `toClient`; `phase`, `listed`, `todo`, `paging`, `provisional`, `cursor` and more (`desktop-agents-client.ts`); the renderer's answers |
| `CompanionSupervisor` | the Desktop's supervisor of its two companion processes | `status`, `proc` (what is tracked), `alive` (what runs), `conn`, `open`, `late`, `start`, `work` (where `startPair` or the owner of the restart is), `queued`, `down` (where `shutdown` is), `attempts` |
| `MobileLink` | a mobile app's connection, from its screen to the server's peer | `phone` (the controller, its attempts and the native calls it made), `news` (answers and events for it), `native` (`MobileTransportEngine`), `down` (what the server sent), `server` (the device's row, the challenges), `sock`, `hello` (the server's end of each attempt's socket) |
| `SessionRemoval` | what is left of deleted Sessions and Projects | `sess`, `run`, `thread` (the provider's file), `row` (the outbox), `project` (the Project and its job), `tail`, `checking` (`#mutationTails` and its running operation), `drain`, `timer`, `op`, `attempt`, `direct`, `worker`, `sweep`, `backoff` |
| `MobileChat` | one chat on the mobile app: its screen, its controller and the handlers it calls | `log`, `made`, `alive`, `starting` (the server's Runs and the send whose Project is looked at); `route`, `subscribed` (the hub); `toServer`, `toClient`; `screen`, `view`, `provisional`, `batch`, `draining`, `job` (the controller); `draft`, `asked`, `pending`, `sending` (what the user writes and sends) |
| `*_proofs` | the theorems of the modules they extend (`Actions_proofs`: of `ActionPipeline`, its journal and `Approvals`; `Desktop_proofs`: of `CompanionSupervisor` and `DesktopFeed`) | - |
| `MC*` | constants for TLC | - |

`ActionPipeline` is the composition of journal, repository and dispatch;
`DesktopFeed` that of the server's event hub, its journal of events and the
Desktop's client. The others meet at interfaces that each states on its own side:
`ActionPipeline`, `BoxInventory` and `DesktopFeed` assume of a connection what
`RemoteCall` promises and `ProcessRpc` implements; `DesktopFeed` assumes of its
environment that somebody connects again, which `CompanionSupervisor` does until
its budget is spent; `ChatRuns` assumes of an Action the one outcome that
`ActionOutcome` promises; `MobileLink` ends where a peer is up, which is where
`ProcessRpc` begins. `ChatRuns` follows a Session up to its deletion,
`SessionRemoval` from there on, with as much of a Run as a deletion asks for.

Three rules hold throughout. Code between two awaits is one action, with every
call it makes. An operation that can fail in the middle (a write, a transaction,
a flush) has one disjunct for each state it may leave. Operators called "Wrong
variant" are not part of any specification: they are the mistakes for which
`PROJECT.json` names the property that notices them.

### The Action pipeline

A write of the journal file goes to a temporary file, is flushed and renamed. It
can be *lost* (it fails before the rename) or *torn* (it fails after it: the file
is new and the caller is told it failed). `begin()` writes twice; `Begin...`
actions are its five ends. Loading turns whatever was under way into
`outcome_unknown`. Tombstones are dropped only if their receipt was confirmed
*and* their grant has expired, and both tables are bounded.

In `ActionPipeline` a call goes idle, approving, granting, granted, waiting,
acking, done. A reply is taken by one of four actions, by the kind of its code,
because the code draws different conclusions from a result, an error result of
an MCP Tool, a refusal before execution, and everything else. The reconciliation
loop of the Box (`apps/runtime-box/src/index.ts`) is a message with outcomes and
receipts, the server's handler that accepts all of them or throws at the first
one it cannot accept, and two writes of the Box. It runs before the Box is ready
and every second after. A crash of the server may leave part of what a handler
was about to commit (`MidwayRows`); the restart runs `recoverOnStartup`. Without a crash
the flush of the timeline may throw behind a commit: a consumed grant is then never
dispatched (`UseGrant`), a stored result not acknowledged (`Persisted`), and a
reconciliation accepted in part, row by row (`PartlyReconciled`).

There is one Box; several Boxes share nothing but the database. A replaced
connection behaves as a lost one followed by a new one. The Tool's result is not
modelled: an invocation has one result, so "succeeded" stands for the state and
its hash together.

### Approvals

Commands (a decision, a policy) are composed from a revision a client saw under
an idempotency key of its own and then delivered any number of times, at any
later moment. The sweep, a deadline noticed by a command, an abort of the Run, a
restart and the deletion of the Session are the other ways for a request to end.
Committing a row and telling the waiters are separated by a flush that may throw;
then the rest of the handler is skipped. An abort whose cancellation throws rejects
its waiter and may leave the row pending.

### Chat runs

A Run is created by a send, in a Project Session only after a preflight that
releases the thread (`Reserve`, `StartReserved`); which of the two a Session
takes is left open. An execution is scheduled,
resolving its resources, streaming, and gone, or *parked*: over, with the fence
left in place because ending the Run failed. The
journal's transactions are operators of their own (`Created`, `Running`, `Terminal`,
`TextPart`, `ToolPart`, `Retires`), and so are what `#interruptActiveParts` and
`#markDataPlaneFatal` do (`Interrupts`, `GivesUp`). The runtime's events are free to
come in any order the adapter permits, and it may report a cancellation that nobody
asked for, which ends the Run as cancelled (`ReportsCancelled`). Each Run has at most one text Part and one
tool Part, whose tool call is one Action, since two Parts of a Run never read
each other. Left out: `tool.execution.updated` (it never changes a status),
titles and edits, archives (for the Runs an
archive does what `FinalizeOrphan` does). The refusal to delete a Session with
unacknowledged Actions is exact for what may be running and otherwise open: the
step just need not happen.

### The inventory of a Box

A resource is its version and a change a row of the Box's log, of which the Box
keeps the last `MaxChanges`. Each process of the Box has a generation, a database
an epoch; a new database begins a new epoch. A synchronisation asks for pages of
changes, starts over with a snapshot when the Box says the log no longer reaches
back (or the epoch is another), and awaits one answer at a time: everything may
change in between, and what the code reads again after each await
(`#assertInventoryLease` and its like) is a guard of the step that follows it.
Synchronisations of one entry run one after the other (`ops`, bounded by
`MaxQueue`; hints are coalesced, so that more than one more is never wanted). A
mutation asked for through the server is answered by the Box and then waits for
the mirror to have it.

### Calls between processes

Frames arrive in order or not at all: both transports are ordered, and a
connection that loses a frame is lost. A handler's answer, the caller's
cancellation, its deadline and the end of the connection may race. The promise
(`RemoteCall`) is that whoever is told "ok", "failed" or "refused" is told the
truth, and that "unknown" is the only other answer. `Unserved` are the requests
of methods the other end does not have.

### The event feed

The server's log of a Run is the number of its events and the one that ended it.
A Desktop connects, lists the Sessions that were deleted meanwhile, subscribes to
those it follows, replays each Run page by page, sends again what had no answer,
and drains what it was told meanwhile until nothing new is left; only then is it
active. Every answer may find the world changed. Delivery of an event is one step
because the chat listener never waits; deliveries of deletions wait for the
renderer, which may refuse. The server found at the next connection may be the
same one or a restarted one (then no Run is executing). `ForeignSend`, `ForeignRead`,
`ForeignCancel` and `Delete` are another client's; `ForeignSend` is also a send of the
Desktop's own whose connection was lost while the server looked at its Project.
`SendFails` answers in three ways that the Desktop can tell apart (the Session is
gone, busy, or the Box not ready) and in one that it cannot: `Denied`, which may be
for good. Left out: the creation keys of
Sessions, lifetime and capacity of retirements, replays whose history has
expired, the leases of Mobile clients, approval events.

### The mobile app's connection

`ConnectionController` runs on one event loop, the native engine on a serial queue
that may wait for the server in the middle of a call, and the server has a view of
its own. A turn of the event loop is one step, and wherever it awaits the engine
everything else may happen. Attempts are named by the controller's token
(`#generationToken`), which numbers generations and sockets in the same order; an
attempt is superseded when the token moves on, and what it still awaits is
answered all the same. The end of a socket may overtake the answer that opened it
(`Overtakes`, `#pendingClose`). The server's challenges are in memory only and are
lost by a restart, which also stands for one that expired.

The screen that shows an error of a binding ("error") and the one that shows that a
pairing was refused ("refused") are told apart: only the first has a connection to
be quiet about, and a timer of the former binding may still run behind the second.

An app whose `init` cannot read the binding stays at "initializing" (`HearsUnread`
outside of an attempt, `connection-controller.ts:183`) until it returns to the
foreground: no timer retries it. `Trying` leaves that screen out, so that
`ConnectionSettles` says nothing of it.

Abstracted: there is one pairing code and one device, so that a rejected claim or a
revoked device is for good; versions and identities match; the Keychain does not
refuse to delete the binding; rate limits and capacities (400, 426, 429) are left
out, and so are the fatal ends they make of a failed connect (`ServeConnect`); a peer's own protocol is in `ProcessRpc`, and what a chat does once the app is
connected in `MobileChat`.

### A chat on the mobile app

The app caches nothing: a `ChatSessionController` lives as long as its screen and
its connection, subscribes, reads every page of the Session, sets aside what comes
meanwhile and drains it. A turn of its promises that waits for no frame (`Running`)
ends before the next frame is read; a step reads one frame. What is shown of a Run
is the sequence of the event numbers it has taken in. An event of a Run that is not
shown has the Session read again, and while a page is awaited everything else may
happen. A send is kept as a reservation until its answer proves that there is a Run
or that there is none; a Project's preflight may outlast the send, and `Started`
then makes the Run, or refuses, with nobody waiting. `OrphanEnds` reads or cancels
for another client; what such a read ends is not published. The connection fails
together with the server or without it.

Not modelled is what `#deliverWithGapFill` does about a gap (`chat.replay`, and a
new snapshot if that fails): `ErrorsHaveCause` shows, with the replay replaced by an
error, that no event ever meets one, because frames are in order and the
subscription comes first. The code is a defence, and would matter if the server
dropped events. `chat.cancel` is `RunEnds`. The screen does not listen to
`chatSessionsRetired`: a chat deleted elsewhere stays shown as it was, which
`ChatCatchesUp` excepts.

### The companion processes

`work` says where `startPair` or the owner of a restart is, whichever is at work
(the code never has both), `start` where the `start()` around it is and `down`
where `shutdown()` is. What the promises of one callback do before the event loop
calls the next one is one step. A child may die, or the connection close, at any
moment; an exit is seen later (`SeesExit`), and what the code does about it
depends on whether the child is watched and who owns a restart. A connection that
closes while the Box is launched ends the pair at once, and the launch is left
waiting (`Promise.race` in `startPair`): all it does, when its child is gone, is to
join the stop that the end of the pair began, since the output of a dead child ends
before the next Box is launched. A child that
survives SIGKILL stays tracked (`Survives`). A connection attempt that outlived
its pair (`late`) is closed when it succeeds. Children have the generation of their
pair; the server's, client's and Box's own counters move with it. Left out: READY
records, standard error, hooks, and the 20 seconds that `desktop-lifecycle.ts`
gives the shutdown (a whole escalation of two children may take longer).

### What is left of deleted Sessions

Deleting a Session leaves its thread with the agent runtime and a row in an outbox.
Three parties take such rows up: the attempt that `deleteSession` makes at once, the
sweep that startup and the deletion of a Project begin, and the worker. They share
the attempts, and behind the attempts the provider's operations: an attempt that
runs out of time is over, its operation keeps its slot until the provider returns
(`TimesOut`, `OpSettles`), and what finds no slot has failed (`NoSlot`). Recording a
failure may fail too, which delays everything (`backoff`). A row is "deferred" or
"due"; `RowDue` is the passage of time, and the sweep does not wait for it.

The operations of a Project take turns. The one whose turn it is may be waiting for
the Box (`checking`); a Run may be reserved (its send waits for its turn) while the
deletion is requested, and `CheckBegins` looks again when the turn comes. The drain
retires the Sessions of a Project in batches and blocks for want of room in the
outbox, for a failed transaction, or, if recording that fails as well, for good. A
restart forgets turns, attempts and timers and keeps rows and jobs. Whether a Run of
a deleted Session still uses its thread (`thread_busy`) is decided when the
operation begins.

Left out are the tombstones (their lifetime and their capacity), the shutdown, and
`hasUnacknowledgedForProject`. `Next` lets the steps that answer, fail or time out come
between any two others, which is more than the event loop allows, and holds only the
clients' requests back until no callback has more to do (`Quiet`).

## 3. What the runs check

| Run | Instance | Shows |
|---|---|---|
| `pipeline` | a Tool and an MCP Tool, 1 tombstone, 2 faults; 524 257 states | spent grants are remembered, a crash loses nothing, evidence is acceptable, results are dropped only when stored, and the pipeline **implements `ActionOutcome`**, so that a cancelled Action is one that never began or that the Box recorded as cancelled |
| `pipeline_live` | an MCP Tool of the Box and one of the server, 2 faults, fairness; 54 788 states | outcomes get their receipts, for which a Box that lost its connection must become ready again, and calls end |
| `approvals` | 2 requests (one critical), 2 commands, 1 failing flush, fairness; 70 985 states | the gate opens only for approved requests, "allow all" never covers a critical one, commands are idempotent, everyone is told |
| `chat_runs` | 2 Runs of one Session, 2 faults, 1 restart, fairness; 1 621 234 states | one live Run, Parts that tell the truth, quiet Runs once over, quiet deleted Sessions, releases come last, executions end |
| `inventory` | 2 processes, 2 connections, 2 databases, 4 changes of one resource, a log of 2, pages of 1, 1 fault, fairness; 1 196 895 states | the mirror is a past state of the Box, ready implies synchronised by that process, one reads one's own writes, the mirror converges |
| `rpc` | 2 requests of one client, 1 served at a time, 1 event handler, fairness; about 211 000 states | the connection **implements `RemoteCall`**, pending requests are still served by something, a handler whose caller gave up is aborted or about to be, and **does not run on unawares** |
| `feed` | 2 Runs (one the Desktop's own, one foreign) in one Session, 3 events each, pages of 1, 2 faults, fairness; 519 854 states | events are shown in order and once and nothing is missing once active, deletions reach the renderer, every recovery ends unless a request of it is denied |
| `supervisor` | 3 restarts (the default budget), 6 faults, fairness; 34 955 states | no process is forgotten, the status is true, work ends |
| `mobile` | one pairing code and its device, 7 attempts, 2 faults, 2 moves of the user, fairness; 437 636 states | who is shown as connected has a live client, nothing dials behind a fatal end, one served socket of the device, a paired app in the foreground gets its connection back or says why not |
| `mobile_chat` | 2 Runs, 3 events each, pages of 1, 2 screens, 1 fault, fairness; 2 056 552 states | a chat fails only if a request of it did, a text that is retried makes one Run, an open chat catches up |
| `session_removal` | a Project with a Session, another one to come, and a chat whose thread is stuck; 2 slots, room for 2 rows, batches of 1, 1 fault, fairness; 488 862 states | removal never meets a Run, takes no thread that is in use and forgets none; every removal ends |
| `workspace_violation` | one property | the first disagreement of section 5 |

The bounds. Two Actions suffice for what one does to another: they share a
capacity, a batch of the reconciliation, a connection and a loop; with room for
one tombstone the second acknowledgement finds the table full.
Two faults allow a second one while the first is being repaired (a crash while
the receipt of an interrupted round is under way, a torn write after a lost
connection). Two Runs of one Session are the ones that can be in each other's
way; Sessions share only `fatal`, the failure of the data plane. Two commands are
what it takes for one to replace the other's idempotency key. In `inventory` the
log is shorter than what may be missed, so that both ways of catching up occur,
pages of one make every synchronisation of two changes have a wait in its middle,
and two processes on two databases are what the fence and the epoch tell apart.
In `rpc` a second request finds the only slot taken. In `feed` three events are
one before, one during and one after a page; two lost connections interrupt the
recovery from another. In `supervisor` six faults are enough to spend the budget
of three restarts and then to meet a child that cannot be killed. In `mobile` the
two moves are, say, going to the background and coming back, or unpairing and
pairing anew; seven attempts are never used up while the device is paired, which
TLC confirmed. The safety invariants also hold with four moves, and with eight
attempts and three moves. In `mobile_chat` two Runs on pages of one make every
loading of the Session a sequence of reads, the third event is one that comes after
the end, and the second screen meets the frames the first one left behind; the two
invariants also hold with two faults, and with three Runs of two events. In
`session_removal` the stuck thread holds one of two slots and one of two rows, so
that the others compete for what is left and the drain finds the outbox full; batches
of one make the removal of two Sessions take two rounds of the drain; a slot more than
there are stuck threads is an assumption of the module (with every slot taken for good
nothing can end). `RemovalIsSafe` also holds with two faults. Faults and
restarts are bounded for TLC only: no theorem depends on the bound.

Deadlock is not checked where the system comes to rest: every call is done, every
request resolved, the connection closed, the application stopped, and no fault is
left.

No run uses symmetry: most of them check liveness, for which it is not sound.

### Fairness

- `pipeline_live`: the Tool ends (it has a deadline), replies and requests are
  delivered or the RPC times out, the reconciliation runs every second, a lost
  connection is attempted again and a dead Box is started again (the service
  manager's and `remote-client.ts`' loops), a grant expires after 60 seconds.
  Nothing is assumed of the user or of the caller.
- `approvals`: a deadline passes, and the sweep's timer fires. Nobody has to
  decide, abort or retry.
- `chat_runs`: a scheduled execution begins, and the runtime returns or throws.
  The weakest of them: a provider that never returns would keep its Session
  busy, and the code relies on the provider's own timeouts.
- `inventory`: the Box answers, what was sent arrives, and the timers of hint and
  poll fire. Nothing says that a Box connects, stays connected or is asked for
  anything; a request that fails is a fault.
- `rpc`: frames that are not lost arrive, and the heartbeat notices a silent network.
  No deadline need pass, the caller's or the handler's, no handshake need time out, and
  a handler need not return, aborted or not.
- `feed`: frames are read and the recovery goes on, the renderer that was asked
  answers, and a Run that executes ends. Connections are lost only as faults, the
  user and the other client need do nothing.
- `mobile`: the app's event loop takes its news, the native queue serves the calls
  made to it, frames and ends of sockets arrive, the timer of a retry fires, and
  the server answers an upgrade and a hello. The user, the operating system, the
  Desktop that approves or revokes and every fault are free to do nothing; the
  timer of the polling needs no fairness, since no property waits for a pairing.
- `mobile_chat`: as long as a frame can be read or a drain can go on, on either side,
  something of it is done. Users, Runs and preflights may stop anywhere, and no send
  need be answered.
- `session_removal`: worker, sweep and drain go on, timers fire and what is deferred
  becomes due, an execution that outlives its Run ends, and the provider answers, but
  for the operations that are stuck, which run out of time. The stuck ones need never
  be taken up again, and clients may stop anywhere.
- `supervisor`: timers fire, exits are reported, a launch ends one way or the
  other (`startupTimeoutMs`), and SIGKILL works or is given up after its time.

## 4. What is proved

All theorems hold for any constants that meet the modules' assumptions (the
identifiers are a finite set where cardinalities matter, capacities are positive;
faults and restarts are bounded by a number, whichever). Each of the invariants
below was checked by TLC on the instance of its run, and on larger ones where the
run's size allowed, before it was proved.

- **`Actions_proofs`** has three layers for the pipeline, and the approvals.

  *The journal alone*: type correctness and its properties, with `JournalLoads`
  (whatever is on disk is within the limits that loading accepts), which no run
  repeats; nor do they repeat `GrantAdmittedOnce`, `OneOutcome` and
  `OutcomeIsFinal`. None is inductive. `GrantAdmittedOnce` and
  `SpentGrantsAreRemembered` need `TraceInv`: an invocation that was admitted has
  left a record or a tombstone both in memory and on disk, unless its grant has
  expired. `OneOutcome` needs `OutcomeInv`: memory, the file and the history agree
  on the first outcome, up to a write that is torn. `CrashLosesNothing` and
  `OutcomeIsFinal` need `FileInv`: while the Box runs, memory and file agree on
  every outcome and on every unconfirmed receipt. `JournalLoads` needs `BoundInv`:
  memory keeps within the same bounds, so that whatever is written does.

  *The journal in the pipeline*: every step of the pipeline is one of the journal
  (`PipelineUsesJournal`), so that the above holds in the composition
  (`PipelineKeepsOutcomes`), and verdicts are final (`VerdictsAreFinal`). The only
  obstacle is `confirmAcknowledgements`: the journal expects receipts that are still
  unconfirmed. `RoundOK` states why they are: there is one round of reconciliation
  at a time and nothing else confirms receipts.

  *The evidence*: the Box drops a result only after the server stored it
  (`ReceiptsFollowEvidence`), the server can accept whatever evidence it is offered,
  and the pipeline implements `ActionOutcome` (`PipelineRefinesOutcome`), in which a
  final verdict is the truth and neither is ever revised
  (`PipelineTellsTheTruth`, `OutcomesStand`). The invariant `IInv` says
  for each Action how the server's row goes with its call (`CallInv`), where a final
  verdict comes from (`VerdictInv`: it is the Box's outcome, or the Action was
  cancelled and its grant will never get there), that every message under way is true
  (`NetInv`: an invocation that was not admitted yet, a reply that tells the
  outcome, a receipt of what is stored), and that a tombstone is one of a stored
  outcome (`TombInv`). `EvidenceAlwaysAcceptable` and `PipelineRefinesOutcome` assume
  `Outside = {}`, that no Action's path leaves the workspace, and have to: with such
  an Action both are false, which is the first disagreement of section 5 and the run
  `workspace_violation`. What holds whatever `Outside` is,
  `EvidenceIsAcceptable`, is that these Actions are the only exception. `IInv` holds in
  524 257 states without and in 389 638 with an Action outside.

  *The approvals*: type correctness and the five safety properties,
  among them that everyone who waits waits for a pending request
  (`WaitersWaitForPending`) and that decisions are final (`DecisionsAreFinal`),
  which no run repeats.
  The argument for idempotency (`CommandsAreIdempotent`) is that a command
  that took effect is spent: its request is resolved, or its policy has passed
  the revision the command was composed at, for as long as the Session exists.
- **`ChatRuns_proofs`** proves all that the run checks of a Run but the liveness
  property, and type correctness, with three invariants.

  `OneLiveRun`, `DeletedIsQuiet`, `ReleasedRunsAreOver` and that a Run's end is final
  need `IInv`: a reservation or an execution excludes every other execution of its
  Session, and what is not executed there is not live. This is what a send
  establishes by ending orphans first, and what keeps two sends around a preflight
  apart. The proof factors every action through what it may do to one Run, one call
  and one Session (`Moves`).

  `PartTellsTruth` needs `Good`, which relates a Part, the rows that wait for it and
  what the authorities know: neither the Part nor what a flush *would* make of it
  claims what is not so, and a Part that is shown as running or in doubt while rows
  wait is about to be told how its call ended, by the last of them. Each change of a
  call either leaves a row that tells of it (`Told`) or needs none (`Untold`), and a
  flush, an interruption and the recovery of a restart all keep `Good`. A
  flush folds the rows into the Part, any number of them: that it takes one row
  after the other, the last one last (`FoldAppend`), and keeps what every row keeps
  (`FoldKeeps`), is induction over a number, which is done here over a set of
  numbers with the least-number principle (`AllNumbers`).

  `OverRunsAreQuiet` needs `Quiet`, as long as nothing failed: no row waits between
  two steps, text streams only before a call is made or after it settled, and a Part
  waits or runs only for a call. `Good` and `Quiet` hold in all 1 621 234 states of
  the run.
- **`BoxInventory_proofs`** proves type correctness and the three invariants of
  the mirror, for any number of processes, databases, revisions, changes kept and
  resources and any size of a page. `PastInv` strengthens `MirrorIsPast` to what
  is under way: a page that was answered, and the rows gathered so far, are those
  of the Box's log up to the revision they name. `ReadyInv` ties the entry to the
  fence and to what its lease has synchronised, `WriteInv` the mutation's answer
  to the log. That the rows of a change log, applied in order, give the state at
  their end (`LastOfIsLast`) is proved with the least-number principle.
- **`ProcessRpc_proofs`** proves that a connection implements `RemoteCall`: every
  step maps to a step of one call or to a stutter, under the invariant that an
  answer on its way is the handler's and that there is one of it; and so that
  callers are told the truth (`ToldTheTruth`). `PendingIsServed` and
  `AbandonedIsAborted` need `ServedInv`. Of each request, its frames are on the right
  side and contradict neither each other nor what became of it at the two ends
  (`Sound`); what is pending is asked, being answered or answered, and what is given
  up is cancelled (`Live`), unless the connection is ending: closed, cut, or with a
  close under way *behind* all the rest (`Off`), which it is at both ends or at
  none. `Sound` has to say that a cancellation is behind its request in the queue: in
  the other order it would be read first, by a peer that knows no such request, and
  the handler would run for nobody. `ServedInv` holds in 211 006 states with both
  requests of one client and in 201 466 with one in each direction.
- **`MobileLink_proofs`** proves both halves of the mobile app's connection, for any
  number of attempts, faults and moves, and type correctness. On the server's side,
  it serves one socket of a device, the newest it accepted, and none of a revoked
  one, and never goes back to an older generation; the invariant is
  `OneServedSocket` itself with the shape of the row, because only `Accept` adds a
  peer and it fences the others in the same step. On the app's side, `ClientIsLive`
  and `FatalMeansQuiet` need `LinkInv`, over the app's state and its queues of
  calls and news: an attempt dials once, is not opened before, and only the latest has
  a peer (`AttInv`); a timer runs only where no attempt does and no answer under way
  can set it again (`TimerInv`); an error has neither (`ErrorInv`); who is shown as
  connected is the latest attempt and up, or down and its binding is being checked, or
  the binding is being deleted (`ClientInv`). `astray` excepts the one case in
  which they do not hold: the check of a binding fails and the code does not compare
  the token it was made for with the current one. `LinkInv` was also checked with
  up to 6 attempts without faults, 4 moves, and 1 185 812 states.
- **`MobileChat_proofs`** proves `RetriesMakeOneRun` and `ErrorsHaveCause`, for any
  number of chats, Runs, events and faults and any size of a page. That one text
  makes one Run (`SendInv`) needs only the sends: a request under way or being looked
  at is the reservation of its text, and a reservation is given up only when there
  is a Run of it or when nothing of it is left that could make one. That an error
  has a cause needs `ChatInv`: one load of the chat is under way at a time
  (`OneLoad`), the chat is subscribed to before anything is read of it (`Tuned`),
  events are in order (`Ordered`) and in the log (`Logged`), and a page goes on where
  the Runs found so far end (`PageInv`). `SnapInv` then says what the chat will know
  of a Run once what it reads has come, and that from there to the end of the log
  every event waits, without a gap. So no event meets a gap, and none is of a Run that
  no page contains.
- **`Desktop_proofs`** has two parts.

  *The companion processes*: that no process that runs is ever
  forgotten (`NothingEverEscapes`), that the status says what is the case
  (`StatusAlwaysTrue`) and type correctness, for any budget of restarts and any number
  of faults. `SupervisorInv` says what is tracked (`Tracked`), where a launch stands
  and of which pair its children are (`LaunchInv`), that what is open is the
  connection there is (`LinkInv`), that what was awaited stays stopped or given up
  (`StopInv`), and what each status stands for (`StatusInv`).

  *The feed*: `DeletionsReachTheRenderer` and `NothingMissing`, for any number of
  Sessions, Runs, events and faults and any size of a page. The first invariant
  says for each phase of a recovery which deletions it has yet to hear of
  (`Deletions`): the ones above the list's cursor while it is read, then only those
  announced on the wire; what was heard of is staged, being asked about or behind it
  in the queue, and an answer that a Session is missing counts as the announcement.
  `Waits` says who may be asked and when the queue of announcements is empty: this
  is what makes the flip to active, in the same step as the last look at what is
  pending, safe. `FeedData` gives the types, `LogInv` and `Quiet` tie the log to what executes and empty the
  channels of a connection that is down.

  `NothingMissing` needs `FeedInv`, which adds, for every Run, where each of its
  events is: shown, set aside, under way or still in the log. What was shown is
  consecutive and ends at the cursor, and what was set aside is an interval
  (`Showing`); what is under way is above both and not ahead of the log (`Levels`),
  has no gap and goes up to what the log tells (`Stream`), in order (`Orders`). An
  answer to a send and a page of a replay carry a promise: that what comes behind the
  number of the one, or the last event of the other, is on its way too (`Answered`,
  `Paging`). `Follows` says for each phase of a recovery why the rest of a Run
  will come: its Session is to be subscribed to or is; from its first page on the Run is
  replayed up to the end, or goes on to be; once all are replayed it waits, unless
  what was set aside begins behind a gap, and then the drain closes the connection
  rather than become active (`Doomed`). That the Session is subscribed to *before* the
  replay reads the log is what lets a page meet the live events without a gap
  (`Recovering`). A step that adds to the log or the queue is factored by what it
  does to one Run (`Adds`, `Passed`); a delivery, a page and a flush by what they take
  of some events (`TakenIs`, `Delivers`). One assumption is of the model and not of
  the code: 0 is no Run, since it marks that no page goes on (`NoPage`).
  Without the types, `FeedInv` holds in all 519 854 states of the run.
- **`SessionRemoval_proofs`** proves `RemovalIsSafe` and type correctness, for any
  Sessions and Projects, slots, rows and batches. The invariant says that jobs, rows
  and operations are about Sessions that are gone (`GoneInv`), that an operation which
  may take a thread was not begun on one in use (`OpenInv`), and whose turn it is in a
  Project (`TurnInv`): while the Box is asked for a Session at the head of the queue,
  no deletion has begun. That the limits of slots and rows hold (`LimitsHold`) is
  a second invariant on top of it, by the cardinalities of finite sets.

Only model-checked: the liveness properties, which are out of the prover's reach.
Every invariant and every action property of a passing run is the property of a
theorem.

No theorem rests on a statement without a proof.

## 5. Disagreements between the code and its documents

With a run, quoted with their lines under "findings" in `PROJECT.json`:

1. `workspace_violation`: a path outside of the workspace is rejected *after* the
   Box journalled the Action. The Box records "failed" and offers it as evidence,
   the server cancels the intent as never begun and must refuse that evidence,
   and with it every batch that contains it, also before the Box is ready.

Met while modelling, visible as an action (`EventUnknown` of `DesktopFeed`):

2. A Desktop that is sent an event of a Run it does not follow, in a Session it is
   subscribed to, closes its connection, and the supervisor restarts both processes.
   The event of a foreign Run will do, and so will the late outcome of its own Run
   that a restart left behind and the recovery ended (`data-contracts.md:399` says
   that a client need not hold the request of a Session it observes).

Met while modelling, stated as definitions of the modules that no run checks; TLC
finds each of them violated in the instance of its module's run:

3. `AuthorityWins` (`ChatRuns`): cancelling marks a running tool Part as cancelled at
   once (`chat-application-service.ts:1004`), and the outcome that the Action reports
   later can no longer replace it (`run-journal-repository.ts:435`), although
   `run-aloud.md:468` has the dispatcher or a receipt decide how an execution ended,
   and `:481` the Part brought to the same end.
4. `DeletionsNeedNoRestart` (`SessionRemoval`): if `recordDeletionJobAttempt` throws,
   the drain is rejected (`project-application-service.ts:576`, `:639`) and
   `#ensureDeletionWorker` only reports it: no timer is set, and the deletion waits for
   the next request or a restart, on which `docs/implementation/project-management.md:421`
   says it must not depend.
5. `SweepBoundsWait` (`Approvals`): a flush that fails once in the sweep leaves its
   waiters waiting, since the expired rows are not returned by any later sweep
   (`approval-service.ts:275`; the comment at `create-agents-server.ts:750` says
   that the sweep bounds the wait).
6. `OrphansEndAtStartup` (`ChatRuns`): Runs that a restart left behind are ended by
   the next look at them, not at startup (`data-contracts.md:748`,
   `run-aloud.md:479`).
7. `NoPartIsForgotten` (`ChatRuns`): an answer over the output limit ends its Run
   with a tool Part still queued.
8. `NewestIsRegistered` and `OfflineIsStale` (`BoxInventory`): an older process of a
   Box is registered after a newer one if its handshake came before the newer one
   reported itself (`data-contracts.md:264`), and after a crash of the server the
   inventory of a Box that is not connected is not marked stale
   (`runtime-box.md:393`).

Met while modelling and not stated in TLA+:

9. The two companion processes share one `RestartBudget` that is never replenished;
   `docs/implementation/architecture.md:252` has each role counted on its own.
10. A child that survives SIGKILL in the recovery begun by `start()` leaves the
   status at "restarting" (or whatever it was) for good: `performStart`'s catch
   awaits the owner and is left by its rejection before it sets "failed". This is
   why the last clause of `StatusIsTrue` asks for `reported`. On the path of a
   crash the status becomes "failed", as the test of the supervisor expects.
11. A send that is refused with `CHAT_REQUEST_FAILED`, or for a provider or a Project
    that is not there, is ambiguous to the Desktop (`desktop-agents-client.ts:182`):
    its reservation stays and is sent again by the next recovery. A refusal that is
    for good (an archived Session) fails every recovery from then on. `Denied` in
    `DesktopFeed` is this answer, and the one exception of `RecoveryEnds`.
12. The check after a lost connection compares its answer with the attempt it was
    made for, its failure not (`connection-controller.ts:376`). If the user unpairs
    while the check is under way and it then fails, the app shows "offline" and arms
    a timer, which goes on dialling without a binding, also behind an error
    (`connection-screens.tsx:203` says that fatal states are never retried).
    `astray` in `FatalMeansQuiet` marks this case and is its one exception.
13. An attempt superseded while the native side connects is disposed before it is
    bound, which closes nothing (`native-transport.ts:207`): if the attempt that
    superseded it fails, its socket stays open, unheard, until the next one; the
    comment above it says that no attempt leaves a live socket behind.
14. The answer to `init` or to a poll that was approved dials although the app has
    gone to the background meanwhile (`connection-controller.ts:188`, `:483`; the
    comment at `:353` says that it never does).
15. A server that restarts, or a challenge that expires, between challenge and
    upgrade answers 401, which the app takes for a fatal "auth-failed" and shows
    until the device is unpaired. A full table of challenges answers 400, taken for
    "pairing-rejected".
16. A pairing that is cancelled while the poll that brings the approval is served
    ends as "unpaired" on the screen and paired in the Keychain: scanning again is
    refused until the app returns from the background.
17. The reservation of a send is the controller's, and a lost connection unmounts the
    connected screens with their controllers and drafts: the same text typed again
    after "a dropped socket" is a new request, although the comment at
    `chat-session-controller.ts:52` has it retried under the same one.
    `RetriesMakeOneRun` therefore speaks of one opening of the chat.

## 6. Not modelled

The agent runtime, MCP servers, the tunnel host and the database engine are
external. Read-only handlers, paging of lists, titles, credentials, file formats,
schema migrations and user interfaces have no protocol of their own; most of the
repository's lines are of these kinds (views, translations, validation of
contracts, tests of both), so that the share of lines that "map" names stays small
whatever is modelled. What would deserve a model and has none:

- the leases that follow a mobile client over connections (a request bound by one
  connection and taken over by the next while the first one's send is under way);
- who resolves an intent whose request never reached the Box: it stays
  `outcome_unknown` without evidence, its receipt never comes and its Session can
  never be deleted (`action-repository.ts:547`; `CallsEnd` only says that the call
  ends, `EvidenceConverges` that an outcome the Box recorded gets its receipt);
- the other operations of a Project (creation and relinking with a confirmation
  token, whose Box may be another one by then);
- the attention outbox (`claimPending` takes the first hundred rows: as many that
  fail for good would hold up all later ones);
- the queue of file mutations of a Box.

## 7. Plan

1. Done: `InvocationJournal`, `ActionRepository`, `ActionPipeline` with
   `ActionOutcome`; `Approvals`; `ChatRuns`; `BoxInventory`; `ProcessRpc` with
   `RemoteCall`; `DesktopFeed`; `CompanionSupervisor`; `MobileLink`; `MobileChat`;
   `SessionRemoval`.
2. Done: the proofs of every invariant and every action property.
3. The tombstones of retired Sessions and their lifetime, which `DesktopFeed` and
   `SessionRemoval` both leave out, and the attention outbox.
4. `DesktopFeed` and `MobileChat` share one server in the code and have a server each
   here; its half could become a module that both extend.

A run is added for a distinct question only, so that the whole project stays
checkable in minutes.
