# A verification of hermes-mcp-gateway

The gateway is one asyncio process that puts a default-deny MCP surface in front
of the native Hermes tools, Samchon Graph, language servers and Honcho memory.
Most of its hard behaviour is not in what it computes but in what it *holds*
while something it does not control (a Hermes thread, a subprocess, another
gateway on the same database, an operator's deployment) is still at work. This
directory models those parts in TLA+, checks them with TLC on small instances
and proves the ones that matter most with TLAPS for every instance.

## The system

| Component | Code | State it keeps | Operations |
|---|---|---|---|
| ResumableJobs | `jobs.py` | one SQLite row per job (`state`, `native_id`, `deadline`, ...), one lock per job | `job_prepare`, `job_start`, `job_status`, `job_cancel`, the reaper's `maintain` every 30 s |
| job_admission | `scripts/job_admission.py` | two rows of `gateway_settings` in the same database | `drain`, `resume`, `status`, `snapshot`, each a process of its own |
| SessionCapabilityStore | `sessions.py` | per owner: leases, revoked, cleanup started, expiry | issue, acquire, retain, release, revoke, expire, cleanup complete |
| NativeCalls | `native_activity.py` | the worker threads still running | `run` (a thread that outlives a cancelled request), `wait_idle` |
| Gateway | `server.py` | catalogue, cached web probe, in-flight requests, cleanup tasks | `start`, `call`, dispatch of a request, owner cleanup, reapers, `health`, `close` |
| NativeExecution | `execution.py`, `execution_worker.py` | slots, active worker processes, live calls | `call` (deadline, launch, run, terminate), `close` |
| SamchonGraph | `upstreams.py` 128-555 | resident sessions in LRU order, their queue and owner task | `describe`, `call`, `healthy`, trim, `close` |
| HermesToolsClient | `upstreams.py` 558-761 | one upstream MCP session | `call`, `call_direct` (ownership check), `call_browser` (stale-tab retry) |
| StartupContext | `startup.py` | none | `read`: stat, budget, read |
| Output | `output.py` | none | redaction and truncation to a budget |
| ToolDiscovery | `tool_discovery.py` | a catalogue frozen at start | search, describe, validate |
| ExecutionGuard | `execution_guard.py` | none | `guard_terminal` |
| MemoryAdapter, HermesCapabilities, LSPAdapter | `memory.py`, `capabilities.py`, `lsp.py`, `lsp_stdio.py` | a client each | guarded forwarding |

How they interact. Every tool call enters through `call_tool` in `server.py`,
which may take a lease on a session owner and then calls `Gateway.call`. Native
work runs in threads tracked by NativeCalls; a thread started for a session
owner holds a lease of its own. The jobs reach Hermes through
`HermesToolsClient.call_direct` under an owner that belongs to one job, so a
job survives the session that started it. `job_admission.py` never talks to the
gateway: it writes the gate and reads the rows in the shared database, and
`job_start` reads the gate in its admission transaction. `Gateway.close` stops
the reapers, revokes every session, waits for native threads and cleanups and
only then closes the upstreams.

What is hard here:

* **Interleaving at awaits.** A status, a cancel and the reaper hold a job's
  lock, `job_start` does not; another gateway process (a restart overlapping
  its predecessor) has locks of its own and shares only the table.
* **Late effects.** Native calls are threads. A 12 s wait that ends leaves its
  thread running: a launch or a kill may take effect after the gateway gave it up.
* **Crashes.** The row is committed before the launch, so a crash in between
  leaves a row whose work may or may not exist.
* **Stale readings.** The reaper decides with a clock read before the sweep and
  answers that were true when Hermes gave them.
* **Cancellation.** A client's disconnect cancels its coroutine at any await,
  past every `except Exception`.
* **Deadlines and shutdown racing cleanup** in sessions, execution and graph.

What makes each part correct: a job's work is asked for at most once, a receipt
never lies and never frees its slot early, everything is reconciled in the end;
a drain that reports idle stays idle; an owner is cleaned exactly once and never
under its own work; a worker process never outlives its call; a graph session
is never closed under a call and always evictable after; a cached verdict never
outlives a failure; what is returned of a file is something the file was; an
effect that is wanted once happens once; a truncated answer fits its budget and
keeps what the budget allows.

## Modules

| Module | What it is |
|---|---|
| `Jobs` | the job store with its gateways, its clients, its clock and the external Hermes terminal |
| `JobsPromises` | its safety properties, fairness, liveness, and the refinement mapping |
| `Receipt` | the abstract at-most-once receipt that the job store implements |
| `JobAdmission` | the operator's gate composed with the job store |
| `Sessions` | the session store, the native threads, the handlers that use them, the reaper and close |
| `SessionsPromises` | its safety properties, fairness, liveness, and the refinement mapping |
| `OwnerLifecycle` | the abstract life of a session owner that the session store implements |
| `Execution` | native execution: calls, slots, worker processes with their descendants, close |
| `ExecutionPromises` | its safety properties, fairness, liveness, and a statement that does not hold |
| `GraphSessions` | the resident graph sessions: callers, owner tasks with their queues, eviction, close |
| `GraphSessionsPromises` | its safety properties, fairness, liveness, and two statements that do not hold |
| `Readiness` | the cached verdict on the web tools: start, probes, readiness checks, web tool calls |
| `ReadinessPromises` | its safety properties, fairness and liveness |
| `ReadPages` | a client that reads a file page by page |
| `StartupContext` | the reader of the startup files, system call by system call, and the agent that edits them |
| `MemoryMutation` | a write to the durable memory, its thread nobody can stop, and the client that repeats it |
| `BrowserCalls` | the browser calls of an owner that share a tab, and the repetition after a stale one |
| `JsonOutput` | the bisection for the longest preview of a JSON result |
| `Diagnostics` | the language server calls on one file that is edited and sent again meanwhile |
| `Gateway` | the seven parts above as one gateway |
| `JobsProofs`, `JobAdmissionProofs`, `SessionsProofs`, `ExecutionProofs`, `GraphSessionsProofs`, `GatewayProofs` | the theorems |
| `MCJobAdmission`, `MCGraphSessions`, `MCGateway` | directories, symmetries and payloads of the TLC instances |

### Jobs

The columns of the table are the variables `state`, `owner`, `workdir`, `key`,
`payload` (is `prepared_command` set), `native` (is `native_id` set), `timeout`
(`timeout_requested`), and two readings of the clock: `due` (past
`prepared_expires`, or past `deadline` once started) and `aged` (`updated` is
older than the 60 s of an unanswered start, or than the retention of a final
row). `gate` is the settings row. `starter[j]` is the `job_start` that committed
the row and is between its commit and its last write; `op[g][j]` is the operation
holding gateway `g`'s lock of job `j`, with the Hermes call it awaits and the
answer it has been given; `reap[g]` what remains of a sweep. `proc`, `killing`
and `launches` are Hermes: the process of the job, the kill requests it has not
acted on and the number of terminal calls it was handed.

An action is a stretch of code between two awaits. Two stretches deserve a word:

* `job_start` runs from the commit (405) to the hand-over of the terminal call
  (418) without an await, but the database is shared, so other *gateways* may
  act in between. `StartAdmit` and `StartRefused`/`StartDispatch` are separate
  actions, and `Free(g)` keeps the same gateway's event loop out of the gap.
* A stretch may hold several transactions (`_poll` reads `timeout_requested` and
  then writes the verdict conditionally). Each write is conditional on the state
  it expects, and the model takes the stretch as one step.

Hermes answers in two steps: `Answer` reads its registry, and the gateway acts
on that answer later, when it may be stale. Every wait may also fail or time out
(`CallFails`, `NotAdopted`, `StartUncertain`), and a cancelled client leaves at
its await (`Abandon`). `Crash` loses every lock, wait and sweep of a gateway.

Abstractions. A job identifier is random, so a model value used once. The
directory stands for the frozen request. Authorization and argument errors
change nothing and are no steps; so are refused admissions, whose transaction
rolls back. Output text and exit codes other than zero or not are left out. A
launch may take effect any time after it was handed over, even after its gateway
died: the code cannot assume otherwise. A kill of a process that already ended
changes nothing. `now` is read just before its transaction and is treated as read
in it.

Bounds. `MaxOps` caps the operations that await Hermes at one time and
`MaxCrashes` the crashes of a behaviour; `Kinds`, `Exits` and `Settings` select
the operations, the ways a process ends by itself and the gate values of an
instance. The proofs hold for every value of all of them.

### JobAdmission

`Drain`, `ResumeAdmission` are the two transactions of `set_draining`,
`DrainQuiet`/`DrainBlocked` the polls of `main`: exit 0 on an active count of
zero, exit 3 when the timeout passes. Each operator token runs one command at a
time. Its `AdmissionNext` is the job store's own next-state relation without
`SetGate`, whose place the operator takes.

### Sessions

A session owner is a record of `SessionCapabilityStore`. `status`, `active`,
`revoked`, `claimed` and `late` are its membership of `_by_owner`,
`active_calls`, `revoked`, `cleanup_started` and "past `expires_at`"; `stage` is
the cleanup task of the owner, by the native call it awaits (kill the processes,
clean the terminal, drop the browser binding). `pc[r]` is where a `tool_call`
handler is: waiting for the cleanup of expired owners (`wait`), for a native call
(`native`), back from it (`ran`), about to run its shielded release (`release`),
waiting for a cleanup that the release started (`closing`). `owner[t]` is the
owner a native thread works for, `leased[t]` whether the thread retained it.

| Action | Code |
|---|---|
| `Arrive`, `Admit` | `dispatch` to its first await: `expire_due`, its cleanups, then `acquire` or `issue` |
| `Lease` | the lease and the start of the tool up to the thread (`NativeCalls.run`, with `retain` for the tools of `STATEFUL_HERMES_TOOLS`); `session_close` revokes and goes to its release |
| `Retry` | the second native call after a stale tab, which must retain again |
| `Return`, `Release`, `Answer` | the end of the call, `release_session_token` under `asyncio.shield`, its wait for the cleanup |
| `Cancel` | the handler is cancelled at an await; what it awaits goes on |
| `ThreadEnds` | the done callbacks of `run`: untrack, release the retained lease, wake the waiter |
| `CleanupStep` | a stage of `_cleanup_session_owner` ends, however; the last one is followed by `cleanup_complete` |
| `Sweep`, `Expire` | the session reaper and the clock |
| `CloseBegins`, `RevokeAll`, `CloseEnds`, `CloseCancelled` | `Gateway.close` up to the end of its waiting loop; a cancelled close may be run again |

An action is again a stretch between awaits. The release is a task of its own
(it is shielded): it runs whether or not its handler was cancelled, so `Cancel`
at a native call leads to `release`, and there is no cancellation there.

Abstractions. A token is its owner: it is never reused, and a wrong token is
refused without touching a session. Tools are four kinds: `open`, `close`,
`stateful` and `direct` (any other call under a token; it holds its request's
lease until it returns and its thread none). Calls without a token, and
`job_status`/`job_cancel`, which ignore it, touch no session. The owners that the
legacy transport derives from its own session are never issued nor cleaned. Each
record expires on its own, which allows more than a common time to live does.
The failures of a cleanup stage are swallowed by the code, so a stage just ends.

Assumed of the environment: `Gateway.close` is called when the server has ended
its handlers (it is the exit of the server's lifespan), so no new request races
it; a request that was cancelled on the way may have left threads and cleanups.
Native calls not made for a session owner are waited for by close in the same
way and are left out, and so is what close does after its loop.

### Execution

`pc[c]` is where a call of `execute_code` is: queued for a slot, `launching` its
worker (shielded), `running`, or in its finally clause: `salvaging` (waiting for a
launch whose end it did not see), `terminating` (SIGTERM sent, asleep), `killing`
(SIGKILL sent, waiting for the worker). `armed` are the calls whose
`asyncio.timeout` may still fire, `saw` those whose `proc` is set, `active` the
entries of `_active`; a salvaged worker never gets one. `worker[c]` is the process
with its process group, `kid[k]` a descendant in a group of its own, `known` what
`_remember_tree` has recorded, `termed` the descendants that were sent SIGTERM.
`phase`, `todo` and `victim` are the progress of `close`.

| Action | Code |
|---|---|
| `Arrive`, `Acquire` | `call` to its slot and on to the launch |
| `Launched`, `LaunchFailed` | the shielded launch returns to `_run`, or raises |
| `RunEnds`, `Kill`, `Reaped` | the end of the run, the finally clause up to `_active.pop` |
| `Salvaged` | the finally clause gets the process of a launch it was cancelled in |
| `Deadline`, `Disconnect` | the timeout cancels the task wherever it is, once; the client's scope does not reach a shielded finally clause |
| `Track`, `LaunchEnds`, `WorkerExits`, `KidBorn`, `KidExits` | the tracker's thread and the processes |
| `CloseBegins`, `Gathered`, `CloseTerm`, `CloseKill`, `CloseReaped`, `CloseEnds`, `CloseCancelled` | `close`: cancel all calls, wait for them, walk the table |

A SIGTERM may be ignored, except by a worker that still waits for its payload and
has no handlers yet. Descendants appear as long as the worker or one of its
descendants runs; one that appears in an own group after the last scan and is
never recorded is beyond the code's knowledge, which is why the promises speak
of the descendants that were signalled. `proc.wait()` returns once the worker is
dead. The tests of `_closed` after an await (136, 170) are modelled although the
cancellation by `close` reaches the call first.

A call that was cancelled while it launched waits for the shielded launch in its
finally clause (200). Cancelled there a second time, by `close`, or by its deadline
when the first was its client's disconnect, it leaves without the process, which has
no entry in `_active` either, and the worker that the launch brings is never
terminated. `NothingForgotten` and `ClosedIsEmpty` speak of the calls that got their
worker (`saw`) and except this one, and `WorkersBounded` excepts its worker
(`Abandoned`): no run shows more of it than that.

### GraphSessions

A session is an owner task (`_run_owner`) with a queue; callers choose one under the
client's `_lock` and use it under its own `_lifecycle_lock`.

`pc[c]` is the await of a caller: the client's `lock`; `starting` or `checking` a new
session; `aborting` it; `evicting` (its session is chosen and pinned, it awaits the
close of the evicted ones); `enter` (about to take the session's lock), `restart`
(awaiting a new owner), `asked` (awaiting its response); `leave` (the finally clause,
`active_calls -= 1` under the lock); `retiring`. `lock` and `slock` hold the one that
keeps a lock over an await. `status` is `unlisted` while a session is created,
`resident` in `_sessions`, then `retired`. `active` is `active_calls`, `pending`
`_pending_operations`; `trims` the lru-trim tasks not run yet, `batches` what each
retire task has still to close, `failed` the sessions of a retire task that raised,
`late` the owners tracked after their abort. `phase` and `own` belong to `close`.
`task` is the owner: `starting`, `serving`, `failing` or `exiting` (leaving its
transports before or after it was ready), `gone`.

| Action | Code |
|---|---|
| `Arrive`, `Find`, `Create`, `Refused` | `describe` and `call` to the client's lock, and what they find under it |
| `Started`, `Register`, `StartFailed`, `Reject`, `Aborted`, `AbortTimesOut` | the creation of a session under that lock, and `abort()` if it fails |
| `Evicted`, `Request`, `Restarted`, `Answered` | `_request` of a chosen session, with `ensure_owner` |
| `Leave`, `Retired` | the finally clause of `call`, its trim and the wait for what it evicted |
| `Probe` | `healthy`, which takes no lock of the client |
| `Cancel`, `CancelCreation` | the caller is cancelled at an await, its own timeouts included |
| `Initialized`, `StartFails`, `Take`, `OperationEnds`, `Breaks`, `OwnerEnds` | the owner task |
| `CloseSession`, `Trim` | the retire and trim tasks |
| `CloseBegins`, `CloseEnds`, `CloseCancelled` | `close` |

Abstractions. Any idle sessions may be evicted, not only the least recently used
ones, and a retire task closes its sessions in any order: the promises do not tell
them apart. A session object is a model value used once. `describe` is called by
`Gateway.start` before a request is served. A caller that can resume does so
before a transport has finished leaving, which takes network or process I/O
(`Prompt`). A caller that is over has its variables reset. The transports are
external: they start or fail, answer or fail, break, and leave. A broken transport
is a failing task group, which cancels the task that entered it, the owner.

### The smaller parts

Each of these is a module of its own, with its own variables. `Gateway` puts them
together: they share no variable, so their interleavings show nothing that one of
them at work alone does not, and a behaviour of `Gateway` exercises one (`part`).
`GatewayIsItsParts` proves that each behaves there as it does alone.

**Readiness** (`server.py` `start`, `probe_web_tools`, `refresh_web_tools`, `health`,
the end of `call`). `ready`, `fresh` and `missing` are `web_tools_ready`, "within
the time to live of `_web_probe_at`" and `missing_final_tools`; `lock` is
`_web_probe_lock`; `pc` is where start and each check are, `found` what the two
calls of a probe found and when (the provider `up` may change between them, and
between a finding and its record), `call` the web tool calls of clients. `doubt` is
a history variable: a tool has failed and no probe has ended since. A probe's two
calls are answered with what was true when they reached the provider, so the
verdict that is recorded may be stale already; a failing tool may itself be in
error with the provider up. A check that is cancelled is not modelled apart: the
lock is released by `async with`, as it is after a failed probe.

**ReadPages** (`_structured_read_file_result`). The file is a sequence of fragments, since
`str.splitlines` cuts lines that Hermes numbers as one: a fragment is its two lengths,
raw and escaped, and begins with a number or continues the line before (`LineOf`,
`Start`). `Kept` and `Cut` are the two loops of the page, `NextOffset` what the page
names; what the client has are the fragments' places in the file. The client is one
that does what the answer says. Assumed: what the JSON takes around an empty text fits
the budget (65536 characters unless configured).

**StartupContext** (`startup.py`). `stats`, `total`, `fd`, `raw` and `length` are the
reader's locals; the content of a file is a version. Between two system calls an
agent writes a file in place, puts another inode in its place or a link, or
unlinks it. Assumed: two writes to an inode get different modification times.

**MemoryMutation** (`memory.py` `call` for `memory_conclude`, `_run`, and
`NativeCalls.run`, which shields the thread). The client repeats a write only as the
README (98-101) tells it to: after a refusal or a failure, or when the first
write is over and a readback does not find it. Assumed of Honcho: a write it
reports as failed was not applied. One that raised a timeout may have been.

**BrowserCalls** (`upstreams.py` `call_browser`). The calls of an owner share its tab,
which may be destroyed at any time, and the handler takes an answer after other
calls have had theirs: a reset may drop the binding of a fresh tab, and a
repeated navigation may find another one's. Assumed, as the comment at
upstreams.py 729-733 does: a call that is told its tab is gone was not applied.

**JsonOutput** (`json_result`). A payload is the length of its rendering and of the
envelope of each preview of it; all the code needs of these is `Growing`.

**Diagnostics** (`lsp.py` `_diagnostics_async`, `_request_async`, `_sync_document`,
`_unchanged_document`). `opened` are the texts sent to the server, one version each,
`analysed` and `pushed` the newest version it has pushed anything or a verdict
for, `seeded` is `seed_seen`; `awaited` and `said` are the versions a call waits
for and answers about, `held` (history) the texts the file had during it. A call
that looks at the file twice does so in one stretch of the loop (`LoopFree`), but
edits come in between. Assumed of Hermes' client and the servers, as
`lsp.py` and `tests/test_lsp.py` use them: every text that is sent gets a newer version; pushes are for
newer and newer versions and may skip some; the first push of a seeding server is
no verdict; a wait ends with a verdict on the awaited version or a newer one,
and the answer is the latest verdict.

## Runs

| Run | Instance | Shows |
|---|---|---|
| `jobs` | 1 job, 2 gateways, a start and one other operation at a time, 1 crash, gate values that refuse, every operation and every exit, under fairness (0.2 M states) | `TypeOK`, `ReceiptsTruthful`, `ImplementsReceipt`; `ExitRecorded`, `OverdueEnds` |
| `drain` | 2 operators, 2 jobs of 2 callers in nested directories, caps of 2 and 1, 1 key, 1 crash, cancels (1.5 M states) | `QuietHolds`, `AdmissionKept`, `PauseRespected` |
| `sessions` | 2 owners with capacity 1, 2 handlers, 2 threads, under fairness | `TypeOK`, `LeaseExact`, `OwnersBounded`, `CloseComplete`, `ImplementsOwner`; `RevokedIsCleaned`, `ExpiryEnforced`, `CloseReturns` |
| `sessions_files` | the same; a violation | `CleanupFollowsWork` does not hold |
| `execution` | 3 calls on 2 slots, 1 descendant, under fairness (0.5 M states) | `TypeOK`, `NothingForgotten`, `ClosedIsEmpty`, `WorkersBounded`; `CallsEnd`, `CloseReturns` |
| `execution_deadline` | 2 calls on 1 slot, 1 descendant; a violation | `TreesReaped` does not hold |
| `graph` | 2 callers of every kind, 3 sessions, 2 roots, bound 1, 1 broken transport | `TypeOK`, `PendingExact`, `UsedStaysOpen`, `OneSessionPerRoot`, `ResidencyBounded`, `CloseComplete` |
| `graph_liveness` | 2 callers of every kind, 2 sessions, 2 roots, bound 1, under fairness (0.14 M states) | `RequestsEnd`, `CloseReturns`, `EvictedIsClosed` |
| `graph_bound` | 3 calls, 3 roots, bound 1; a violation | `BoundedAtRest` does not hold |
| `graph_waiters` | 2 calls, 1 broken transport; a violation | `WaitersAreServed` does not hold |
| `gateway` | the seven smaller parts: 2 checks and 1 web call; files of up to 4 lines of 4 sizes and no separators; 2 startup files, 3 inodes, 2 edits; 3 attempts; 2 visits; payloads of up to 6; 2 askers, 2 texts, 2 edits; under fairness (0.3 M states) | `TypeOK`, `VerdictKept`, `ReadFaithful`, `StartupFaithful`, `EffectsOnce`, `TruncationMaximal`, `DiagnosticsFresh`; `VerdictCatchesUp`, `AnswersCome` |
| `read_pages` | files of up to 4 fragments, lines with separators among them; a violation | `ReadComplete` does not hold of lines with a separator |

Some statements are conjunctions, so that one run asks them together.
`AdmissionKept` is `LiveWorkIsAdmitted`, `WorkBounded`, `WorkspacesDisjoint`,
`PreparedBounded`, `KeysUnique` and `PayloadPrivate`; `VerdictKept` is `OneProbe` and
`FailureRetracts`; `PauseRespected` says of every step that it keeps
`PauseKept` and admits nothing under a pause (`NothingAdmitted`); `EffectsOnce` is
`MutationOnce` and `NavigateOnce`;
`ReadFaithful` is `ReadComplete` and `RefusedOnlyOversized`; `AnswersCome` is
`ChecksAnswered`, `ReaderEnds` and `SearchEnds`. `LaunchOnce` and `FinalIsFinal` are not
run by themselves: `ImplementsReceipt` implies them. Nor are `CleanupExclusive` and
`CleanedOnce`, which `ImplementsOwner` covers. All four are proved.

Why the bounds suffice. The recovery hazards concern one receipt, two
gateways and one crash: a start that waits for its acknowledgement is overtaken by a
status, a cancel or a sweep of either gateway, a kill takes effect after whoever asked for
it is gone, a restart meets what its predecessor left. Two questions to Hermes at one
time, which let one gateway write on an answer the other has acted on, are too many for the
liveness of this instance (`MaxOps` is 1); the safety statements are proved for
every `MaxOps`. Admission hazards need two
jobs, which meet in one caller's cap, in nested directories, or under one key. The total
cap of two does not bind there, the cap of one per caller does: that they hold for
every cap is `WorkIsBounded`.
A session hazard is a
race for one owner between two of: a handler, a thread that outlived another, the
reaper, close; two handlers and two threads give every pair, a second owner finds
the capacity taken by a revoked one. In execution a call meets
another one only at the slots and in close's table, so two that run and one that
waits are enough; the descendant is tracked, signalled or neither. In the graph
client two callers meet at one lock, one session or one eviction; with two roots and a
bound of one each call for the other root evicts or is postponed, and a third
session lets a root be resident again after its eviction. With the two sessions of
`graph_liveness` the instance can run out: a caller that finds the lock free, no session
of its root and no identifier for one is `Starved`, and `RequestsEnd` excuses it there
and only while that is so. The second session is created, evicts the first, and is
used, pinned and retired without that excuse. `MaxBreaks` caps the
broken transports and `Kinds` selects the operations. Two pins left behind need two
calls that are cancelled while a third holds the lock, hence three in `graph_bound`.
In the smaller parts: one check probes while the other queues and a web tool
fails; four lines of one or three characters, escaped or not, against a limit of seven
give pages that end at, before and behind the limit in either measure, and
a refused line; a budget
that two files just keep or exceed, and enough inodes for one to be replaced and
come back; a third attempt after two whose outcomes differ; two calls on one
tab, each of which may be stale twice; envelopes that grow by one, two or six per
character around a limit of five, one of which does not fit empty; two calls, one of which
sends a text between the looks of the other, and an edit that undoes an edit.
The theorems remove the bounds for every safety property that a run checks. Deadlock is not
checked: the supply of identifiers is finite, so an instance ends when every job
is gone, and the real system is allowed to be idle; the sessions end with close,
the smaller parts with their answer.

Fairness (`JobsPromises!Fairness`), and what in the code grants it. A coroutine
that can continue does (weak fairness of `Starting` and `Resume`: every await
has a timeout of 12 s). The reaper loops forever (`_reap_jobs`), so a sweep
starts whenever the last one is over. `asyncio.Lock` is first-in first-out, so
the reaper's turn comes however often clients take the lock (strong fairness of
the turn). About Hermes only this is assumed: its registry keeps the job's
process, a question the reaper repeats is answered again and again, and a kill
requested again and again is acted on. Nothing is assumed of clients, crashes,
or the process itself. When Hermes loses the process the receipt stays
`unknown`, which is what the documentation promises.

For the sessions (`SessionsPromises!Fairness`) the event loop runs what is ready:
a handler or release that can continue does, the reaper and close too, and done
callbacks are called. That native calls end is Hermes' promise, each has a
budget of its own there; without it close rightly waits forever. No fairness of
arrivals, cancellation, expiry or of the start of close.

For execution (`ExecutionPromises!Fairness`) the event loop runs what is ready,
time passes (a deadline fires if the call is not over before), and the operating
system ends a launch and, after SIGKILL, the worker. Nothing is assumed of the
executed code, nor that a slot goes to a particular waiter: a queued call ends by
its deadline at the latest.

For the graph (`GraphSessionsPromises!Fairness`) the event loop runs what is ready.
`asyncio.Lock` is first-in first-out, so whoever waits for one of the two locks
gets it although others take it in between: strong fairness of `TakesLock`, `Trim`
and `CloseSession`. The upstream starts or fails, answers or fails within its
timeout, and goes when it is told to; a start that never answered would block every
call, since it is awaited under the lock without a timeout. `RequestsEnd` starts
from every await of every kind of caller, so a probe that takes no lock of the client is
covered too. No fairness of
arrivals, cancellations or the start of close. No transport breaks there, as
`WaitersAreServed` fails if one does.

For the verdict on the web tools (`ReadinessPromises!ReadyFairness`) a monitor polls
`/readyz` again and again, every call of a probe or of a tool is answered or runs
into its deadline, time passes, and the lock is first-in first-out (strong
fairness of `Resume`). The discovery may fail, but not for ever whenever a check
could go on (strong fairness of `Refresh`); nothing is assumed of the provider. The
two loops of `ReadPages` and `JsonOutput` go on by themselves (`GatewayFairSpec`), as a loop
of a program and a client that wants the whole file do. No liveness is claimed of a
language server, which may never answer: `NoVerdict` is its deadline.

### Divergences

`sessions_files` checks README 101-102, "Session-owned native work retains its
owner lease until actual completion; revocation cleanup follows that completion",
and TLC refutes it. `dispatch` gives a thread a lease of its own only for
`STATEFUL_HERMES_TOOLS` (server.py 900): the browser tools, `terminal`,
`process_manage`. The other direct tools, such as `patch` or `write_file`, run as
the same session's task in a thread without one. A client that calls one,
disconnects and closes the session has its owner cleaned while the thread runs.
For the leased work the sentence does hold: that is `CleanupExclusive`.

`execution_deadline` checks README 17, "HTTP disconnects/timeouts kill and reap
native execution worker trees, including tracked descendants in separate process
groups". The finally clause of `_run` is shielded from the client's scope, but the
timeout cancels the task itself. If it fires in the 0.15 s between SIGTERM and
SIGKILL, because a run or a disconnect ended just before, the call is over and a
process that ignored SIGTERM lives on, until `close` finds its entry in `_active`
(`NothingForgotten`, `ClosedIsEmpty`).

`graph_bound` checks README 36, "reuses a bounded resident MCP session per project
root". The finally clause of `call` gives up its pin under the client's lock
(upstreams.py 544). A call cancelled there, or again while it waits there for a call that
creates a session, leaves without decrementing `active_calls`; its session can
never be evicted. Two such sessions stay resident over a bound of one with
no call under way.

`graph_waiters` checks the comment at upstreams.py 236, "owner must wake all
waiters". A broken transport cancels the owner inside an operation, which is not an
`Exception`: the operation is counted off, the queued requests are failed,
but the response of the one in flight is never set. Its caller waits until it is
cancelled itself, and pins the session.

`read_pages` checks docs/THIN_GATEWAY_AUDIT.md 54-58, "page at Hermes-numbered line
boundaries and provide `next_offset`. Do not discard source lines silently." Hermes
numbers what ends in a newline; `str.splitlines` (server.py 191) also cuts at a form
feed, a lone carriage return, U+2028 and others. The first fragment of such a line
carries its number, so a page may end behind it, and `next_offset` names the line
after: the rest is never returned. Without such separators the
paging is complete, in order and refuses only lines that fit no page (`ReadFaithful`),
and with them nothing comes twice or out of order (`ReadInOrder`).

README 230 says of the web tools: "`/readyz` becomes `200` only when those calls succeed;
otherwise the process stays degraded and tunnel cutover is forbidden. Provider/auth
changes require a gateway restart so readiness and the MCP schema remain stable for the
process lifetime." The schema is frozen at start. The readiness is not:
`refresh_web_tools` (server.py 323-345) probes again when a bad verdict is 30 s or a
good one 300 s old, so a process that started degraded becomes ready by itself when the
provider comes up, and one that was ready stops being so
(`test_cached_web_probe_recovers_after_expiry` expects it).
`VerdictCatchesUp` states what the code does, and its passing in `gateway` is the
disagreement: its second half is the recovery that the sentence excludes.

What the verdict does not promise: a probe that asked the provider before a tool
failed, and ends after, overwrites the retraction (server.py 341), and readiness checks
are answered from that verdict while it is fresh. `FailureRetracts` therefore ends
the doubt with any probe, and only `VerdictCatchesUp` bounds the mistake.

`CloseComplete` of the graph excepts the sessions of a retire task that raised: the
close of a session whose owner was already leaving fails, and the rest of that
task's list is not closed. `close` itself raises if the list was its own.

## Proofs

`JobsProofs` proves, for any sets and bounds allowed by `JobsAssumption`:

* `Typing`: `TypeOK` is inductive by itself.
* `JobInvariant`: `JobInv`, the heart. `RowInv` ties a row to its process (the
  process exists only once it started; while a process is live the row is
  active; `native` only names a process Hermes spawned; before the dispatch the
  starter is the only one that can act on a process that does not exist yet).
  `VerdictInv` ties a final state to the way the process ended, and a timeout
  kill to the persisted intent. `AnswerInv` says that an answer in hand is still
  true when it is applied, although it may be old: endings are stable. None of
  the properties below is inductive without these three.
* `LaunchedOnce`, `LiveWorkAdmitted`, `VerdictsTruthful`, `PayloadsPrivate`
  follow from it; `FinalStays` from a classification of all steps (`Steps`):
  every step prepares one row, starts one row, or settles rows along `Edge`.
* `WorkIsBounded`, `WorkspacesStayDisjoint`: the same classification with
  `AdmissionInv`, the caps on the active rows; the active rows cover the live
  work by `LiveWorkAdmitted`.
* `KeysStayUnique`, `PreparedStaysBounded`: what the transactions count is what
  the caps are about, purge and change of owner included.
* `StoreImplementsReceipt`: every step is, for each job, a step of its receipt
  or none.

* `AdmissionStaysKept` puts the six statements of admission together.

`JobAdmissionProofs` first shows that the composition implements the store
(`AdmissionIsJobs`), so that every theorem above holds of it, and then proves
`QuietUntilResumed`, `PauseStays` and `NothingAdmittedWhilePaused`, and from the
last two `PauseIsRespected`.

`SessionsProofs` proves, for any sets and capacity allowed by
`SessionsAssumption`:

* `Typing`, from `TypeInv`, which adds that a handler at work works for a session
  (`Busy`) and remembers it while it waits (`Wanted`); then `LeaseExact`, by how a
  step moves handlers and threads into or out of the sets that hold a lease of an
  owner (`UsersMove`) and what that does to their cardinality (`Moves`).
* a classification of every step by its effect on the store (an owner is issued,
  entered, brought a thread, left, revoked, forgotten, or nothing happens),
  from which the remaining parts of `SessionInv` (`StoreInv`, `CapacityInv`,
  `ClosingInv`) follow one effect at a time: cleanups belong to claimed, revoked, unused owners (`CleanupsExclusive`,
  `CleanedOnlyOnce`), only stored owners are used or cleaned, so the count that
  `issue` compares with the capacity is the right one (`OwnersStayBounded`), and
  after `revoke_all` every stored owner is revoked and nobody is left to use it
  but threads, so the loop's condition suffices (`ClosedIsClean`).
* `StoreImplementsOwner`: each step is for every owner a step of `OwnerLifecycle`.

`ExecutionProofs` proves, for any sets and any number of slots allowed by
`ExecutionAssumption`:

* `Typing`, and `ExecutionInvariant`: `CallInv` (what `pc` says of the worker and
  the entry), `KidInv` (what is signalled is known; a descendant that was born
  belongs to a call that got its worker), `CleanupInv` (after SIGKILL, and outside
  the table, the signalled tree is dead), `CloseInv` (after the gathering every
  call is over and what `close` has not on its list is dead), `SlotInv`.
* The lemma behind them is `TreeSteps`: no step brings a process of a dead tree to
  life or signals a new one of it. It needs that only a run or the walk of `close`
  scans a tree, and that a scan of a dead worker finds nothing new.
* `WorkersAreKept`, `CloseLeavesNothing` follow from `CallInv`, `CleanupInv` and
  `CloseInv`; `WorkersStayBounded` from `SlotInv`, as the live workers that are
  not abandoned hold a slot.

`GraphSessionsProofs` proves, for any sets of callers and sessions, any roots and any
bound allowed by `GraphAssumption`:

* `GraphInvariant`, of the inductive invariant `GraphInv`, and from it `GraphTypes`. `Shape`
  says where everybody is: what a caller has where it waits (`CallerInv`); that
  whoever creates a session holds the client's lock, that the session is his until it
  is registered and its root has no resident one (`CreateInv`); that a session is shut only
  after it was taken out of the pool (`ShutInv`), and by one retire task (`RetireInv`).
  On it rest `QueueInv` (a caller has one request, in one queue or in flight, and has
  not forgotten its response; an owner that is gone has no queue), `PinInv`
  (`active_calls` is at least the number of calls that have pinned the session; it may be more, as
  `graph_bound` shows), `DescribeInv` (describe is alone), `TrimmedInv` and `CloseInv`.
* `PendingStaysExact`: `_pending_operations` moves with the queue and the flight, step by
  step; a broken transport counts off the operation it interrupts.
* `UsedStaysOpenAlways`: a call that has pinned its session is counted in
  `active_calls`, so no trim takes the session for idle; needs `PinInv`.
* `RootsStaySingle`: what a creator saw under the lock is still true when it registers.
* `ResidencyStaysBounded`: while no trim is due, there are few enough resident sessions or
  each has work (`TrimmedInv`): every step that ends work schedules a trim or is one.
* `CloseIsComplete`: `CloseInv` says that every owner that is not stopped has somebody who
  ends it, a retire task, a late creation or its creator, or is one of those a
  failed retire task left; `close` returns when there are no tasks and no late ones.
* `EvictsOnlyIdle`: no step before shutdown takes a session with work out of
  the pool, and a session that is closed and whose owner has ended is never started
  again.

`GatewayProofs` proves of the smaller parts, for any sets and numbers allowed by
their assumptions:

* `ReadinessHolds`, from `ReadyInv`: the lock belongs to the check that probes, nobody
  asks before start is over, and a verdict in doubt is bad and stale. Only a probe
  that ends may change that, and it ends the doubt.
* `ReadStaysFaithful`, from `ReadInv`: if no line is split, line l is fragment l
  (`FragmentsAreLines`), so the client has the text up to its offset (`TextsMeet`), and
  where there is no cut the fragment at the offset is too long by itself (`KeptOfFile`,
  `CutIsCut`). `ReadInOrder` needs no such premise: the line that a page names begins
  behind the page (`NextBehind`). Nothing is used of the sums `Raw` and `Json` but that
  an empty text takes nothing (`NoText`), so no induction is needed.
* `StartupStaysFaithful`, from `StartupInv`: an inode's version only grows (`Edits`,
  `WritersEdit`), so one that has the version of the stat before and after the read
  had it all the time, and both halves are of that version (`SinceStat`).
* `TruncationIsMaximal`: the bisection keeps that the preview of length `low` fits and
  none longer than `high` does, until the two meet.
* `MutationAppliedOnce`, from `MemoryInv`: at most one worker runs, and while it does
  nothing is applied, as the client starts another only when the earlier ones are settled.
* `NavigatedOnce`, from `BrowserInv`, which ties a call's effects to its thread: a thread
  that runs or was told of a stale tab has had none. `EffectsHappenOnce` is both.
* `DiagnosticsStayFresh`, from `DiagnosticsInv`: the version a call waits for, and every
  newer one, is of a text that the file had during the call.
* `GatewayIsItsParts`, `GatewayTypes` and `GatewaySafe`: each part behaves in `Gateway` as it
  does alone, so all of this, and the types of every part, hold of the gateway.

Assumptions: `JobsAssumption` (finitely many jobs, positive caps as the
constructor enforces, `Above` a relation on directories) and
`AdmissionAssumption` (operators write only "0" and "1"), `SessionsAssumption`
(finite sets, a positive capacity as the constructor enforces),
`ExecutionAssumption` (finitely many calls, at least one slot),
`ReadinessAssumption` (finite sets, distinct names), `StartupAssumption`,
`ReadAssumption` (numbers, and an envelope that fits), `OutputAssumption` (numbers, and
envelopes that grow), `MemoryAssumption` and `DiagnosticsAssumption` (finite sets),
`GraphAssumption` (finitely many callers and sessions, a positive bound as the
constructor enforces). Only model-checked: the liveness properties, which need fairness and
ENABLED, and that the five violations are reached.

## Plan

Done: the jobs with their operator, the sessions, execution, the graph, and the
smaller parts. Left, in this order:

1. A refinement of `Readiness` against a verdict that is renewed by whoever finds it stale,
   which would give the liveness of its checks a form that does not name the lock.
2. `BrowserCalls` composed with `Sessions`, whose `Retry` is the same repetition seen
   from the leases.
3. The close of the upstreams one after the other, where one that raises skips the rest.

## Not modelled, and why

Search, schema validation and the catalogue (`tool_discovery.py`, and their use in
`Gateway.start`) are pure and frozen at start. `execution_guard.py` is one check of the
arguments of `terminal`. `capabilities.py` and the reads of `memory.py` forward to
external clients after argument checks and keep no state. `lsp_stdio.py` replaces
the pipe of a client and holds nothing; path checks and coordinates of `lsp.py` are
functions of their arguments. The ownership check of `process_manage` is one
comparison before the call. Configuration is constants. `job_admission.py`'s
snapshot and path checks are file I/O. `normalize_result` is a function of text.
Redaction and the wording of results are left out
of every module.
