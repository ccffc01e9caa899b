# nyat-bot: TLA+ models of the turn path and the durable machinery around it

nyat-bot is a Telegram group bot written in TypeScript. An update arrives over one of
two transports, is marked and handled; its message goes into a per-chat buffer in Redis;
a BullMQ job drains the buffer as one *turn*; the turn judges the burst, may wait, may be
interrupted and planned again, and may follow its own reply up. Beside that path run
long tasks (CodeAct) that take messages while they work, audited actions (the agency
runtime), an outbox of cognitive events in SQLite, and a storage engine (NyatDB) that
keeps the history of each chat. All of it is shared between ingress handlers, queue
workers, delayed jobs, cron, timers and the shutdown sequence, with an `await` or a crash
between any two steps. These modules model it, check it with TLC and prove part of it with
TLAPS. Paths below are relative to the repository's `src/` unless they say otherwise.

## 1. Inventory

| Component | State it keeps | Operations | What is hard | Correct when |
|---|---|---|---|---|
| Turn buffer `pipeline/turn/buffer.ts` | Redis: pending list, meta hash (`scheduledJobId`, `dirty`), defer tokens, wait anchor | `appendPending`, `drainPending`, `reinjectDeferEntries`, `setScheduledJob`, `clearScheduledJob`, `markDirty`, `clearDirty`, `pendingCount`, `setWaitAnchor`, `takeWaitAnchor` | two-command read-compare-delete; retry of a re-injection | an appended entry is in exactly one place until it is seen to |
| Turn scheduler `queue/turn-scheduler.ts` | BullMQ `chat_turn` jobs | `scheduleTurn` (reuse, postpone, mark dirty, create) | six round trips on a state that changes between them | a pending entry has somebody who will look at it |
| Execution lock `pipeline/turn/turn-lock.ts` | Redis key with a token and a TTL | `acquireTurnLock`, `releaseTurnLock` | lease over while its holder runs; late release | one turn of a chat at a time |
| Turn actor `pipeline/turn/actor.ts` | local: the burst, the entry judged, replans | `runChatTurn`, `runJudgedEntry`, `runCommandEntry`, closing | crash with the burst in memory; interrupts and replans | interrupts postpone and never cancel |
| Burst `pipeline/turn/actor.ts`, `anchor-select.ts` | local: the drained burst; Redis: timing state and trigger set | giving way, truncation, suppression, anchor selection | trigger sets of older waits; replays beside fresh entries; limits | who addressed the bot is heard, who is waited for is not |
| Defer `pipeline/timing/defer.ts` | BullMQ `defer_resume` jobs carrying entries | `scheduleGateDeferReeval`, `handleDeferResume` | retry after half of the work | each payload re-injected once |
| Abort registry `pipeline/turn/abort-registry.ts` | in memory: active generation, consecutive interrupts, shutdown flag | `register[Weak]Generation`, `clearGeneration`, `interruptGeneration`, `abortAllGenerations` | late clears, overlapping turns, late registrations | one live generation, reachable by users and shutdown |
| Self-continuation `pipeline/turn/self-continue.ts` | the background rounds | `maybeSelfContinue` rounds, `drainSelfContinuations` | beside turns, across four awaits | yields to any real reply |
| Delivery `pipeline/stages/deliver.ts` | segments sent | the looks at the signals, what goes ahead of the text, the segment loop | interrupt or broadcast during the read delay, broadcast between segments | a reply whose text began is not given back |
| Wait machine `pipeline/timing/state-store.ts`, `chat-runtime.ts`, `queue/producer.ts` | Redis timing hash, `wait_resume` jobs, wait anchor | `enterWait`, `enterRunning`, `enterStop`, `transitionToWait`, `handleWaitResume` | jobs of older waits, lazy expiry, swallowed writes | a wait ends when it was promised to, and its anchor comes back once |
| Ingress `bot/handlers/message.ts`, `bot/middleware/dedup.ts`, `bot/bot.ts` | Redis: dedup marks | mark, interrupt, append, schedule | failure between two of them; both transports deliver the same update | handled once, not confirmed before |
| Ingress failover `ingress/failover.ts`, `index.ts` | Redis: mode flag, its start time, last successful poll; the process | watchdog tick, switch, boot, graceful stop | restart between two writes, failing write, slow handler taken for a stall | every update settles, polling is tried again |
| Worker, shutdown `queue/worker.ts`, `index.ts` | BullMQ job state | dispatch, stalled recovery, broadcast | order of closing | no live generation holds the worker up |
| Cognitive outbox `agent/cognitive-*.ts`, `task-runtime-events.ts` | SQLite: events, outbox rows with leases, debts | emit, claim, project, ack, fail, expire; direct settling | lease over before ack, redelivery, swallowed errors | an event is handled before it is settled, and opens one debt |
| Agency runtime `agent/agency-runtime.ts` | SQLite: runs, receipts | create, dispatch, observe, cancel | late adapter after a timeout, repeated key, crash | an action happens once at most |
| NyatDB `packages/nyatdb/src` | heap file, log file, ENGINE.json, buffer pool | append, trim, evict, checkpoint, rotate, open with replay | a kill or power loss between two file operations | a synced message survives, in its own chat |
| CodeAct tasks `subagent/queue.ts`, `executor.ts`, `agent/interrupts.ts`, `checkpoint.ts`, `meta/session.ts` | Redis: active lock, chat index, task records, interrupts; BullMQ jobs; tasks remembered in memory | route a message, dispatch, run a segment, drain interrupts, wait for the user, hand over, clean up | lock, index, record and job are written one after the other | a message is in one place, a task that is over stays over |
| Send lock `queue/chat-lock.ts` | Redis key | `acquireChatLock` | fails open | not modelled |
| Obligations `pipeline/turn/obligation*.ts` | Redis ledger | open, settle, select | replay and supersession | not modelled |
| Sleep debts `tracking/sleep-queue.ts` | Redis list | push, take | read then delete | not modelled |

How they interact: ingress calls the registry (interrupt), the buffer (append)
and the scheduler, in this order. The worker calls the actor for `chat_turn`, the
defer handler for `defer_resume` and the runtime for `wait_resume`. The actor
calls the buffer, the registry, the scheduler (when it closes), and, through the
pipeline, delivery, the defer scheduler and the wait transition. Delivery starts
the self-continuation, which calls the buffer and the registry. The wait and defer
handlers enter the path again by append and schedule. Shutdown sets a flag
the registry, delivery and self-continuation read, and stops the transport. With the Meta
route on, a session takes a message to the CodeAct task of the chat or dispatches one; a
task's events go through the outbox, whose projection opens and settles debts; delivery and
wait decisions may be carried out as agency runs. The turn path appends what was said
to NyatDB and trims it. The models are joined where the code is: an update that `Ingress`
handles is the `Append` of `TurnScheduler` and `Generations`; the wait that `Burst` reads
is the one `WaitFsm` keeps; a task's end in `CodeAct` is an emission of `Outbox`.

Left aside (`PROJECT.json` lists each with its reason): prompts, model calls and
text; persona scores; statistics and learners; cron jobs, which enter the path the
way ingress does; what a CodeAct turn executes (host API, sandbox, web tools);
the admin API and the web interface.

## 2. Modules

| Module | Models | A step is |
|---|---|---|
| `TurnScheduler` | buffer, scheduler, lock, `runChatTurn`, defer jobs, BullMQ, faults | one Redis command, MULTI block or script |
| `TurnSchedulerProofs` | types, lock, entries, wake-ups, and `TurnScheduler` implements `EntryPath`, proved | |
| `EntryPath` | what the path promises an entry: its places and the moves between them | a move |
| `WaitFsm` | timing hash, wait decisions, resume jobs and handlers, the anchor | one Redis command, or one second of the clock |
| `Generations` | registry, `runJudgedEntry`, self-continuation, delivery's checks, shutdown | what runs between two awaits |
| `GenerationsProofs` | all its invariants, proved | |
| `Burst` | what a turn makes of its burst, under the timing state earlier turns left | what runs between two awaits |
| `TimingProofs` | `WaitFsm`: all its invariants and its action property; `Burst`: its three invariants, proved | |
| `SeqOnly` | `filter`, for `Burst`, in a form the proofs can unfold | |
| `Ingress` | both transports, boot, watchdog, dedup, handlers, graceful stop, crashes | one await of the code, one call of Telegram, or a timer |
| `IngressProofs` | types, `HandledOnce`, `NoSilentLoss`, proved | |
| `Outbox` | events, outbox rows, drains of several workers, debts | one SQLite transaction, or one second |
| `AtLeastOnce` | what the outbox promises whoever appends an event | a move of one event |
| `OutboxProofs` | all its safety properties, and `Outbox` implements the safety of `AtLeastOnce`, proved | |
| `AgencyRuns` | runs by idempotency key, adapters, receipts, cancellations, crash | what runs between two awaits |
| `ActionLedger` | what a durable action promises whoever asks for it | a move of one action |
| `AgencyRunsProofs` | types, receipts, and `AgencyRuns` implements `ActionLedger`, proved | |
| `NyatDb` | the chat log: pages, chains, free list, log, checkpoints, recovery | one page or file operation, between which a page can be evicted and a crash come |
| `NyatDbProofs` | chains and free list exact while nothing fails, what a crash loses, whose messages are found, types, proved | |
| `CodeAct` | the router, jobs, runs, locks, index, records and interrupts of one chat's tasks | one Redis command, or what runs between two awaits |
| `CodeActProofs` | its types and its four properties, proved | |
| `MC*` | constants, symmetry and initial states of the runs | |

`PROJECT.json` ("map") names the lines of every definition. The correspondence in
short:

**TurnScheduler.** `pending`, `pointer`, `dirty`, `lock`, `injected` are Redis
keys; `job`, `stalls`, `defer`, `held` are BullMQ's; `turn`, `burst`, `wasDirty`,
`at`, `seen` are program counters and locals of handlers; `sent`, `handled`, `lost`
are history. `at[c]` is where caller `c` stands in `scheduleTurn`: the caller may be
an ingress handler (an entry of `Msgs`), a turn that closes or lost the lock
(a job of `Jobs`), or a defer handler. `turn[j]` is where job `j` stands in
`runChatTurn`. A finished job leaves no trace in the queue, so a reference to it
is renamed `Gone` and its identity can be used again: three identities stand for an
unbounded sequence of jobs with at most three at a time. Removed job ids never
come back in the code either (a timestamp and a sequence number).
Time is abstracted: a delayed job is promoted at some moment, which covers every
delay, postponement (`changeDelay`) and promotion, and makes the
`pendingDirect` flag, the burst watermark and the job payload irrelevant.
An entry is in `pending` once at most, so the list is a set here.

**Generations.** `active`, `aborted`, `consecutive` and `stopping` are the
registry; `flow`, `todo`, `current`, `replans` the locals of each turn; `follow` the
place of each self-continuation round. Ingress interrupts and appends in one step:
nothing awaited lies between the synchronous interrupt and the append command
on the same connection. The order of entries matters to the new anchor, so
`pending` is a sequence here. Which entries of the first burst are judged and
which are only tracked is left open, so every choice of the anchor selection
(`Burst`) is covered. Delivery has two places: `Deliver` is the look before anything goes out, behind which the reactions
and the poll are sent (`deliver.ts:617-668`); in `delay` an interrupt or the broadcast still makes it throw (`Throws`,
`:763-775`), and only `SendFirst` begins the text, after a look at the broadcast (`:818-829`). A replan takes what
interrupted in at once (`fresh`) and comes to it entry by entry, so that the broadcast may fall between two commands (`Take`).
Turns overlap, as they may with `TURN_EXEC_LOCK_ENABLED` off (its
default) or with a lost lease. The model's generation fails only by being aborted:
other errors are logged and end the entry, as a silent outcome does (`Complete`).

**WaitFsm.** `state`, `waitUntil` are the timing hash, `anchor` and `anchorUntil`
the parked entry, `turn` the deciding turn, `job`, `due`, `snapshot`, `taken` one
resume job per wait and its handler. `Reads` is `getChatState` with its lazy expiry.
Turns of a chat decide one at a time; handlers run beside them and beside each other.

**Burst.** `pending` is the buffer, `entries` the local of `runChatTurnInner`, `held`
is `suppressedUidSet` (everyone when `suppressAll`), `judged` is `judgedIdx`; `state` and
`waiters` are the timing hash, where `LAPSED` is a wait that is over and still stored.
An entry is a record of what the selection looks at; the model's turns do not overlap.
The loops over groups are sets: the anchors that fewer than `TURN_MULTI_ANCHOR_MAX`
others go before. `waitTopicKey` is read by the code and written nowhere, so it is left out.

**Ingress.** `waiting`, `hook`, `blocked` are Telegram's; `flag`, `since`, `beat`, `marked`
are Redis keys, the two times reduced to the classes the watchdog tells apart; `running`,
`ready`, `young`, `switch`, `stopping` are the process; `at`, `update` are one handler per webhook
connection and one for the polling loop, `batch` and `tried` grammY's fetched updates and offset. A
crash, an exit and a deploy end the handlers where they are (`cut`) and leave Redis
and Telegram. Telegram, grammY and systemd are external and modelled from how the code uses them
(`Restart=always`, `deploy/systemd/xxb-ts.service.template:14-15`).

**Outbox.** `log`, `row`, `debts` are the three tables, `batch`, `done` one drain per worker.
The cron of one process drains with one worker id, batches of 50, leases of 90 s, 5 attempts
and a handler that never throws; several workers, throwing handlers and lost
acknowledgements are what `cognitive-outbox-worker.ts` is written for, so the model has them, with
small numbers. The debts are those of one task; events of others never touch them. `SettleNewest`
is the projection of a successful callback, `SettleAll` that of a verified end or a stop,
`Direct` the executor's own settling at an end, in one step with the event. After a stop there are awaits between the two
(`executor.ts:619-634`, `:681-705`): `settling` holds the stops whose settling is to come, `SettleStop` does it, `StopCutShort`
is a throw or crash before it. `OwnDebt` is a debt the executor opens without an event (`:723`, `:957`), which only
settling everything or its expiry ends.

**AgencyRuns.** `status`, `attempt`, `receipts` are rows, `pc`, `key`, `adapter`, `told` one call. The
adapter goes on after a timeout (`Promise.race` stops nobody), so `Deliver` may come late.
Envelopes are valid, and `agency_attempts`, which mirrors the receipts, is left out. No production
code calls `cancelAgencyRun`; it is modelled because the module exports it.

**NyatDb.** `page`, `free`, `tips` are what the engine holds in memory, `disk` and `diskFree` the heap
file as the operating system has it, `safe` and `safeFree` as of its last fsync, `wal` and
`synced` the log, `meta` ENGINE.json; a kill keeps `disk` and `wal`, a power loss keeps
for each page `disk` or `safe`, and a prefix of the log, maybe with a torn record behind it, that
holds at least what is synced. `op` is
where the synchronous call stands: an eviction or a crash can come at each page access.
The message index is modelled as rebuilt from the pages, opening is one step, and which page is
evicted is left open.

**CodeAct.** `active`, `index`, `status`, `segment`, `ints` are Redis keys, `jobs` and `pending`
BullMQ's, `pc`, `batch`, `out` one run per job, `recalled` the tasks in memory, `router` the session that
holds a message, `cleaner` the handler of failed jobs. A task has the job ids the code builds for
it, which is what makes an addition to an existing id visible. A run may throw up to its last await, after it has stored
`done` too, and its job is then tried again (`attempts: 8`, `queue.ts:29`). `hit` remembers which tasks a fault has struck: the
one whose run throws, and at a crash all that a run, the router or the follow-up window has in hand. `Age` lets 180 s pass for a task.
What a turn does, and whether it finishes, waits or goes on in a next segment, is left open.

## 3. Runs

| Run | Question | Bounds | Distinct states |
|---|---|---|---|
| `turn_faults` | are entries neither lost nor doubled, do leases exclude, does a stranded entry keep its marks? | 2 entries, one a passive edit (scheduled quietly); 3 jobs, 1 defer job, 1 fault anywhere, lock on, 1 replay | 1.11 million |
| `turn_live` | does the path come to rest, is a stranded entry rescued? | starts with a stranded entry; a passive edit to come; 2 jobs, 1 fault | 4 312 |
| `turn_lost_wakeup` | is a wake-up ever lost? | 2 entries, 3 jobs, no faults | `NoLostWakeup` violated |
| `wait_resume` | are waits bounded, uncut, and their anchors replayed once? | 2 waits, clock to 7 s, 2 failing calls | 1.13 million |
| `generations` | is there one live generation, are entries kept and answered once? | 3 entries (an addressed edit, a message, a command), 2 turns, 1 self-continuation, shutdown anywhere, cap 1, 1 replan, 1 replay | 0.96 million |
| `burst` | is the right person answered, and the right person held back? | 2 people, bursts of 4 cut to 2 and 1 older addressed entry, 1 anchor | 2.49 million |
| `nyatdb` | are chains exact, and does a crash lose only what was not durable? | 2 chats, pages of 2, 4 messages, 2 checkpoints or restarts, then 2 trims or 1 crash | 1.49 million |
| `outbox` | are rows and debts settled for a reason, once, in order? | 2 failures, a callback, a verified end; 2 workers, batches of 2, 2 attempts, 1 fault, 1 tick during a drain | 1.05 million |
| `outbox_live` | does the outbox keep its promise in the end, are debts opened once and settled for good? | a stop, a failed end, a debt of no event; 2 workers, 1 fault, 2 ticks during a drain | 334 171 |
| `agency` | does a key act once, whatever times out or crashes? | 3 calls, 2 keys (1 observed, 1 expiring), 1 crash | 45 553 |
| `ingress` | is an update handled once, never lost silently, and settled? | 1 update, 2 webhook connections, 1 fault, 1 deploy | 93 052 |
| `codeact` | where is a message, who runs, what never starts again, for the tasks no fault has struck? | a routed and a follow-up task, 2 segments each, 1 message, 1 throw or crash while both are in their first | 1.97 million |

Every property of a run without "violated" holds there.

Why these bounds are enough. Turn path: two entries are needed for one to be
appended behind a turn that handles the other; three jobs for a closing turn,
the job it schedules and a job made by a caller with an old pointer; one fault
at every point covers each crash and lease on its own. `AloneOrPlain` keeps the two apart: faults, the defer
job and replays strike while there is one entry, two entries run without them. A second
fault, and several entries together with faults, are reached by the proofs only, which bound neither. Waits: two are needed for a job
of an older wait to fire in a newer one; the clock passes the end of both waits,
the fallback window and the anchor's expiry; the seconds 1 and 9 lie below
the minimum and above the maximum, so both clamps act; seconds stand for the code's
5 to 120 s in proportion (tolerance < minimum < maximum). Generations: two turns are
the least that supersede each other, the third entry interrupts a replan; the cap
and replan budget are 2 in the code and 1 here, which reaches every limit
earlier. Burst: the limits 30, 5 and 3 are 2, 1 and 1, so a burst of four overflows the
cut, its older part the kept entries, and two people the budget; turns are not bounded,
so every timing state a sequence of turns can leave is met.

NyatDB: pages of two messages and four messages make a chat grow to a second page, give it up and take
a freed one; two chats are needed for a page to change hands; log records are synced every second
append, so a crash finds synced and unsynced ones; two checkpoints put one before and one
after a crash. Crash properties are about logs that were never trimmed and about one crash, and
`TrimsOrFaults` cuts behaviours that have both (why: section 6). Outbox: two failures and one callback are
needed for a redelivered callback to settle a second failure, a verified end for one that settles
everything (in a drain a stop does the same; its late settling is in `outbox_live`); two workers for a lease to be taken over. Leases last one tick, and a tick during a
drain takes one over. Agency: two calls for one key race, the
third cancels or asks again. Ingress: two connections are needed for Telegram to push again while the first handler
works, one update for everything but the order of a batch: with two updates the safety
properties hold as well, in a run too long to keep. Both transports, two failovers and a wedged watchdog
are met. CodeAct: one routed and one follow-up task are needed for the lock, the index and the
router's checks to meet a second task; two segments for a hand-over; two messages, and a
third task, without which no late release can take a lock from a task that is neither old nor handed over, are covered by the theorems. `LastFaulty` lets the fault strike while no task is
beyond its first segment; the theorems have no such bound, nor one on the number of faults.

`ingress` checks deadlock: the watchdog or a timer can always go on. Elsewhere `CHECK_DEADLOCK FALSE`: a chat
without messages stops, every row, run and task can be settled, and the history
bounds end every behaviour.

## Disagreements

Modelling met statements of the repository, in comments or its README, that the code
does not keep. Each is a property at the end of its module. `NoLostWakeup` has a run of its own and stands under
"findings"; the others are reproduced by adding the property to the cfg named here (the
length of TLC's trace in brackets).

Turn path:

* `NoLostWakeup` (`turn_lost_wakeup`) - `turn-lock.ts` and `actor.ts` promise that a wake-up is not lost
  because entries are appended before they are scheduled. A caller that finds the
  job running only leaves a mark, and the turn may be past its last look, or end after
  an empty drain without one. The entry waits for the next message of the chat.
  What the code does keep is checked: `StrandedIsMarked` (the mark is up and the pointer
  names a job that is over) and, from exactly that state, `RescuedByNextMessage`.
* `ResumeHonoured` (`MCWaitFsm.cfg`, 8) - `chat-runtime.ts:202-204` names the reasons for which a resume job
  drops itself, and `README.md:164` says "wait for them to finish" genuinely resumes. The job is due at
  the moment its wait expires, and an expired wait reads as RUNNING (`state-store.ts:150-158`); so it drops
  itself unless it fires in the few milliseconds between its due time and `waitUntil`.
  `chat-runtime.ts:235-241` records 21 waits of which one was honoured.
* `DirectNotDisplaced` (`MCGenerations.cfg`, 7) - `actor.ts:367-371` promises addressed entries priority, lest
  one be displaced by a message that follows it. The priority is applied among the fresh
  entries only, and the entry under judgement is displaced by any of them (`actor.ts:403`).
* `CompanionsGoWithText` (`MCGenerations.cfg`, 7) - `deliver.ts:513` and `:552-553`: the poll and the reactions that accompany
  a text are held back until the interrupt check has passed, so that a reply that is discarded leaves no orphan; `:762`: during
  the read delay nothing has been sent, so a replay is safe. They are sent at `:664-668`, before that delay, and an interrupt or
  the broadcast during it still throws (`:767-769`, `:773-775`, `:821-829`): the entry is planned again or given back, and
  the next generation may send a second poll. `AnsweredOnce` is therefore about the text.
* `FollowGivesWay` (`MCGenerations.cfg`, 16) - `self-continue.ts:203` and `:233` say a self-continuation always gives
  way to a real reply. The check asks whether entries are pending (`:72-79`), which a turn
  that has drained them answers with no.
* `HeldAreWaitedFor` (`MCBurst.cfg`, 17) - `actor.ts:584-586`: a wait holds back only those it is for. `enterWait` merges
  the person into the stored trigger set (`state-store.ts:244-257`), and a wait that ran out unread
  leaves its set there, which `ResumeHonoured` says is the usual end of a wait.
* `DisplacedIsReanchored` (`MCBurst.cfg`, 6) - `actor.ts:499-500` and `chat-runtime.ts:271`: a replay gives way to newer messages, which are
  anchored instead. Any fresh entry makes it give way (`actor.ts:502`), an edit that cannot be an anchor
  too; then nobody is judged.

Storage, outbox and ingress:

* `ReadIsOwn` (`MCNyatDb.cfg`, 11) - `packages/nyatdb/src/engine.ts:191` says that opening rebuilds chains properly. After a kill,
  new pages whose label was never written out all carry chat 0 in the heap file, so opening chains them
  together; replay then labels each with its own chat and leaves the links, and the history of one chat runs on into
  the other's. `FoundIsOwn` (looking one message up by its number) holds.
* `TrimKeepsNewest` (`MCNyatDb.cfg` with `Keep = 2`, 26) - `engine.ts:668` says a trim keeps the last `keep` messages. A trim
  rewrites a chat from the head of the free list, so its newer pages may have lower numbers; opening chains them in the
  order of their numbers (`engine.ts:205-216`), and the next trim keeps the older messages. It holds for `Keep = 1`.
* `FailsOver` (`MCIngress.cfg`, 13) - `ingress/failover.ts:6-7`: if polling stops delivering, switch to the webhook. An error of either
  write of the switch is caught with `switching` still set and the process still running (`:121`, `:146`): the watchdog never
  looks again.
* Redelivery (no property of its own: `SettlesPerDelivery` states what holds) - `cognitive-outbox-worker.ts:2-3` demands idempotent
  handlers, and `cognitive-projector.ts:122-126` calls a callback evidence for one previous failure. A callback projected
  twice settles two failures.

CodeAct (all from `MCCodeAct.cfg`):

* `OnePerChat` (21) - `meta/meta-api.ts:259`: one in-flight CodeAct per chat. The end of a segment's run clears the lock that
  the next segment has taken under the same task id, and a second task gets in.
* `TakersAreAlive` (28) - `subagent/queue.ts:63` relies on job ids that are the segment's own. A second answer, or an
  answer in a resumed segment, adds a job whose id exists; the queue ignores it, and the task stays queued and goes on
  taking messages.
* `WaitingIsIndexed` (21) - `subagent/executor.ts:920`: while a task waits, messages reach it through the index. A follow-up
  task overwrites the index and removes it at its end.
* `InterruptsAreRead` (17) - `meta/session.ts:496-497` checks that the task is alive, since an interrupt nobody drains
  is a message swallowed. A message routed after the task's last drain is.
* `OverIsNotRetried` (14) - `subagent/queue.ts:144-146`: the failed handler stores `failed` so that nothing is routed to the
  task any more. BullMQ emits `failed` for every attempt and tries the job again (`attempts: 8`, `:29`); the run then writes
  `running` over it without having read the record (`executor.ts:347-350`). A throw after the final record
  (`executor.ts:1083-1250`) does the same to a task that is done. `StaysOver` is therefore about tasks no fault has struck.

## 4. Fairness

`turn_live`, `outbox_live`, `agency` and `ingress` need it.

`turn_live`: `Process(c)` is weakly fair for each caller: a
started `scheduleTurn` goes on (its promise is awaited), a delayed job is promoted and
taken (BullMQ's timers and a worker that is up), a turn goes through its steps and
handles its entries, a stalled job is found (the stalled check runs every two
minutes), a defer handler runs. `LeaseExpires` is fair only where it is not a
fault: Redis deletes a dead holder's key. Nothing is assumed of users
(`Append`), of interrupts (`ReplanDrain`, `Requeue`), of a gate that defers
(`DeferEntry`) or of faults. The two properties do not assume that entries keep coming
or stop coming.

`outbox_live`: time passes, and each worker's `Drain` is weakly fair: the heartbeat starts a drain
again and again, and a drain awaits its steps. The late settling of a stop is not fair, since nothing repeats it. Crashes, throws and stalls are bounded by what the
attempts can absorb or give up, not forbidden.

`agency`: each call's own `Step` is weakly fair: a live process gets on with it, and its timer
fires. An adapter owes nothing (`Deliver`, `Throw` are not fair), which is why the timeout is needed.

`ingress`: starting, the watchdog and time are weakly fair (systemd restarts the process, its
interval fires). Polling, pushing and handlers are strongly fair: each of them can be cut off by a restart,
but a transport stays up for minutes (the boot grace and the recovery time), a poll takes half a minute at most and a
push seconds, so what is possible again and again is done. Outages, crashes, failing writes and deploys are
not fair and, but for outages, bounded.

`codeact` and `nyatdb` state no liveness. A CodeAct message may wait for ever behind a task that
never ends its turn or was overtaken (see the disagreements), and the engine is synchronous.

## 5. Proofs

All theorems hold for every value of the constants that satisfies the modules'
named assumptions: the identities are disjoint and differ from `None` and `Gone`
(`SetsAssumption`), limits are natural numbers (`BoundsAssumption`), and in `WaitFsm`
the durations are too, with `MinWait <= MaxWait` (`WaitAssumption`); `NyatDb` wants `Slots`, `Keep` and
`SyncEvery` to be at least 1 (`NyatDbAssumption`). No set
needs to be finite. TLC evaluates every assumption in the runs.

| Module | Theorem | Says |
|---|---|---|
| all | `TypeCorrect`, `WaitTypes`, `TypesHold` | `TypeOK` (`Burst` states none; `NyatDb`: without faults, or through one crash of a log never trimmed) |
| `TurnSchedulerProofs` | `LockIsExclusive` | `LeaseExclusion`: with the lock on, two turns of a chat overlap only after a lease ran out |
| | `EntriesAreConserved`, `EntriesAreNotDuplicated`, `EntriesStayInOnePlace` | an appended entry is in exactly one place |
| | `StrandedEntriesAreMarked` | `StrandedIsMarked`: a lost wake-up leaves the marks that the next message reads |
| | `TurnPathImplementsEntryPath` | every step is one of `EntryPath`'s moves, or leaves the entries alone |
| `TimingProofs` | `UnqueuedWaitsAreShort`, `WaitsAreNotCutShort`, `AnchorsAreReplayedOnce` | the wait machine's promises |
| | `PeopleAreAnsweredOnce`, `LastAddresseeIsHeard`, `WaitsSilenceWaiters` | `Burst`: `OneAnswerEach`, `AddressedIsHeard`, `OnlyWaitersAreSilent` |
| `GenerationsProofs` | `OneLiveGeneration`, `RegistryHasNoGhost`, `RegistryIsExact`, `ShutdownIsComplete` | the registry's |
| | `EntriesAreKept`, `AnswersAreGivenOnce`, `StormsAreBounded` | `EntriesKept`, `AnsweredOnce`, `StormBounded` |
| `OutboxProofs` | `OneDebt`, `SettledStays`, `SettledWithReason` | `OneDebtPerEvent`, `SettledIsFinal`, `SettledForAReason` |
| | `SettlementsAreDeliveries`, `EventsInOrder` | `SettlesPerDelivery`, `InOrder` |
| | `PromiseKept` | every step is one of `AtLeastOnce`'s moves, or leaves the events alone |
| `AgencyRunsProofs` | `ReceiptsCorrect` | `ReceiptsAgree` |
| | `LedgerKept` | every step is one of `ActionLedger`'s moves, or leaves the actions alone |
| `IngressProofs` | `OnceEach`, `NothingLost` | `HandledOnce`, `NoSilentLoss` |
| `CodeActProofs` | `MessagesInOnePlace`, `RunsWorkAlone`, `StuckOnlyById`, `OverIsOver` | `InOnePlace`, `RunsAlone`, `StuckByIdOnly`, `StaysOver` |
| `NyatDbProofs` | `CleanRunsAreExact` | `CleanIsExact`: without faults a chat reads back its messages, each once, and a page is in one chain or free |
| | `KillKeepsEveryAppend`, `SyncedMessagesSurvive` | `KillKeepsAppends`, `SyncedSurvives`: what a crash may not lose |
| | `FoundMessagesAreOwn` | `FoundIsOwn`: nobody finds a message of another chat |

**What recursive functions compute.** The library's induction theorems take an operator and cannot be used here, but
well-foundedness of `<` is a statement about a relation (`NatLessThanWellFounded`, `WFMin`): any nonempty set of numbers has a
least element (`LeastNumber`). A property of a recursive function is proved from the least number for which it fails. That
is why `Only` (in `SeqOnly`) is a recursive function of the length and not `SelectSeq`; `KeptExists` shows that the function exists.

**TurnSchedulerProofs.** `TypeInv` adds to `TypeOK` that only an active defer job
is inside `scheduleTurn`, which its own steps need. `LeaseExclusion` is inductive
beside it. Conservation is not: that a new entry duplicates nothing follows from
its being unsent, hence nowhere (`Conserved` as an equivalence); a drain
replaces its turn's burst, which loses nothing only if the turn had none (`Shape`: a
burst is held in the loop only); and a finished job frees its identity, which is
safe because its turn is off. `EntryInv == Shape /\ Conserved /\ Apart`
states the three, `EntryStep` goes through the actions.

`WakeupInv` is about the wake-up: while nothing fails and something is pending, a caller is about to schedule, a job
is yet to look (`Looking`: up to its count of what is pending), or the pointer is up and either dirty or about to
be marked by a caller that found a job. The pointer, and the mark, go away only in a turn that counts afterwards. When
nobody is left the last case is all that remains, and that is `StrandedIsMarked`.

For the refinement, `EntryInv` puts the places of an entry pairwise apart, so `Placed` reads `Place(m)` back as membership
in the variables. `PathStep` then has one step per action: what it does to the five sets is the move, or
`PathStays` when it does nothing to them.

**TimingProofs**, of `WaitFsm`. `BoundedIsShort` is about the two clamps. `WaitInv` adds what a
turn carries between its commands (`Deciding`, `Queued`: before it writes a wait it has
queued the job or clamped the end) and what a handler carries (`NearItsEnd`: the
snapshot it accepted is about to end), from which the two bounds follow.
`OncePlaced` follows one anchor through its places: not yet parked, in its key,
in one handler's hand, replayed. It and `AnchorReplayedOnce` are stated for
behaviours without a failing call: the fallback for a failing `GETDEL` (read, then
delete) really can replay twice.

**GenerationsProofs.** The three invariants are only inductive together
(`RegistryInv`): a turn that registers cannot be there already by `NoGhost`, and the
broadcast reaches every live generation because of `LiveIsRegistered`. Three lemmas
(`RegisterKeeps`, `ClearKeeps`, `StayKeeps`) say what the registry's changes keep
whoever makes them; `RegistryStep` applies one of them to each action. `EntryOK` follows the entries: `IsKept` says where a
sent one is, `IsOnce` that its places exclude each other and an answered one is with its own turn only; neither
is inductive without the other, since a requeue may put an entry back only because nobody answered it. `StormInv`
counts generations against the replays and replans used so far, one more while a generation runs, so that what
is left of both limits bounds what may still start. Interrupted turns that overlap do not add up: an entry is in one
turn.

**TimingProofs**, of `Burst`. `BurstInv` says that what is left of a burst, who is held and who is judged are functions of what was
drained and of the state that was read; the rest is about those functions. `OnlyKeepsLast`, by the least length for which it fails: a filter keeps
the last element of any part of what it lets through. So giving way (`GiveWayIs`) and the cut (`CutIs`) both keep the
fresh entry that addressed the bot last. `AnchorIs` says what one group yields; `RanksIsOrder` that the order in which groups are
met has no ties, as two groups have different first entries; and of a finite set in a strict order at most
`k` elements have fewer than `k` before them (`FewBefore`, by the greatest rank), one has none (`SomeFirst`), and a direct one
comes first. `PickIs` puts the four together.

**OutboxProofs.** Lemmas say what one claim, acknowledgement, failure or projection makes of the
tables (`ClaimRows`, `AckedRows`, `FailedRows`, `ProjectOpens`, ...), so that the steps over actions never
expand two of them at once. `OneDebtPerEvent` is kept by the check of the table before a debt is opened; `DebtsStep` says
that a step opens one debt, settles some or leaves them alone. `SettledForAReason` needs `DoneIsHandled`: a row whose handler has
returned is in `handled` or `lost`. The refinement maps a settled
row to a row to a settled event; a worker whose lease ran out changes nothing, because `Owns` fails. `SettlesPerDelivery` is paid for in
advance: a claim adds an attempt, and `Paid` keeps the debts a callback settled and the workers that hold it and have yet to
handle it (`Yet`) together within its attempts. `InOrder` needs the calm it assumes at every step, with the one worker that ever claimed:
`RowsInOrder` says that whatever is ahead of a row is at least as far (`Behind`), and `DebtsInOrder` what this makes of the debts.

**AgencyRunsProofs.** `LedgerInv` says how often an action was carried out against where its claiming
call stands: only the call that claimed a key has an adapter for it, and a claim is only given to a
run nobody claimed. A late adapter after a timeout is then the action's one `Happen`. `LedgerStep` keeps it, `StepMaps`
goes through the actions with one lemma per move.

**IngressProofs.** `Passes` counts, per update, the handlers that are past the dedup check and how often it
was handled: at most one for its mark and one for each check that failed open. `Kept` says what happened
to an update that is marked, that Telegram let go of, or that lies below the next offset, and that the loop takes what it fetched in
the order it was sent. Every exit
of the process cuts all handlers, which `ExitSettles` states once for crash, switch and stop.

**CodeActProofs.** The types need `RouterHolds`: the router has a message and a task where its next
step uses them. The four properties hold through any number of throws and crashes, for the tasks that no fault has
struck, and rest on `Driven`, which says of each such task that one job at most drives it (`OneDriver`), what its record says where that job's run stands
(`JobIsRecorded`), what the router may be about to do with it (`RouterDrives`), and that a task under way is driven, about to be queued or has
had the job of its segment (`IsTracked`). A step touches one task, so `OthersUntouched` disposes of the rest, and
`DriverMoves`, `AfterMoves` and `JobQueued` are the three things that can happen to the one it touches. A fault is a step that touches nothing of the tasks it does not strike. `LockHeld` (while no
lease has run out, no task was handed over and none was struck, whoever runs has the lock) gives `RunsAlone`, `Once` (each message in one place,
and what a run is about to delete still listed) gives `InOnePlace`. The proof corrected `RunsAlone`: it used to claim that one of the two tasks
at work is old or handed over, which three tasks refute - the release of a third, a `GET` and a `DEL` with a lease running out in
between (`task-store.ts:63-67`), frees the lock of its new holder.

**NyatDbProofs.** Two invariants, one per scope of the properties; every number of chats, messages, slots, trims and
checkpoints is covered by each.

`CleanInv` is about logs in which nothing failed, trims included. `Exact` says it with sets: the free pages are the free
list, the pages that carry a chat are its chain (`Tidy`), and the messages of a chat are on its pages, each on one page and
once (`Holds`). A chain is an `IsList`: a head in the set, links that stay in it, every other page linked to, and a rank
that grows along the links, so that there is no circle. In this form a step changes a list at one place (`ListPop`,
`ListPush`, `ListAppend`), and `WalkIs` says once what the code's walk along a list yields: its pages, each once. `Chains`,
`Loose` and `Held` are what a call has done so far: a new page is in no chain until its link is logged, a message is on a page before
it is counted, and between the halves of a trim the chat has no pages and the call holds its messages. `FreeTidy` and `RewriteTidy` are
the two halves, `RelinkedTidy` and `CountIs` a restart, which builds the chains in another order.

`CrashInv` is about logs that were never trimmed, through one crash. Before it, `Durable` compares four places:
the heap the system holds may be an older image of memory, and the fsynced one of that (`Lags`); what is kept and not on a page
is in the log (`Covered`), for the fsynced heap in its synced part. A crash therefore leaves a heap and a
log that speak of the same pages (`Restorable`), whichever pages were evicted. The replay is followed record by record
(`Caught`): a page moves toward what memory held, and a message that was in the log is on its page once its record was
redone. Of a second crash and of a crash after a trim nothing is claimed: see section 6.

The walk, the freeing, the rewriting, the flattening and the replay are recursive functions in the model. There is no induction to
cite here, so each is proved by its least counterexample (`LeastNumber`), after a lemma that the function exists.

## 6. Only model-checked, and not modelled

Only checked: the liveness of `turn_live`, `outbox_live`, `agency` and `ingress`, and the disagreements. Every safety
property of the runs is a theorem. Liveness under fairness and `ENABLED` are beyond the prover and stay with TLC. No
module declares a RECURSIVE operator.

Neither checked nor proved: anything of `NyatDb` after a crash of a trimmed log, or after a second crash. The run leaves
both out (`TrimsOrFaults`, `MaxFaults = 1`) and the theorems say so; not even `TypeOK` is claimed there, since a page number may
then point beyond a file that got shorter.

Not modelled inside the modelled parts:

* Turn path - statistics and logs; the wait hints, obligations and message ids handed to the pipeline with a
  burst; the BullMQ attempt limit of defer jobs (5, not reached with one fault); stalled detection of a job whose
  worker lives (a turn above the five-minute job lock); Redis failures and the send lock in `Generations`;
  replayed waits through the Meta and Agency routes, which end in the same transition; `TURN_ABORT_ENABLED`
  off, where generations are registered and stopped by the broadcast as here (`actor.ts:267`), but no message interrupts one; the closing of workers after the broadcast;
  in `TurnScheduler`, what shutdown gives back (`actor.ts:192`, `:323`), which uses up no replay: that going round costs one
  (`ImplementsEntryPath`) is about the other ways. `Generations` has it.
* NyatDB - the optional native (Rust) engine; root pages, rings and the other primitives, which the
  host does not use; a power loss that leaves a hole of zero pages, on which opening throws; a torn record that is not
  truncated, behind which later records are lost (`wal.ts:95-113`); the loss of file names. What the crash properties
  exclude is real: the head of the free list is not logged (`engine.ts:268`), so after a trim and a crash a page may be lost or
  in two places; and a kill between the checkpoint record and ENGINE.json lets later records reuse its number, which a
  second crash may skip (`engine.ts:282`).
* Ingress - the expiry of dedup marks (24 h) and the keys of edits; the order of a batch beyond one update in the kept
  run; the HTTP server's own queue.
* Agency - invalid envelopes; several processes on one database.
* CodeAct - self-play and goal tasks, the agency transport, the in-memory fallback queue, redelivery by the attention
  queue, quote claims, the cap of 20 interrupts; a job that stalls twice (one crash); worker concurrency below the number of a
  chat's tasks. The steps of `unregisterAgentChat` and of the failed handler's helpers are one step each. The defaults are
  `AGENT_LOOP_ENABLED` off, which is `MaxSegments = 1`, and `AGENT_MAX_SEGMENTS` 10.

Not modelled at all: the components with status `not_modelled` in `PROJECT.json`. Most of the
repository by lines is prompts, model calls, text, scores, tools, admin pages and evaluation scripts:
their results are choices left open in these modules, and they share no protocol state beyond what is modelled. The
send lock, obligations and sleep debts do have one, and are small.

## 7. Plan

Done: the modules above, their runs, three abstract specifications and their refinements, the
theorems of section 5.

Next, in this order:

1. `Burst` composed with `WaitFsm`, so that the trigger set and the resume jobs are in
   one model, and in place of the open choice in `Generations`.
2. Obligations with the wait anchor: the ledger of who is owed an answer, so that whose
   anchor is replayed can be stated; the sleep debts.
