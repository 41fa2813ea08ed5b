# Giabo Digital PMO — verification development

TLA+ models of the Giabo Digital PMO (a Teams bot in front of an LLM-routed
workflow graph, with marketplace billing and background sweeps), their TLC
runs, and theorems about them checked by TLAPS. Line numbers refer to the
repository's files under `src/`.

1. Inventory of the system
2. The modules and how they correspond to the code
3. What each run checks, its bounds, the fairness assumed
4. What is proved, from what, and how
5. Where the code and its own comments disagree
6. What is not modelled
7. The plan

## 1. Inventory

### Conversational part (modelled)

| Part | State | Operations | What makes it correct |
|---|---|---|---|
| Conversational blackboard (`maf_graph_state.py`) | `PMOState.event_bus`, at most 100 events; the `event_bus` table | `append_event`, `mark_event_consumed`, `persist_blackboard_event`, `record_ingress_event`; `next_proactive_target` in `app_graph.py` | only legal publisher/type pairs; the cap drops the oldest only; a mark is never lost and wakes an agent at most once |
| Triage graph (`app_graph.py`) | per run: the current executor, the `PMOState` it was sent; checkpoint files; project rows | `GatewayMiddleware`, `RouterNode`, four specialists, the PM veto (suspend, decide, commit), the PRINCE2 exception (suspend, decide, commit), `StateWritebackNode`, `run_turn`, `resume_after_veto`, `resume_after_exception`, `maybe_run_proactive_followup` | nothing a human must approve is written without the approval; LLM budget; the Friction Breaker beats the LLM; outputs tell the truth |
| Teams bot (`api/bot.py`, `api/main.py`) | one document per conversation (`pmo_state`, `pending_interrupt`) in `MemoryStorage` | `on_message_activity`, `_send_result`, `_handle_card_submission`, `_resume_pending`, `on_turn` | a click decides exactly the proposal on its card; slot and cards agree; every turn ends |
| Adaptive Cards (`ui/`) | none | render a card with kind and request id | carries back what the stale-submission check needs |
| Database middleware (`db_middleware.py`) | project, task, risk rows | `apply_baseline_change`, `commit_*` | each writes, refuses or raises, in a transaction of its own |
| Webhook simulators | none | resume a checkpoint from another process | nothing beyond the resumption |

How they interact. The bot loads a conversation's document, publishes the
message on the bus, awaits `run_turn`, sends the reply or a card, awaits
`maybe_run_proactive_followup` on its own copy of the bus, and saves the
document only when the handler returned. The graph's executors hand one
message on per run; the framework writes a checkpoint at the end of every
superstep. A suspended run survives only as such a file; a click (or a
simulator in another process) resumes it with a response. The event bus table
is written best-effort by every publisher.

What is hard about it: turns interleave at every `await`, each on its own copy
of the document; the bot and the simulators share one checkpoint directory and
look up "the newest" checkpoint after their run has suspended; the process may
die between any two executors while files, tables and the cards in Teams stay;
sends fail before or after reaching the user; each write to the database may
be refused or raise; an answer may arrive twice, late, or for another proposal.

### Commercial part (modelled)

| Part | State | Operations | What makes it correct |
|---|---|---|---|
| Billing gates (`core/billing.py`) | a tenant's plan, status, raw spend and bill | `run_billing_gates`: feature tier, project limit, reservation under the row lock, status; `reconcile_actual_cost` | what overlapping executions owe is accumulated, to the columns' four digits; the bill keeps to 2.5 times the spend but for the rounding; a rejected execution pays nothing |
| Marketplace metering (`core/marketplace_client.py`) | `token_ledger` rows and their marks; the Marketplace's accepted events | `emit_unmetered_token_ledger`: aggregate by plan and clamped hour, post in batches of 25 with three attempts, mark, one commit | no row is marked without an event; a row in the window is billed once; each row at last |
| Marketplace fulfilment (`api/marketplace.py`) | the tenant's row; the notifications of Microsoft's changes | landing page (resolve, fetch, upsert, activate, fetch again), webhook (fetch, upsert, acknowledge) | every change reaches the tenant; back to an older state only when a handler was overtaken; the landing page says success only of what is confirmed |

How they interact. The webhook's upsert changes the plan and the status that the
gates and the metering read. The metering is a script started on a schedule, maybe
while an earlier run still posts; one database session spans a whole run, so the
marks of every batch stand or fall together, while what the Marketplace has
accepted stays. The webhook answers 5xx to be sent the same notification again; it
never trusts the notification but fetches the subscription, and awaits between the
fetch and the write.

### Background part (modelled)

| Part | State | Operations | What makes it correct |
|---|---|---|---|
| Dynamic chasing (`chasing_engine.py`, `chasing_graph.py`, the daily job of `core/scheduler.py`) | last contact stamps | score, suppress or send, stamp | no second chase within 24 hours that could have been known of; the urgent first; every due task at last |
| Governance sweeps (`core/scheduler.py`) | action rows with deterministic ids; `eom_checkpoint_day` | audit, end-of-month action, sprint watchdog, per project | one row per key; one announcement per process; the end-of-month action on the right day |
| SharePoint sync (`core/sharepoint_sync.py`) | cursor, document cache | read cursor, list changes, write items, commit | the cursor passes no change that the cache does not show, but for a file that its run skipped |
| Outlook sync (`core/outlook_sync.py`) | unread flags, event rows | list, persist, mark read | at least once, never lost |
| Delta-dispatch swarm (`core/workflow.py`, `core/state.py`) | `SwarmState` | roster filter, router, parallel specialists, fold | only rostered specialists run; each answers once per cycle |
| Copilot API (`api/copilot.py`), project creation only | projects, default tenant | create | counted by the billing gates |

How they interact. Every API process runs the scheduler's jobs, so each job runs in
several processes at a time; they meet in the tables only. Chasing takes no lock;
the sweeps rely on a primary key and `ON CONFLICT DO NOTHING`; the SharePoint sync
holds one transaction, and so its row locks, from the first item to the cursor;
the Outlook poll uses the mailbox's read flag as its cursor. All publish on the
event bus with `record_ingress_event`, which may lose an event and tells so by
`False`: only the Outlook poll reads the answer.

No model is wanted for `db/models.py` and `db/session.py` (declarations; their
keys, constraints and transactions are modelled where used), the legal pages
and templates, the prompts, the Copilot app package and the evaluation scripts.

## 2. Modules

| Module | Stands for |
|---|---|
| `Blackboard` | pure operators of the bus: types, legal publishers, cap, marks, subscriptions, the table's merge |
| `HumanGate` | the abstract promise of an interrupt: act only on what was asked and permitted |
| `TriageGraph` | extends `Blackboard`; one run of the graph per element of `Runs`, one action per executor handler |
| `TeamsBot` | extends `TriageGraph`; one activity per element of `Turns`; the bot's handlers around the graph's own actions |
| `BillingGates` | the four gates around one tenant's row, one execution per element of `Sessions` |
| `Metering` | runs of the usage emission for one tenant's rows, one per element of `Emitters` |
| `Fulfillment` | one subscription and its tenant's row: the landing page's visits and the webhook's deliveries |
| `Chasing` | one project's tasks; the daily sweep's and the chasing graph's runs |
| `GovernanceSweep` | the sweeps over a roster of projects, one run at a time per element of `Sweepers` |
| `SharePointSync` | runs of the sync of one drive |
| `AtLeastOnce` | the abstract promise of a poller: settled only after delivered, and at last |
| `OutlookSync` | polls of one inbox; shown to implement `AtLeastOnce` |
| `DeltaDispatch` | cycles of `dispatch_delta` on one state |
| `TriageGraphProofs`, `TriageGateProofs`, `TeamsBotProofs`, `BillingGatesProofs`, `MeteringProofs`, `FulfillmentProofs`, `GovernanceSweepProofs`, `BackgroundProofs` | theorems (section 4) |
| `MCTriageGraph`, `MCTeamsBot`, `MCBillingGates`, `MCMarketplace`, `MCBackground` | finite instances for TLC; the last two put components that share no state side by side |

**Blackboard.** An event's uuid is abstracted to the run it was published for
and its type (no run publishes a type twice); payload and time are left out.
`append_event` keeps the newest `EVENT_BUS_MAX`; the code's exception for an
illegal publisher cannot happen at the call sites, which is the theorem
`LegalSites`. `next_proactive_target` is the position of the first unread
subscribed event, 0 for none.

**TriageGraph.** `pc[r]` is the executor that will handle the run's one message,
`st[r]` the `PMOState` in it: the graph has a single message in flight per run,
so a superstep is one handler and every `Send` is also a checkpoint (`latest`).
`"veto_pending"` and `"exception_pending"` are the idle states with a pending
request; a suspended run never moves again, and a resumption is another element
of `Runs` whose `origin` is the run whose checkpoint it restored. That is how
the code works: the checkpoint file stays, and may be resumed again. An LLM
call is one of `AttemptFails`, `LastAttemptFails` or the handler's success, which
chooses any reply of `RouterDecisions` (specialists: any `change_id`, any
subset of the payload flags). A write to the project database is made, refused
or raises; a write to the event table may be lost. The payload of a proposal, a
risk or a report is a flag or a model value: the properties ask whose it is,
not what it says. `Crash` stops the process's runs; files and tables stay.
`GetLatest` is the end of `run_turn`, a step of its own because other runs
checkpoint between the suspension and the lookup. Runs started by `Caller` are
the bot's and the two simulators', in any number of processes.

**TeamsBot.** A turn has a phase (`main_run`, `followup`, `followup_run`, `resuming`,
`saving`, or over), its copy of the document, the e_tag it was loaded with, and
the local `PMOState`. The message turn, the send, the follow-up, the click and
the save are the actions; the graph's steps of the turn's two runs happen while
it waits. `SendResult` is one action for `_send_result`'s three effects because
nothing else can run on them before the save: they are all on the turn's own
copy. `SaveChanges` may lose against a document another turn has saved in the
meantime: either outcome is allowed, so that nothing depends on the storage's
e_tag rule. `Restart` loses `MemoryStorage` and whatever is in flight.

**BillingGates.** An execution is a database session that loads the tenant, passes
the gates one statement at a time, commits, and corrects its estimate in a
second session once its model has answered. `tenant` is the committed row and
`sess[s].tenant` the session's identity-mapped copy: `CheckComputeCap` takes the
lock and charges that copy, as SQLAlchemy does for a row already loaded when no
`populate_existing` is asked for; `ComputeCapAlone` is the same function called in
a fresh session, which loads the row under its lock. `Commit` writes the two
changed columns; `Rollback` is `get_session`'s answer to a `BillingGateError`. The
Marketplace's upsert and the Copilot API's project creation change the row and
the count between any two statements. The gates have no caller outside the
tests, so callers do what the docstrings ask: commit before the model is called.
Raw amounts are counted in millionths of a dollar, the precision of a call's cost
(`token_ledger.raw_cost_usd` is `NUMERIC(12,6)`), and billed ones in halves of that,
so that 2.5 times is five times (`OVERAGE_MULTIPLIER`). Both columns of the tenant
are `NUMERIC(12,4)`: `Written` rounds each when the row is written (`Rounded`, half
away from zero, as PostgreSQL does), while the session's copy stays the exact
`Decimal`. An estimate of zero, or a correction of zero, changes nothing and writes
nothing. `charged`, what each execution has committed to pay, and `writes`, how often
the two amounts were committed, are history variables.

**Metering.** An event's quantity is represented by the set of rows it sums up, its
identity by plan and hour, which is what the Marketplace compares. `Aggregate` is
the select and the grouping; `BatchAnswered` one HTTP 200 with any mixture of
accepted, duplicate, refused, missing and unmatched items; `BatchRefused` the
`MarketplaceApiError` that ends a batch only; `TransportError` a lost request or
answer, after which the Marketplace may have taken the batch, and the third of
which leaves the loop and rolls the whole run back; `CommitMarks` the session's
commit. Marks live in the run until then. Rows of no cost are not aggregated and so
are no rows of the model; ledger ids order the rows, and with them the batches.

**Fulfillment.** `subscription` is Microsoft's, with the number of its changes as a
version that the code does not see and the properties compare; `tenant.version` is the
version the row was written from. `Upserted` is `_upsert_tenant_from_subscription`:
an unmapped status leaves `swarm_status` as it is, `trial_start_date` is set on
creation only. `Refused` is the table's `chk_trial_dates_present`. A landing goes
idle, resolved, fetched, (activating, activated, refetched), success or failed; a
delivery received, fetched, upserted. Select, write and commit of an upsert have no
`await` between them and are one step. What the request to activate does is not known
when it is answered: `Activate` only records that Microsoft has taken it (`accepted`,
history), and `MicrosoftActivates` makes the subscription `Subscribed` then, later or
never, without a notification; the second fetch may find it still pending, and
`LandingConfirm` writes what it found without looking at it. `WebhookFails` leaves the notification to be
sent again, `ReconcileMalformed` acknowledges it for good, as the code does.

**Chasing.** `score_active_tasks` reads all open tasks of the project and computes their
scores, times ten, which makes them whole numbers; `SendChase` takes the highest,
`Stamp` writes `last_contact_timestamp`, maybe in vain. `days_to_deadline` is
`timedelta.days`, which rounds down, so that a task due today has -1 days left at any
hour but midnight. `seen` and `last` are history: what a run's score was computed
from, and when a message was sent.

**GovernanceSweep.** One action per database session: the audit, the reading of the
sprints, the look-up, the insert, the event. The day is read once when a run starts.
Keys are the seeds of `deterministic_artifact_id`: project and month, or the sprint's
title alone. `ProjectFails` is the `except` around one project, `SweepStops` the end of
the process. The calendar is that of January and February 2027, with weekdays
computed as `date.weekday` does.

**SharePointSync.** An item's content is its version, the number of changes on the drive
by then; a delta link is the number of changes it covers. The rows a run has written
are `staged`, which is also its row locks: another run's `UPSERT` or `DELETE` waits,
the first that waits comes next, and PostgreSQL ends one of two that wait for each
other. A `DELETE` of a row that is not committed waits for nobody. `CommitSync`
writes rows and cursor together; a page listing without a delta link leaves the
cursor. Whether a file is skipped is up to each run: it depends on that run's
`--max-file-bytes` and on whether that answer had a download URL, so `Skip` may pass
over any file of `Skippable` whenever it is listed, and another run may cache it.
`passed`, the version of a file that a committed run had skipped and its cursor has
passed, `overtaken` and `stale` are history.

**OutlookSync.** A poll lists the unread mails, persists an event for each and marks it
read only if that returned `True`. The refinement maps arrived to the mails that are
there, delivered to those with an event, settled to those that are read.

**DeltaDispatch.** The caller sets a roster, the router's reply is any sequence of keys,
known or not, and is filtered by the roster without the excluded agents;
the framework runs those that are wired, in any order of completion; a specialist
that raises yields a failed output; the outputs are appended when all are done.

External and so modelled from their use: the agent framework (delivery of
messages, checkpoints, request/response), the LLM, PostgreSQL (transactions, row locks,
constraints), `MemoryStorage`, the Teams channel, the Marketplace's metering and
fulfilment services, Microsoft Graph, the clock and the calendar.

## 3. Runs

`CHECK_DEADLOCK FALSE` for all but the billing gates: each instance has finitely many
runs, turns, rows, changes, days or mails, and when all have been used the system
stops, as a server with nothing more to do.

### Passing

**triage_graph** (`MCTriageGraph.cfg`, about 3.4 million states). Two runs, three
kinds of entry state (fresh, one vague turn, halted tenant), seven router
replies, all faults on (event writes lost, project writes refused or raising,
three LLM attempts, reused change ids, crashes, unrecognized responses). Checks

- `TypeOK`;
- `VetoGate`, `ExceptionGate`: both interrupts implement `HumanGate`. The
  refinement maps asked to the suspended runs, answers to the pairs of a
  resumption's origin and response, acted to the origins of the writes;
- `LLMBudget`: a role makes at most three attempts per run (in `TypeOK`), in that
  order, and none for halted tenants or resumed runs;
- `FrictionOverridesRoute`: at two vague turns no specialist is reached, whatever
  the LLM or the event bus routed to;
- `ProactiveNeverDrafts`: a run woken by an event reaches no proposal;
- `OutputsAreTrue`: "committed" is only said of what was written;
- `DecisionsAreFinal`: a resumed run never suspends or re-enters the writeback.

Two runs are enough for each pair that can disturb one another: a run and
its resumption, a run and its sibling, two runs that race for the newest
checkpoint, two resumptions of one checkpoint. `EVENT_BUS_MAX = 2` lets the cap
drop events: a main run publishes up to two, its sibling two more.

**bot_interleavings** (`MCTeamsBotInterleavings.cfg`, about 1.7 million states).
Three activities on one conversation, two handled at a time, two proposals with
distinct change ids. Checks `ClickedApproval` (a write is the write of the card
clicked) and `SlotHasCard` (a saved slot can be resolved by a card the user has).
Three activities are what it takes for two proposals and a click, or one
proposal and two racing clicks; symmetry under permutations of turns and of
change ids, safety only. Concurrent handling supposes, as `api/main.py:5` says,
that the shared `Workflow` is "safely re-entrant across turns".

**bot_faults** (`MCTeamsBotFaults.cfg`, about 225 thousand states). Two activities,
two conversations, failing sends, one restart, exceptions as well as vetoes.
Checks `BotTypeOK`, the two safety properties again, and `TurnsEnd`.

Fairness. `BotFairSpec` assumes `WF(Handler(t))` for each turn: a handler that can
move, moves. This is the asyncio loop's and the framework's promise to resume a
coroutine whose awaited call has returned, and includes that an external call
returns or raises (clients have timeouts, LLM attempts are counted). Nothing is
assumed of users, of failures or of restarts. With it, a turn ends: it neither
waits for a run that raised nor for one that suspended. `AttemptFails` is counted,
so retries are not an escape from fairness.

**billing_gates** (`MCBillingGates.cfg`, about 555 thousand states). Three executions
of one tenant, one of which may run in a process with
`SWARM_ALL_AGENTS_ENABLED`, estimates and actual costs of 0 or 0.00025 dollars, which
neither column can hold (0.00025 is stored as 0.0003 and billed 0.0006 for 0.000625),
and whose corrections may be refused by the constraint on the spend; plan changes,
suspensions and projects up to one over the trial's limit. Checks

- `BillingTypeOK` (with the constraint, the spend never goes below zero);
- `BillDriftBounded`: the bill is 2.5 times the spend to 0.00015 dollars for each
  committed reservation or correction, whatever overlaps; more than the rounding of
  the two columns does not come between them;
- `ExactUnderLock`: an execution that loads the row under its lock moves the
  spend by what it owes, to half of the column's last digit;
- `OnlyAdmittedPay`: nothing is spent for a rejected or lost execution;
- `GatesAnswer`: none waits for ever for the lock, under `WF(Gate(s))`: the database
  answers each statement of a session that can proceed, and an execution passes
  the lock once, so weak fairness suffices. Deadlock is checked here.

**marketplace** (`MCMarketplace.cfg`, about 634 thousand states). Two components that share no
state: a behaviour is one of the emission or one of the fulfilment (variable
`which`), so that the run is their sum and not their product. Checks of the emission

- `MeteringTypeOK`;
- `MarkedHasEvent`: no row is struck off for an event the Marketplace never took;
- `BilledOnceInWindow`: a row that is younger than the window is in one event of a plan only;
- `RowsGetMetered`: once failures cease, each billable row is marked, one whose event was
  accepted by a run that then lost its marks included;

and of the fulfilment

- `FulfillmentTypeOK`;
- `BackwardsOnlyIfOvertaken`: an older state replaces a newer one only by a handler in
  whose back another has written since it fetched;
- `SuccessAfterActivation`: the page says success when the row is as this visit fetched
  the subscription last, and if that still was pending, Microsoft had taken the
  request to activate it before the fetch. That the activation is *confirmed* is what
  the source says and the code does not check: the run `success_is_confirmed`;
- `ChangesReachTenant`: each notification is answered, and by then its change or a later
  one has been in the row, or it was malformed, or the table refuses the trial.

Two rows, two emitters, two plans and hours 0 to 2 with a window of one hour: a row
can share its bucket or have its own, grow older than the window, and be
sent by two overlapping runs; a batch limit of 1 makes two batches of two buckets, and
two faults are a lost answer and a crash, or both attempts of a batch. One landing,
two deliveries and three changes: activation, a change and another that overtakes it.

**background** (`MCBackground.cfg`, about 520 thousand states). Five components that share no
state, again side by side. Checks

- `JobsTypeOK`, `GovernanceTypeOK`: the types, and one action row per key;
- `CooldownUnlessUnseen`, `UrgentFirst`, `DueTasksGetChased`: chasing, in a project that
  stays on the roster; tasks of a tenant that is not active (suspended, say) are outside:
  `list_active_projects` leaves its projects out, and nobody chases them meanwhile;
- `AnnouncedOncePerProcess`, `EomOnLastFriday`, `SprintsGetActions`: the sweeps;
- `CursorIsHonest`, `EventsComeTrue`: the SharePoint sync. The cursor passes no change
  that the cache does not show, but for a file that the run which passed it skipped; and
  an event that was published for a run that was rolled back comes true by a later run,
  unless that run skips the file or it is none any more;
- `ImplementsAtLeastOnce`: the polls, with their liveness;
- `OnlyRosteredRun`, `EachAnswersOnce`: the swarm.

Two tasks of unequal weight, two chasing runs, three hours twelve hours apart: a
stamp can be fresh, half a day or a day old. Days 22 and 29 (a Friday and the last
Friday of January), sprints of two projects with one title, due on 22 (overdue at
the second day) and 28. Two files with two changes and two syncs reach each overlap of
a listing, a write and a commit, and a deadlock of the two; one of the files may be
skipped by either run, the other by none. Two mails, two polls and two
faults; two cycles of up to two named agents, one of them named twice, unknown or
reserved.

Fairness of the two. `WF(Emit(e))`, `WF(RunChaser(x))` for the sweeps, `WF(RunSweep(x))`,
`WF(RunSync(x))` and `WF(RunPoll(x))` say that a scheduled job is started again and again
and that one which can go on does: the scheduler, the operator's schedule and the
event loop promise it. Nothing starts the chasing graph, so it has no fairness. For the
webhook `WF(Webhook(w))` and `WF(Deliver(w))`: handlers run, and Microsoft repeats
a notification until it is answered. None of it makes a failure, a change or a
visit of the landing page happen or not happen; failures are bounded, which is what "once
failures cease" means. In `MCBackground` the fairness of a component counts in its own
behaviours only.

### Violated: where the source says more than it does

The six runs `proposal_decidable`, `decided_once`, `woken_once`,
`own_checkpoint`, `spend_accumulated` and `success_is_confirmed` each check one statement a
comment or docstring makes; section 5 explains them. The three of the bot use `MaxLive = 1`,
one activity at a time, so that none depends on concurrent runs of the workflow. In
`success_is_confirmed` nothing fails: no call, no notification, one visit.

### Bounds

| Constant | Values | Meaning |
|---|---|---|
| `Runs`, `Turns` | 2; 2 or 3 | invocations of the workflow; activities (each owns two runs) |
| `EVENT_BUS_MAX` | 2 | 100 in the source |
| `Changes` | 1 or 2 | change ids the LLM may supply |
| `ChangeIdReuse` | TRUE for the graph, FALSE for the bot | may an id be supplied twice; the schema asks for a "Unique UUID" (`maf_graph_state.py:65`), and a reused id makes an older card match a newer slot |
| `RouterDecisions`, `EntryStates`, `Responses` | small sets | LLM replies, states callers start with, strings a card may carry |
| `MaxAttempts` | 3 for the graph, 1 for the bot | retries multiply the bot's states without touching its own |
| `PersistMayFail`, `DatabaseMayFail`, `SendMayFail` | per run | which failures are considered |
| `MaxLive`, `MaxRestarts` | 1 or 2; 0 or 1 | activities at a time; restarts |
| `Sessions`, `Costs`, `MaxProjects` | 3; {0, 250}; 2 | executions, raw costs in millionths of a dollar, projects of one tenant (2; {200}; 0 in `spend_accumulated`, where no amount needs rounding) |
| `Statuses` | active, suspended | one status that halts and one that does not |
| `Rows`, `Emitters`, `AzurePlans` | 2; 2; 2 | ledger rows, emission runs at a time, plans |
| `Window`, `MaxHour` | 1; 2 | 23 hours in the source; hours that pass |
| `METERING_BATCH_LIMIT`, `MaxAttempts` (metering) | 1; 2 | 25 and 3 in the source |
| `Landings`, `Webhooks`, `MaxChanges` | 1; 2; 3 (1; 1; 2 in `success_is_confirmed`) | visits, deliveries at a time, changes of the subscription |
| `MaxEmitFaults`, `MaxFailures` | 2; 1 | failures of any kind per behaviour |
| `Sweeps`, `Graphs`, `HoursPerTick`, `MaxTicks`, `DeadlineDays` | 1; 1; 12; 2; {0} | chasing runs; the clock; deadlines |
| `Sweepers`, `Days` | 2; {22, 29} | processes; days on which anything happens |
| `Files`, `Syncs`, `MaxVersion` | 2; 2; 2 | items, runs, changes of the drive |
| `Skippable` | {f1} | files that may exceed a run's limit or lack a download URL |
| `Mails`, `Pollers` | 2; 2 | messages, polls |
| `MaxNamed`, `MaxCycles` | 2; 2 | keys in a router's reply; dispatches |
| `MaxChaseFaults`, `MaxSweepFaults`, `MaxSyncFaults`, `MaxPollFaults` | 1; 1; 1; 2 | failures of any kind per behaviour |

## 4. Proofs

All theorems hold for every value of the constants that satisfies the named
assumptions `BusMaxPositive` (the cap is positive), `GraphConstants` (the sets
are of the right types, at least one attempt, the "no" values are not real ones),
`BillingConstants` (costs, limits and the number of projects are natural), `MeteringConstants`,
`FulfillmentConstants`, `ChasingConstants` (impact and severity from 1 to 10, as the
table's constraints say), `GovernanceConstants` (days of January and February),
`SharePointConstants`, `OutlookConstants` and `DispatchConstants` (bounds are natural, "no"
values no real ones). Two more of the conversational part are facts of the code:
`EntryStatesAwake`, that no turn starts from a state that an event has woken (the bot builds
its state without a wake reason and saves none, `bot.py:150-161`; only
`maybe_run_proactive_followup` sets one, in its own copy, and `RouterNode` clears it), and in
`BotConstants` that no `change_id` is the id of an exception, which is a fresh uuid. One
theorem, `ClickedApprovalHolds`, has a hypothesis besides: see below.

**Blackboard** (`TriageGraphProofs`). `LegalSites`: each literal publisher/type pair at
a call site of the graph and the bot is legal. `AppendKeepsNewest`: appending
yields a bus of one event more, or of the cap's length, that ends in the new event and
whose other events are the old bus's newest in their order. `MarkOnlyAdds`: a mark adds one agent to
the events with that id and changes nothing else. `OneWake`: after the mark the
event no longer is a target for its agent, so no chain of wakes on one bus
loops on one event.

**Type correctness** (`TriageGraphProofs`). `TypeCorrect == Spec => []TypeOK`.
`TypeOK` is inductive as it stands; there is one step per handler, and the
operators the handlers share (`Send`, `Yield`, `Raise`, `Persist`, `Publish`,
`Call`) have one lemma each.

**The two human gates** (`TriageGateProofs`). `GateInvariant`, then
`VetoGateHolds == Spec => VetoGate` and `ExceptionGateHolds == Spec => ExceptionGate`.
`HumanGate` is not implied by the pair of states of a step alone: that the
baseline commit node acts only on a permitted answer depends on how it came
there. `GateInv` says what is needed: an answer is recorded only for a run that
is suspended, and it stays suspended; the decision and commit nodes are reached
only with an answer; the veto node recorded `approved` only for that answer; a
run not started has neither answered nor written; and any checkpoint that is
remembered as resumable is of a run that is suspended now. The last conjunct is
what a resumption needs, whichever run's checkpoint `GetLatest` found. The proof
first states the frame of a step (`StepFrame`, `StartFrame`, `ResumeFrame`: a handler
moves only its own run and writes in its own name), then preservation per kind of
step, then maps each step to an ask, an answer, an act or a stutter.

None of this is proved of `Next` but of `Moves`: a handler of some run, a start from a
state that is not woken, a resumption of a checkpoint whose run still is suspended, a crash
or a stutter. `NextMoves` shows that the callers of `Spec` do no more, `BotMoves` that
the bot does not, so that each result holds of the graph with any callers and of the
graph inside the bot without a second proof.

**What a run may do** (`TriageGateProofs`). `RunInvariant`, and from it `LLMBudgetHolds`,
`FrictionOverridesRouteHolds`, `ProactiveNeverDraftsHolds`, `OutputsAreTrueHolds` and
`DecisionsAreFinalHold`. None of the five is inductive. `RunInv` has four
strengthenings for each run: `CallerInv`, that a resumed run is only ever behind its decision;
`WakeInv`, that a proactive run is woken until it is routed and a turn never is;
`BudgetInv`, that a halted tenant's run gets no further than the gateway and a turn at a
specialist has called the router; `OutputInv`, that nothing is written or reported before the end and a write
goes back to the answer that permits it. `StepOfRun` says what a step keeps of its own run's
state, calls and output, per handler; `OwnRunKept` and `UntouchedKept` carry the invariant
over it for the run that moves and for the others.

**The bot** (`TeamsBotProofs`). `BotInvariant` is `BotTypeOK`, `GateInv`, `RunInv` and
`DocInv`: each document, saved or in a turn's hands, is not woken (so the next turn may start
from it), holds a checkpoint whose run still is suspended (so a click may resume it), and
when its slot is filled, some card of the conversation matches it. The three are what makes
the bot's steps `Moves`, and `DocInv` in turn needs that suspended runs stay suspended
(`SuspendedStay`) and that cards are never taken back. It gives `BotTypeCorrect`,
`SlotHasCardHolds`, the gates (`BotVetoGate`, `BotExceptionGate`) and
`BotRunsKeepTheirPromises` for any number of turns at a time, failed sends and restarts.

`ClickInvariant` adds whose click it was: a card stands for one suspended run
of its conversation and carries that run's request id, and an answer is the decision of a
turn that clicked on the card of the very run that was asked. The checkpoint in the slot may
be another run's (section 5, item 5), so that the card's run and the restored run are
the same has to follow from their request ids (`ClickFindsTheRun`). It does for
exceptions, always (`ExceptionsWereClicked`). For proposals it needs that no `change_id` is
supplied twice, which the schema asks of the LLM (`maf_graph_state.py:65`) and no code
checks: `ClickedApprovalHolds` has `~ChangeIdReuse` as its hypothesis, the constant that
`bot_interleavings` and `bot_faults` set to FALSE, and what happens without is
the hazard at `app_graph.py:667`. The gates and all other theorems do without.

**Billing gates** (`BillingGatesProofs`). `BillingInvariant`, and from it
`BillingTypeCorrect`, `BillDriftBoundedHolds`, `ExactUnderLockHolds` and
`OnlyAdmittedPayHolds`, for any number of executions and any costs of up to six digits.
The drift's bound is not inductive by itself: a copy that is written may have been
loaded many commits ago. `InStep` says of the row, and of every copy, that the bill is
within the bound of 2.5 times the spend for the commits so far, and that the two are
whole column digits apart: a charge moves both in proportion and keeps the difference;
a write rounds each column and widens it by at most one more `MaxDrift`. The spend stays
natural by the table's constraint; the bill has none, and is an integer only. The invariant
adds that the lock is held exactly from the third gate to the end of the
transaction, that a copy loaded under the lock is the committed row plus its own
estimate (which is what makes it exact), and that what is charged so far is
nothing, or the estimate. No such conjunct holds for the copy of
`run_billing_gates`, which is the defect of section 5.

**Metering** (`MeteringProofs`). `MeteringInvariant`, `MeteringTypeCorrect`,
`MarkedHasEventHolds`, `BilledOnceInWindowHolds`. That marked rows have events is not
inductive by itself: a mark is made when a batch is answered and committed later, so
`MeteringInv` says the same of the marks of each run. For billing once it adds that a
bucket, sent or about to be sent, has the hour of each of its rows that still is in
the window: two events with such a row have the same hour, and with the same plan
would have the same key, which the Marketplace takes once.

**Fulfilment** (`FulfillmentProofs`). `FulfillmentInvariant`, `FulfillmentTypeCorrect`,
`BackwardsOnlyIfOvertakenHolds`, `SuccessAfterActivationHolds`. The invariant orders the
versions: what a handler saw in the row, what it fetched, what there is; and says that
after the call that activates, a subscription that still is pending, and one fetched so
since, is one whose activation was taken: no change of Microsoft's side makes a
subscription pending again.

**Governance sweeps** (`GovernanceSweepProofs`). `GovernanceInvariant`,
`GovernanceTypeCorrect`, `AnnouncedOncePerProcessHolds`, `EomOnLastFridayHolds`, for
any roster and any days of the two months. `RunOk` says of each run that the action
in its hands was not announced by its process (each announced action has a row,
and a row that is found is not announced), and that an end-of-month job has the one
action of its month exactly on the last Friday until the row is there. That the
code's formula gives the last Friday is proved of every day of the calendar.

**Background jobs** (`BackgroundProofs`).

- `OutlookInvariant` and `OutlookImplementsDelivery`: the polls implement the safety of
  `AtLeastOnce`, each step an arrival, a delivery, a settlement or a stutter. The
  invariant is that what is read or about to be marked has its event.
- `ChasingInvariant`, `CooldownUnlessUnseenHolds`, `UrgentFirstHolds`: the scores a run
  holds are those of one hour at which each of its tasks was out of its cooldown. The
  order follows because a task that is due no later has at least the same multiplier,
  whether days are left, overdue or unknown.
- `SyncInvariant`, `CursorIsHonestHolds`: the cursor's honesty is a promise that a run
  keeps only when it commits. `SyncRunOk` says what it owes until then: an item that
  changed between its cursor and its link is still in its list as it is now, or in
  its hand with the right content, or staged right, or as the cache has it, or a
  file that this run has skipped in its present version; and nothing of it is at two places. A change of the drive comes
  after every link, so it is nobody's debt; a commit makes the other runs overtaken,
  and of those the property asks nothing.

- `DispatchInvariant`, `OnlyRosteredRunHolds`, `EachAnswersOnceHolds`: in a cycle the agents
  that have answered are those chosen and no longer running, each once. What the router's
  comprehension keeps of a reply is computed by recursion over the reply
  (`safe_selection`); that it names rostered agents only is proved for replies of any length.
  The library's induction theorems take an operator and cannot be used, but well-founded
  minimality takes a set: `UpTo` derives from `WFMin` an induction in which a set stands for
  the predicate, and `SelectionDefined` and `SelectionRostered` use it.
- `JobsTypeCorrect`: in the composition of the jobs that `MCBackground` checks, each
  keeps its own types; the conjunction of the invariants is inductive for the sum of the jobs.

What is left to TLC. Liveness under fairness is out of the prover's reach: `TurnsEnd`,
`GatesAnswer`, `RowsGetMetered`, `ChangesReachTenant`, `DueTasksGetChased`,
`SprintsGetActions`, `EventsComeTrue` and the fairness part of `ImplementsAtLeastOnce`,
whose safety part is `OutlookImplementsDelivery`. Every invariant and every safety action
property that a passing run checks is stated by a theorem.

## 5. Where the source disagrees with itself

1. `app_graph.py:1308` says a proposal is always vetoed by a human and then
   committed or rejected. The bot keeps one pending slot per conversation
   (`bot.py:165`) and overwrites it: with a second proposal, or the exception
   of its own proactive follow-up, the first card is refused as stale for ever
   (run `proposal_decidable`).
2. `bot.py:252` promises to fail closed on double-clicks. The slot is cleared in
   the turn's copy after the resumption and saved only when the reply was sent,
   so a failed reply, or a second click before the save, makes the baseline be
   written twice (run `decided_once`, shown with a failed reply).
3. `maf_graph_state.py:276` calls the mark a one-wake loop breaker. The mark is put
   into the sibling run's copy of the bus; the bot saves its own, unmarked one
   and wakes the same agent on the same event at the next message (`woken_once`).
4. `bot.py:10` says that `vague_turns` survives across turns. Only a veto's bus,
   change and flag are merged back (`bot.py:134`), so the count never reaches the saved
   document and the Friction Breaker cannot fire from the bot over several
   messages. This has the cause of item 3 and needs no interleaving, so it has no
   run of its own: `_send_result` is what to read.
5. `app_graph.py:1382` says `run_turn` returns the checkpoint to resume. It looks up
   the newest of any run of the workflow, which another process (a simulator)
   or a concurrent turn may have written (`own_checkpoint`). The gates hold all
   the same: the framework refuses a request id the checkpoint does not hold,
   and where ids are reused the answer counts for the run it restores.

6. `billing.py:221` promises that concurrent executions cannot both charge a stale
   spend. `run_billing_gates` loads the tenant before the lock (`billing.py:303`) and
   the locking select leaves a loaded object as it is, so one of two overlapping
   reservations is lost (`spend_accumulated`). The function on its own is exact to
   the column's precision, which is proved.
7. `api/marketplace.py:188` says that the landing page fetches the subscription again "to
   confirm activation succeeded before telling the customer they're provisioned", and the
   comment at 204 that the status is "not what we hope just happened". The status fetched
   is written to the row (206-208), and the page says success whatever it is
   (230-239): when Microsoft has taken the activation but not done it yet, the row says
   provisioning and the customer is told to be all set (`success_is_confirmed`).

Weaknesses nothing in the source speaks against are listed as hazards, with the
property that says how far it goes, or without one. For instance:

- `ExceptionCommitNode` reports a risk as committed whatever the write returned
  (`app_graph.py:965`), which is why `OutputsAreTrue` leaves that path out.
- Both amounts of a tenant are `NUMERIC(12,4)` and rounded whenever they are written
  (`core/billing.py:233`, `db/models.py:164`): a first reservation of 0.0001 is billed
  0.0003, and such differences add up over reservations and corrections.
  `BillDriftBounded` says by how much at most; a cost below 0.00005 vanishes from the spend.
- A file that a run skips, for its `--max-file-bytes` or for want of a download URL, is
  "skipped entirely for that run" (`core/sharepoint_sync.py:15`, `405`), but the run's cursor
  passes it (`340`), and later runs list it only when it has changed again: what
  the cache shows of it stays old, or nothing. `CursorIsHonest` says that this is the
  only way for it, unless two runs overlap.
- A row that joins an hour whose event was already accepted is answered Duplicate and
  marked with it, and never billed (`marketplace_client.py:481`): `BilledOnceInWindow`
  bounds the bill from above only.
- Two deliveries may write in the other order than they fetched
  (`api/marketplace.py:295`). The next notification repairs it, if there is one;
  `BackwardsOnlyIfOvertaken` says that nothing else does such harm.
- A paid tenant that moves to a trial plan has no `trial_start_date`; the table refuses the
  upsert and the notification is sent again for ever (`TrialRefused`).
- `update_operation_status` may raise a transport error that the webhook does not catch
  where it catches `MarketplaceApiError` (`api/marketplace.py:316`): the notification is
  repeated, which is harmless.
- An action's event is lost when the process stops between insert and publish
  (`core/scheduler.py:257`), and two projects whose sprints have one title share one action
  (`core/scheduler.py:276`).
- Of two SharePoint runs that overlap, the one that commits last may set cursor and rows
  back to an older listing (`stale`); a cursor that was set back lists those items again.

## 6. Not modelled

Prompts, reply texts, card layout, logging, payload fields and timestamps (no
property is about them); `message_history`; activities without text or with an
unknown action (they change nothing); the column allow-lists of
`db_middleware`; the HTTP server and authentication of `api/main.py`; the brief and the
telemetry of `api/copilot.py`, single read-only transactions rendered as text;
`get_operation` of the Marketplace client, which has no caller; the
`CHASE_SUPPRESSED` events, which nothing reads; the specialists of the swarm, which
are callers' functions; the table declarations, the legal pages, the Copilot app package,
the evaluation harness and the scripts, which have no state of the program.

## 7. Plan

Done: the conversational core, the commercial part and the background jobs, and a theorem
for every safety property a passing run checks. What is left:

- Theorems: that the composed instances of `MCMarketplace` and `MCBackground` keep all their
  components' invariants, not their types only; the safety halves of liveness properties (for `EventsComeTrue`, that
  an event of a run that was rolled back is still owed).
- The hazards without a property: the event log against the project rows after a
  refused write, the exception path's outputs, an unread event dropped at the cap, two proposals with one id on the bot's
  side, a suspension between a gate's reading and its lock, and the lost event of an
  action. They need a table of projects and tasks, and readers of the event table.
