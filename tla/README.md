# A TLA+ model of Mesh Potato

Mesh Potato is a bot on a MeshCore radio mesh: it answers questions, plays
chess and announces road closures on up to three channels of one companion
radio. The radio is slow and shared, the people are anonymous, and the program
is one asyncio event loop with many handlers that wait at the same time. These
modules model the parts of `bot/` in which those facts meet: who may transmit
and when, how an answer is made in bounded time, what is counted, announced and
forgotten, what survives a crash, and how one run takes over from another.

Line numbers below are of the files in `bot/`.

## 1. Inventory

| Part of the system | State it keeps | Operations | Hard behaviour | What makes it correct | Model |
|---|---|---|---|---|---|
| Rate limiter (`ratelimit.py`) | a global bucket, a bucket per sender name (LRU), the congestion factor | reserve, commit, refund, set the factor, reserve a follow-up | tokens held across long awaits, eviction, changes of speed | no token is lost or created; the rate holds for every prefix | `RateLimiter`, `SendBudget`, `SendSpacing` |
| Reply queue and send path (`service.py` 138-181, 1427-1507, 2025-2176) | requests, the waiting deque, the active task, a reservation each | admit, wait, expire, hold, transmit, announce, post, shut down | every await is an interleaving point; three channels and the timers share it | one admission at a time, FIFO, nothing stale sent, nothing left behind | `ReplyQueue` |
| Congestion monitor (`utilization.py`) | window of samples, two streaks, the level, errors | poll, fail, stop | lost samples, reboots of the radio, two policies | moves only on evidence, comes back when quiet | `Utilization` |
| Loop guard (`service.py` 749-783, 1849-1864, 2130-2170) | replies per sender, last mention per sender | receive, look again after the wait, count | messages that wait together; bounded maps | a sender gets so many answers and one notice | `DirectReplies` |
| Message pipeline and generation (`service.py` 785-1150, 1288-1426, 1608-1847, `backends.py`) | the draft of the owner, its deadline, failures of the model, the topic and outcomes of each sender | receive, search, draft, shorten, reject, recover, apologise, cool down, forget | one deadline for many calls, a model that is slow or gone, facts that expire, /forget at any moment | bounded time and calls; nothing unusable or expired is sent | `AnswerPipeline` |
| Travel times (`traffic/__init__.py`) | a report of each direction, with two clocks | refresh, answer | a clock that is set, tables of which one fails | an old time is not called current | `TravelTimes` |
| Personal memory and state file (`memory.py`, `storage.py`) | rounds per person; generation and snapshot | record, expire, forget, load, save, restore | failing writes, crashes, two runs on one file, a clock set back | a /forget is final, no update is lost | `ConversationStore` |
| Chess (`chess_game.py`, `service.py` 1257-1286) | games, score, receipts in the state file | new, confirm, cancel, move, draw, resign | duplicated packets, engine failure, crash between save and send | no move twice, told what is saved | `ChessGames` |
| Traffic announcements (`traffic/channel.py`, `traffic/alerts.py`, `traffic/api.py`) | receipts, baseline, current snapshot, rejections | refresh, claim, post, restart | facts that come and go, crash around the claim | only news is announced | `TrafficAlerts`, `TrafficChannel` |
| City notices (`traffic/planned.py`, `traffic/madison.py`) | history of merged events | observe, decide, claim, inherit | articles out of order, contradictions, two sources | a cancellation reaches those who were told, and stays | `ClosureNotices`, `TrafficChannel` |
| Report pages (`traffic/channel.py` 296-396, `service.py` 1153-1232) | a cursor per sender | reports, cont | lists that change between pages and during a pause | a page counts the list it is sent with | `TrafficChannel`, radio use in `ReplyQueue` |
| Fortunes, tips, welcome, voices (`fortune.py`, `usage_tips.py`, `service.py` 438-464, 1969-2043) | last day, last slot, used tips, welcomed channels, the voice and its deadline | fire, claim, choose, post, switch, expire | restarts around a slot, clock changes | at most once per slot; a choice is not overruled | `ScheduledPosts`, radio use in `ReplyQueue` |
| Single instance (`instance.py`, `cli.py`) | the lock, its record, who was asked to end | wait, ask, kill, refuse, --stop | third parties, older versions, processes that do not answer | one process has the radio; nobody waits for ever | `SingleInstance`, `BotRuns` |
| Start and stop (`cli.py`, `lifecycle.py`, `channels.py`) | the radio's port, prepared and started channels | connect, prepare, begin, quit, crash, close | a signal or a crash at any await | the lock outlives the radio; every request ends | `BotRuns`, requests in `ReplyQueue` |
| Lookups, prompt, text checks, games of chance, console, logs, configuration | none that other parts decide on | pure functions, display, I/O | - | - | not modelled |

How they interact. Every channel has a `BotService`; all of them share one
`ReplyQueue` and one `RateLimiter`. A message becomes a task that registers in
`_request`, passes `_wait_for_admission`, does its channel's work (model, chess
engine, list of reports) while it holds a token, waits for the flood of the
question to settle, and goes through `_send`, which repeats every check that an
await may have made stale. Timers and the traffic worker enter by `_announce`,
`post_generated`, `post_usage_tip` and `post_traffic_alert`. The monitor sets
the limiter's factor. Exchanges that were sent are recorded in the memory,
which the state file copies every few seconds; chess, traffic, tips and the
welcome write their own tables of that file before they transmit, which moves
the generation that the copies are checked against. A run of the program opens
the radio only when the run before it has closed it and returned the lock.

## 2. Modules

| Module | What it models | State and actions in the code |
|---|---|---|
| `RateLimiter` | token buckets and reservations | integer units: a token is `Cost`, full speed gains 2 per tick, half speed 1. Lazy refill is kept: a bucket is brought up to date when the code touches it |
| `ReplyQueue` | the requests of all channels (extends `RateLimiter`) | `pc` is where a task is suspended; an action runs it from one await to the next. `Receive`, `Expire`, `Dequeue`, `KeepWaiting`: `_wait_for_admission`. `StartSend`, `Deliver`, `FinishSend`: `_send` before, during a pause, and its `finally`. `NextReport`, `EndBatch`: the loop over the pages of a batch. `Announce`, `Post`, `Tip`: background (a tip only at full speed, a traffic alert at half speed too). `Exit`: the `finally` of `_request` |
| `SendBudget` | abstract: one bucket, a few free follow-ups | what the radio sees of the limiter |
| `SendSpacing` | `SendBudget` and when it last sent | states the distance of replies |
| `Utilization` | `sample`, `Streaks`, `next_level`, `_sample_error`, `stop` | a sample holds differences instead of counters; duties are compared without division |
| `DirectReplies` | the count of direct replies | one action per look at the count, and one for the attempt |
| `TravelTimes` | `TrafficCache`: `parse_reports`, `refresh`, `answer` | operators and actions of a cache, at a time that its user passes |
| `AnswerPipeline` | `_handle_payload`, `_generate_fitting`, `_recover_bad_reply`, the cooldown, outcomes and topics; composes `DirectReplies` and `TravelTimes` | `work` is the owner's draft and the await it is at; an action of the loop guard is a conjunct of the step in which the code takes that look |
| `ConversationStore` | `PersonMemory`, `StateStore`, `/forget` | people as a sequence, the least recently used first; the file as generation and snapshot; several runs |
| `ChessGames` | `ChessGames.respond`, `_execute`, `save_chess`, the handler | a position is a number of moves, its outcome a choice; packets have copies |
| `TrafficAlerts` | `_refresh_511`, `eligible`, `_claim`, what a run of it begins with | a report is what one event looked like at one moment; receipts are durable |
| `ClosureNotices` | `planned.py` as operators: `same_event`, `observe`, `decision`, `claim`, `inherit_511` | a record per closure as in the code; texts are compared, never read |
| `TrafficChannel` | `refresh`, `publish_pending`, pages and cursors; composes `TrafficAlerts` and `ClosureNotices` | one poll asks both sources, whose answers come in any order; what listeners were told is a history variable beside the state of the code |
| `SingleInstance` | `__enter__`, `stop_others`, `__exit__` | `phase` is where each process is between its system calls |
| `BotRuns` | `_run`, `run_channels`, `lifecycle`; extends `SingleInstance` | the radio's port, the channels of each run, signals and crashes |
| `ScheduledPosts` | `fortune.py`, `usage_tips.py`, the welcome, the voice; extends `BotRuns` | schedulers of each run, and the tables that outlive it |
| `ReplyQueueProofs`, `SendBudgetProofs` | theorems about the queue, its order, its refinement of the budget, and the budget | section 5 |
| `AnswerPipelineProofs` | theorems about the loop guard, deadlines, texts, facts and what is remembered | section 5 |
| `ConversationStoreProofs`, `ChessGamesProofs`, `TrafficChannelProofs`, `UtilizationProofs` | theorems about the state file, the games, announcements and pages, the level | section 5 |
| `BotRunsProofs` | theorems about the radio, the handover, the posts, the turns of the tips and the voice (extends `ScheduledPosts`) | section 5 |

`MC*` modules give the constants of the runs. A definition whose comment says
*Mutant* is a wrong form of the one after it; nothing uses it but the tests of
the properties: with it in place of the right form the named property fails.

Some choices of abstraction. All messages and texts are names. What a message
asks for decides only its kind; which one it is, what a draft looks like, what
a search finds and whether the model answers is nondeterminism. In `ReplyQueue`
the length of generation and of the hold before a transmission is any number of
ticks, a radio command takes any time and may fail, and a task may be scheduled
late. `stop` of the three channels is one step: the command line stops them
together. Behaviours of asyncio that the code relies on, as that a task runs
undisturbed between awaits, are assumed: `AnswerPipeline` gives a step without
an await (`Urgent`) precedence over everything else for that reason.

`ReplyQueue` and `AnswerPipeline` look at a request from two sides. The first
knows how several requests share the radio, and treats the making of an answer
as a wait with any end. The second knows how the answer is made, and treats the
radio as something one request at a time owns, which is `OneOwner` of the first.
`TrafficChannel` and `ScheduledPosts` rest on it in the same way.

## 3. Runs

Runs take from seconds to about three minutes. "Bounds" are those that are not
bounds of the program. The type invariants of the modules that are not named
below (`PipelineTypeOK`, `ChannelTypeOK`, `PostsTypeOK` and the `TypeOK` of the
others) document the state; they were checked on these instances, and are left
out of the runs.

| Run | Question | Instance and bounds |
|---|---|---|
| `queue` | Do admissions stay exclusive and in order, does the bookkeeping agree with the tasks, are reservations fresh and the budget kept? `TypeOK`, `FreshReservation`, `OneOwner`, `QueueConsistent`, `HeldBucketKept`, `SpendsBudget`, `NoStaleSend`, `NoOvertaking` | one of seven populations, chosen at the start: two answers with a batch of up to three reports, or with an announcement; an answer with an announcement and an alert; an answer or a batch with a tip, or with a fortune. Burst of two, a queue of two, one sender bucket; clock to 3 |
| `queue_live` | Does everything come to an end? `QueueMoves`, `OwnerLeaves`, `StopDrains` | an answer and a batch; fairness of section 4 |
| `budget` | What does the abstract budget imply? `RateBound`, `Spaced` | a token of three units, burst of one; clock to 8 |
| `utilization` | Does the level move on evidence only, of both policies when it relaxes, and does it recover? `Steady`, `Recovers` | four polls to a window; quiet, busy, congested, own traffic; gaps longer than the window; no bound on the number of polls |
| `utilization_latched` | finding 1 | quiet and congested polls, errors |
| `direct_redirect` | finding 2 | four messages of one sender, a limit of two |
| `pipeline` | Is every request answered in bounded time, with nothing unusable, expired or forgotten? `LoopBounded`, `DeadlineKept`, `UsableOnly`, `RememberedHonestly`, `FactsFresh`, `Ends` | eleven scripts of up to three messages: mentions under a limit of one with maps for one name; every kind of request; three questions through the cooldown (two failures, one tick); a forecast, its follow-up and /forget. Clock to 3, the computer's clock at most one tick behind |
| `store` | Is a /forget final, is no update lost? `ForgottenForGood`, `NoLostUpdate`, `AgeRespected` | two runs on one file, three requests of which one is dropped by the gate when it is loaded, memory for one person and two rounds; one failed write, one crash or stop, one correction of the clock; other tables are written until the third generation |
| `chess` | Is a move played once, scored once, and what is told saved? `PlayedOnce`, `ScoredOnce`, `ToldIsSaved`, `NoSilentRestart` | two players, room for one, seven packets of which two come twice, two receipts kept |
| `traffic` | Is only news announced, does a cancellation reach those who were told, is a page of the list it counts? `OnlyNews`, `CityNews`, `CancelledToTold`, `NoRevival`, `OneList`, `NothingSkipped` | seven worlds: 511 alone with an equivalent and an upgrade; a closure with its cancellation, an edit and a reinstatement; 511 beside the city; sources that contradict each other; small changes and the article of the day before; readers of a changing list; a closure called off twice, with edits. One crash, clock to 4 |
| `traffic_revival` | finding 3 | the last of these worlds alone |
| `posts` | Does one process have the radio, nobody wait for ever, and is each post attempted once? `OneRadio`, `WaiterSpared`, `Handover`, `AttemptedOnce`, `TipsRotate`, `VoiceKept` | nine worlds: three runs of which one is `--stop`; an older version that a service manager starts again; two channels with a welcome, and two that are one; tips over two days with a failed commit and a corrected clock, with several topics, and without a database; the fortune; the end of summer time; the voice. Days of four units, up to three starts |

The largest are `queue` (432 thousand distinct states), `store` (324 thousand),
`traffic` (322 thousand), `pipeline` (234 thousand) and `posts` (163 thousand).
`store` has a `VIEW`: states that differ only in how often the file was written
are one, since a generation is only compared with that of the file.

Why the bounds are enough. Admission is decided by comparing the requester with
at most one owner and one head of the queue, so three requests that compete
show the requester with either, and order behind a head. The queue's limit, the
eviction of sender buckets, the capacity of the game table, the limits of the
maps, of the outcomes and of the receipts are set so low that each is reached.
The limit of all requests (`MaxRequests`) is not: beyond it a message is
dropped by the same early return as after a stop (`Overloaded`). Clock bounds leave room for a
deadline to pass during a pause and for a bucket to refill once in between. The
monitor's window is four polls instead of twelve: two, the least that
establishes it, three, the longest streak, and one to be trimmed. The safety
properties of the queue that TLC checks on one instance are proved for all
(section 5), so their runs are there to find mistakes early and to test the
mutants.

Worlds and scripts. What `pipeline`, `traffic` and `posts` explore is the union
of a few instances, chosen in the initial state: each sets one mechanism
against every interleaving, failure and restart that concerns it. Mechanisms
that share no state are not multiplied with each other. A mechanism that does
is in the same world: 511 and the city, mentions and plain messages, /forget
and a follow-up, the handover and an older version.

Restrictions of time. In `traffic` the unit of time is longer than a poll or a
radio attempt takes. In `posts` time passes where a step reads it (a run that
serves, waits for the lock or opens the radio) and a start takes some
(`rested`); `KillWait` is less than a unit. In `pipeline` a deadline beyond the
bound of the clock falls on it (`Within`), so that `Ends` is not met by the
clock having stopped.

Deadlock is checked in the queue runs. Elsewhere a behaviour really stops: the
monitor once it was stopped, the others when their bounded supply of messages,
starts and ticks is used up.

## 4. Fairness

`ReplyQueue`: weak fairness of each action of each request that a waiting task
performs when its sleep, its model call or its radio command ends, and of the
clock. asyncio runs every ready task; sleeps are bounded by `queue_tick_s`;
model calls end by `generation_deadline`; radio commands by the library's
timeout, and `_stop` cancels them. Nothing is assumed about arrivals, about the
limiter having tokens, about the monitor ending a pause, or about a stop: a
queued message may simply expire. `Announce` and `Post` need no fairness since
the properties are about the queue.

`AnswerPipeline`: weak fairness of the clock and of `Progress`, what the
program itself does next: a timer that is due fires, a radio command returns,
a ready task runs. Neither the model nor a search ever has to answer.

`Utilization`: the polling task polls forever, a poll succeeds or fails.
`Recovers` asks of the environment that polls are quiet from some moment on.

`SingleInstance`: weak fairness of the clock of those that wait, and of each
one's own look at the lock or its deadline. A process that was asked to end
need not do so, and the lock may go to others each time it is free.

## 5. Proofs

Thirty-six theorems, checked by TLAPS for every set of requests, people, packets,
reports or processes, every capacity, rate, window, deadline and clock bound
that the named assumptions of the constants allow (positive capacities, finitely
many requests, a window of the morning that ends before the evening's begins).
Each invariant below was first checked by TLC on the instances of section 3.

*The queue.* `OneOwner` and `FreshReservation` are not inductive: a request at
its exit is safe only because of what it reserved when it was admitted. The
invariant `QueueInv` adds that the place of a request fixes what it has
reserved (`ReservedByPlace`), that one request at a time is past admission
(`SingleOwner`), and that a batch between two pages has a page left
(`GapHasNext`). The heart is the lemma `NotBusy`: if `_admit` finds nobody
busy, no other request holds an allowed reservation, hence by `ReservedByPlace`
none is past admission. `QueueInvariant` shows `QueueInv` for each action;
`TypeCorrect`, `OneOwnerAlways` and `FreshReservationAlways` follow.
`NoStaleSendAlways` shows that each of the ways into a transmission passes the
checks in the same step.

*The budget.* `QueueImplementsBudget` is the refinement `SpendsBudget`. The
token that a request holds counts as credit until the attempt is charged, so
that admission, refund, and all the ways to fail are stuttering; a commit
spends it. This needs `SingleOwner`: with two tokens out, capping a refund at
the capacity would lose one. `RateBoundAlways` and `SpacedAlways` then say what
the budget means: the charged transmissions of any prefix are at most the burst
and what full speed earned, and with the default burst of one they are a full
refill apart.

*The order.* `OrderInv` adds to `QueueInv` that every place of the deque belongs
to one waiting request and every waiting request has a place, that nobody is
there twice, and that those further back were received later; two facts about
`RemoveFirst` carry it over an exit from the middle. `QueueConsistentAlways`
counts the places. For `NoOvertakingAlways`, a newly allowed reservation comes
from an admission that found nobody busy; if someone waits, the head of the
deque is the one admitted, so it waited itself and came first.
`HeldBucketKeptAlways`: the list of names changes only when somebody asks while
nobody else has a reservation, and the name asked for is the last one forgotten.

*The loop guard.* `PipelineObeysGuard` says that the long pipeline of an answer
(drafts, retries, cooldown, pauses, /forget) implements `DirectReplies`: each
action is one of the guard's or leaves its variables alone.
`LoopInv` adds to `LoopBounded` that a reply to a mention which is on the air was
within the limit when it was let go, and that it is alone there, so that nothing
is counted beside it; dropped counts only lower the bound. `LoopBoundedAlways`
thus holds of the pipeline for any limit and any capacity of the two maps.

*The rest of the pipeline.* `WorkInv` says of the owner's draft, at each await it
may be at, that a timer for that await is due by the deadline, so that the clock,
which waits for what is due, cannot pass it (`Timely`); which calls have been
paid for by an attempt, a shortening or the check of the evidence (`FewCalls`);
and what was checked before a text was chosen (`Checked`). `DeadlineKeptAlways`
and `UsableOnlyAlways` follow. For `FactsFreshAlways` the age is taken again in
the step that transmits, on the clock that the fact was stamped with
(`CacheTypeOK` types the reports of both directions and the error of the clock).
`MemoryInv`: whatever was forgotten and is still under way is silenced, and the
outcomes and the topic of a sender are of its own messages, so that a /forget
reaches them; `RememberedHonestlyAlways` follows.

*The state file.* `CopyInv`: what the file, and any other run that may write it,
knows of a run's own exchanges was in what that run saved last. Only thus is a
save that is skipped because nothing changed harmless, and nothing of what a
/forget removed left behind it (`ForgottenForGoodAlways`). `WriterInv`: a run whose
generation is that of the file is the one that wrote or read it last
(`NoLostUpdateAlways`). `AgeRespectedAlways` needs that `Only`, which selects from
a sequence by recursion, keeps exactly what passes the test; that is proved by
taking the shortest prefix for which it would fail.

*Chess.* The receipts of a player are the end of what was saved for him, as long
as it may be, and a handler that is at work is at no packet that they list: so a
packet is played again only when more than `ReceiptLimit` others came between
(`PlayedOnceAlways`). `ScoredOnceAlways` and `ToldIsSavedAlways` hold since a command
changes a copy of the session and the save replaces it whole, with the score and
the receipt. A request for a new game is dropped with the position it was made at
(`PendingInv`), which is what `NoSilentRestartAlways`, about steps, needs.

*Traffic.* `ReceiptsInv`: what was attempted is in the receipts, what the first
snapshot showed has a receipt, and there is none before it; it holds over failed
saves, crashes and new identifiers of the same event. `OnlyNewsAlways` follows.
`PagesInv`: what a reader who can go on lacks of the pages before his cursor are
at most those whose transmission failed, and the page on the air is the one his
cursor names, of the list that its number counts (`NothingSkippedAlways`,
`OneListAlways`).

*Traffic news.* The city's records are merged by `Observe`, a recursive function
over the history; what it does is proved by taking the shortest prefix for which
it would fail. `NewsInv`: whatever was announced of a closure, or is in an
attempted receipt, listeners were told (`CancelledToToldAlways`). `CityInv`: a
closure has one dated record, and that says what the city told last of it, so
that a decision to announce compares with the right thing (`CityNewsAlways`).
`RevivalInv`: who was told that a closure is called off has it from the city,
and a record that says otherwise holds the article of a cancellation and one
that is later than it or says that the closure is back; meanwhile 511's report
of it is held back, unless it shows the closure at other times or on another
segment than the record (`NoRevivalAlways`). Which texts describe the same
closure is decided by comparisons that are not transitive and can be mistaken,
so that the theorems have hypotheses about the worlds: no notice or report is
taken for another closure's (`Identified`), and a notice is taken for one of its
own, except for a cancellation without a schedule that was read before what it
cancels (`Recognised`). How notices are edited, read late, repeated, called off
again or contradicted is left open, as are crashes. The seven worlds of
`traffic` satisfy both, which TLC evaluates (`WorldsAssumption`). `NoRevival` is
as strong as the guard of `observe` allows: of several cancellations it names
any, not the one that was told. The documented stronger claim, `StaysCalledOff`,
is false of the code: finding 3.

*The monitor.* `SteadyAlways`: a streak is `Backed` by as many decisions on the
present window that left the level alone, so none that tightens is shorter than
two, and none that relaxes shorter than three. The bot has two policies, for
what it hears and for what it transmits, with a streak each. Speed comes back by
one level at a time, and only if both policies find the same window quiet.

*The radio.* `RadioInv` says which phases have the lock, which of them have made
sure that no older version runs, and that only these, or the older version,
have the radio. `OneRadioAlways` assumes of the worlds only `RunsAssumption`: at
most one version from before the lock is there at the start.
`WaiterSparedAlways` adds `RecordInv`: the file names its owner from the time it
was written until the owner is gone, which is after it has closed the lock; a
process that waits is therefore neither named nor taken for an older version.

*The posts.* `VoiceKeptAlways`: a timer that sleeps runs from the last choice, and
while it announces the reset the voice is the usual one. `AttemptedOnceAlways` is the longest argument. Offsets
are random and are drawn again by each run, so slots cannot be compared; their
configured times can (`SlotBase`): `next_fire` picks the first that is not
behind, and in the repeated hour a later day (`SlotOf`). `PostsInv` says of each
scheduler that all attempts belong to configured times before the one it plans,
up to the last slot it knows of, or to the past; of the table, that it is not
behind the attempts; and without a table, that an attempt has begun by the
clock (`Over`), and is over once no scheduler lives and time has passed (`Past`,
`rested`). The end of summer time keeps both, since what began before the
repeated hour, or in it, is before `Winter`. It has a hypothesis, `Tabled`: a
clock that is set back by hand needs a table, or a run that begins again repeats
what it posted; section 6 says where the code has none. The runs' worlds satisfy
it. A welcome is attempted only by the one run that wrote its claim.
`TipsRotateAlways` is about the order of all examples ever chosen. `RotationInv`
says of the table and of every run's copy of it that the list does not let go of
an example that was sent until its peers, or ten of them, had their turn, and
that what stands behind it in the list had its turn since. A commit before the
transmission makes this hold over failed sends and crashes. The theorem needs
that some broad examples fit the settings, as they do where the help pages fit
(`config.py` 298-304, `PostsAssumption`).

*Only model-checked.*
- Liveness: `QueueMoves`, `OwnerLeaves`, `StopDrains`, `Recovers`, `Ends`,
  `Handover`. The prover has neither fairness nor `ENABLED`.
- Traffic whose texts the comparisons mistake: outside their hypotheses the
  theorems on the city's news say nothing.
- The type invariants other than that of the queue, as they are written; the
  invariants above type what their proofs need.

## 6. Where the code and its documentation disagree

1. `utilization_latched`: `utilization.py` 192 says that stale telemetry must
   not latch the channel off forever. Polls that fail every second time never
   reach three errors in a row and never fill a window, so a paused bot stays
   paused.
2. `direct_redirect`: the manual (259-264) promises six answers and a notice,
   queued requests included. The pointer to #traffic does not look at the count
   after its wait: questions that waited together get seven answers, no notice.
3. `traffic_revival`: "A cached pre-cancellation article is not reinstatement
   evidence" (`planned.py` 196; `traffic/README.md` 262-263 asks for an explicit
   reinstatement or a newly published replacement). The guard at 195 compares
   with the date of the notice held as latest, and 199 lets any edited article
   become that one. After a cancellation of day 2 was announced, an article of
   day 0 that is edited into a cancellation takes the date back to 0; the
   article of day 1, edited next, is then later than the record and is announced
   as a reinstatement, although it is older than the cancellation that listeners
   were told. It takes both edits, and articles that keep their dates.

Met while modelling, as observations on which no property rests:

- Streaks count agreement with the same target, so a channel that alternates
  between the thresholds for half speed and pause tightens later than after two
  busy polls (`utilization.py` 113).
- A plain message takes its sender out of `_direct_last_seen` (`service.py`
  783). Mentions that were waiting are then counted without a last mention, and
  the next one meets the notice however long the sender paused (manual 262).
- "Did you answer my last message" takes the newest outcome after a refresh
  (`service.py` 913, 1333), which may be of a message that came after it.
- The confirmation of /reset may be sent after another voice was chosen while
  it waited.
- A replacement that was launched and has not opened the lock file yet counts
  as an older version, so that a bot that is shutting down ends it too; one
  that has closed the lock and is about to exit is asked to end once more. An
  older version that starts after the last look is not seen.
- The day of the last fortune is only in memory. `AttemptedOnce` holds of it
  for the repeated hour of summer time, not for a clock that is corrected to
  before the slot together with a restart. Tips rotate only as long as the
  process lives if there is no database (manual 158-160).
- If 511 drops a report between its announcement and the next poll of the city,
  or the bot crashes there, `inherit_511` finds nothing to inherit from, and
  the city's equivalent is announced as well. A closure that is reinstated may
  be announced by both sources.

## 7. Not modelled

- Wording and classification of text, prompts, `quality.py`, `guard.py`,
  `injection.py`: pure functions; the models choose their verdict.
- Lookups at other services and the parsing of feeds and articles: what they
  return is input. That a part may be missing, late or out of order is not.
- The wording of what is said of earlier outcomes, and the saved lines of a
  channel: they are input of the prompt. Which outcomes are kept, and what
  /forget does to them, is in `AnswerPipeline`.
- The chess engine. Its failure is (`ExecuteFails`).
- The checks that a process is of this user and is this program
  (`instance.py`): a process of the model is.
- `announce_once = false`, the welcome of a channel without a database, the
  preview of the city's notices.
- The console, log files, settings, games of chance.

## 8. Next

An abstract register of remembered exchanges, implemented by
`ConversationStore`. Should `planned.py` keep the latest date of a cancellation
with its record, `StaysCalledOff` becomes a passing property and takes the place
of `NoRevival`.
