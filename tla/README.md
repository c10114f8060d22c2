# Kernex in TLA+

Kernex is a Rust runtime for AI agents: a request is enriched with what the
store remembers and with the skills it triggers, sent to a model provider (which
may call tools in a loop), and the exchange is written back. This directory holds
TLA+ specifications of the parts of it that are hard to test, the TLC
configurations that check them on small instances, and proofs checked by TLAPS.

Paths below are relative to the repository's `crates/`.

## 1. The system

| Component | Source | State | Operations | Hard because |
|---|---|---|---|---|
| Scheduled task queue | `kernex-memory/src/store/tasks.rs` | rows of `scheduled_tasks`, `task_runs` | create, claim, record a run, complete, fail, cancel, update, defer | many pollers share one table; claims expire by age; no statement says who holds a claim |
| Conversations, messages | `store/conversations.rs`, `store/messages.rs` | `conversations`, `messages` | get or create, store an exchange, find idle/active, close | several statements per operation, no transaction |
| Context building | `store/context.rs`, `context_helpers.rs` | two facts of the sender | reads history, counts, loads the overflow, asks the summarizer; advances the onboarding | reads that other turns interleave with, writes that nobody checks |
| Runtime turns | `kernex-runtime/src/lib.rs` | none of its own | `complete`, `complete_stream`, `run` | the order of guardrails, billing, storing; early returns; dropped futures |
| Store open, migrations | `store/mod.rs`, `migrations/` | `_migrations`, the schema | open | crash between a migration and its record; two processes opening at once |
| Facts, outcomes, lessons, observations | `store/facts.rs`, `outcomes.rs`, `observations.rs` | one table each, full-text indexes | upserts, soft deletes, capped lists | looks before inserts, rows that are hidden or derived |
| Consolidator | `consolidator.rs` | a lock, a time stamp | gated run, prune, loop with cancellation | early returns and aborts under a lock; deletes beside turns in flight |
| Agentic loops | `kernex-providers/src/{anthropic,openai,gemini,ollama}.rs` | the message list, token totals | request, execute tools, stop | four copies of one loop; turn and token limits; retries; the form of each API |
| HTTP retry | `http_retry.rs` | attempt counter | send with backoff | re-sends what may have been served |
| Tool executor | `tools.rs` | connected MCP servers, toolboxes | execute (hook, permission, dispatch, hook), the tools themselves, shut down | each call may end in four ways; child processes, shared files, timeouts |
| MCP client | `mcp_client.rs` | two pipes to a child process, the next id | connect, call a tool, shut down | late answers, timeouts, full pipes |
| Streaming | `anthropic.rs`, `kernex-core/src/stream.rs`, `kernex-runtime/src/lib.rs` | a decode buffer, two channels, the accumulated text | decode, forward, store | cuts anywhere; the consumer may be gone; broken connections |
| CLI providers, sessions | `claude_code/*.rs`, `opencode/*.rs`, `store/sessions.rs` | a temporary file, a session of the CLI, one row | run, resume, clean up | processes that outlive their call; a file that must outlive every resume |
| Pipelines, checkpoints | `kernex-pipelines/src/topology.rs`, `store/checkpoints.rs` | one row per phase | load, group phases, save and list checkpoints | a crash anywhere, then a resume |
| Skills, projects, provider factory | `kernex-skills`, `factory.rs`, `kernex-presets`, `kernex-runtime/src/lib.rs` | a directory of skill files | migrate, load, match, build a runtime | several hosts and installers on one directory; precedence and allow-lists |
| Sandbox, brain, adapters, core types | their crates | none that outlives a call | build policies, compute | operating-system behaviour, no state to check |

Interaction: a front end builds a runtime (configuration, store, skills,
provider) and calls `Runtime::complete`, `run` or `complete_stream`; the runtime
calls the store (SQL over a connection pool, so statements of concurrent calls
interleave), then a provider; the provider's loop calls the tool executor, which
calls hooks, permission rules, child processes and MCP clients; the result goes
back through the guardrails into the store. Pollers of the task queue, the
consolidator and callers that close idle conversations share the same store,
often from other processes. What makes each component correct is what the
hazards of `PROJECT.json` ask and the properties of section 3 say.

## 2. Modules

| Module | What it is |
|---|---|
| `ExclusiveDispatch` | what the claim protocol promises: a task has at most one owner and a settled task stays settled, unless a claim is late |
| `TaskQueue` | `scheduled_tasks` and its pollers, statement by statement, with time and crashes; implements `ExclusiveDispatch` |
| `ConversationStore` | the `conversations` and `messages` tables and their statements as operators |
| `RuntimeTurns` | the three entry points of the runtime over `ConversationStore`, next to the closers and the clock |
| `StoreOpen` | opening a store: the nineteen scripts of `migrations/`, the bootstrap of stores older than `_migrations`, crashes and races |
| `MemoryTables` | messages with their index, observations, facts, outcomes and lessons |
| `Consolidator` | the consolidator at work on `MemoryTables` |
| `Profile` | what `build_context` writes while it reads: the language and the onboarding stage of a sender |
| `TaskCreation` | the looks of `create_task` for duplicates, and the calendar of tasks that repeat on weekdays |
| `Memory` | `Consolidator`, `Profile` and `TaskCreation` together, with their fairness |
| `AgentLoop` | the tool loop of the HTTP providers, the retries of its requests and the tool executor |
| `McpClient` | the JSON-RPC client over two bounded pipes, with an external server process |
| `ToolSession` | `AgentLoop` whose remote calls go through `McpClient`; implements `AgentLoop` |
| `Dialog` | what each provider puts on the wire: the messages of every request |
| `ToolRuns` | what each tool does, between dispatch and result, to processes and to a file |
| `Streams` | the bytes of a stream, its decoder, the forwarding task, the caller |
| `CliProviders` | the providers that run a command-line agent, and the session row |
| `Pipelines` | topologies, checkpoints and a host that dies and resumes |
| `Skills`, `Startup` | the skills directory; from a configuration to the tools and servers of a request |
| `StoreProofs` | theorems about `TaskQueue`, and about `StoreOpen` |
| `RuntimeTurnsProofs`, `AgentLoopProofs`, `ToolSessionProofs`, `ToolRunsProofs` | theorems about the module of that name |
| `MemoryProofs` | theorems about `Memory` and the modules it joins |
| `ProviderProofs` | theorems about `CliProviders`, `Streams` and `Dialog` |
| `DataDirProofs` | theorems about `Pipelines`, and about `Skills` and `Startup` |
| `MC*` | the instances for TLC |

Operators marked `\* mutant` are deliberate bugs: each is a plausible mistake in
the definition below it, and the property it belongs to fails when the
definition is replaced by it (the pairs are listed in `PROJECT.json`).

### The task queue

One step is one SQL statement; `claim_due_tasks` is a single `UPDATE ...
RETURNING`, hence one action (`Claim`); `fail_task` reads and then writes, hence
two (`FailRead`, then `FailRetry` or `FailFinally`). `hold[p][t]` is what the
poller process remembers of a task it was handed and has not finished; it is
lost when the process dies (`Crash`), while the row stays claimed. Time is kept
relative to now (`due`, `claimAge`), so a `Tick` ages everything at once and no
clock has to be bounded. The columns that play no role (description, reply
target, last error) are left out. A recurring task has one abstract `Period`;
`Insert` stands for a `create_task` that found no duplicate. How it looks for
one, and what the period of a weekday task is, is the subject of `TaskCreation`.

The central question is how far `complete_task` and `fail_task` are safe, although
they look at neither the status of the row nor at who claimed it. A held row is
exactly as its holder was handed it (`HolderOwnsRow`) for as long as nobody else is
handed the task. That ends when the claim is `StaleAfter` old: nothing limits a
run to that time, nothing renews a claim, and `Claim` takes a stale row from a
poller that is slow just as from one that has died (`Overtaken`). From then on
both may record, complete or fail it. The history keeps account of it: `alone`
says of a holder that nobody has shared the task with it, `overruns[t]` counts
how often `t` was handed out under a live holder, `lost[t]` the pollers that died
after recording a run. With these the properties say exactly what is left:
`FiresOnce` one firing and one more for each of these events, `RetriesExact` an
exact count unless the task was overtaken, `SharedOnlyIfTaken` no sharing but
that, and `ExclusiveDispatch` one owner except under a late claim. That a task
has one holder at all times, which the comments of the code say, is `OneHolder`,
and a run of its own refutes it.

`TaskCreation` has the statements that `TaskQueue` joins: the two looks and the
`INSERT` of `create_task`, the three `UPDATE`s that complete a weekday task, and
the clock of days. A due date is a day, a slot of twenty minutes (two slots side
by side are within the thirty minutes of the second look) and a form: `create_task`
normalizes what it is given, but `defer_task` and `update_task` store it as it
came, so that the first look, which compares text, can miss a row that the
second finds only if its description is long enough. `fresh` marks the rows
whose `create_task` nobody came between and which nobody has changed since;
for these `NoTwins` holds. `advanced` marks the rows whose due date is what
completions made of it: after the first `UPDATE` a row is pending, perhaps on a
Saturday, and another poller may claim it and complete it before the second;
`WeekendsOff` says that once the pollers are done with it, it is not on a weekend.
A retry (two minutes from now) and a completion that is cut may leave it on one.
Descriptions are sets of significant words, claims do not go stale, and due times
near midnight are not compared across it.

### Conversations and turns

`ConversationStore` sees the tables as one sender on one channel sees them;
other senders touch other rows. A turn (`turn[w]`) goes through the statements of
`build_context`, the provider call, and the statements of `store_exchange`; it
may end at any of them (`Abort`: an error, a dropped future, a dead process).
Texts are abstracted to what the properties tell apart: `"dirty"` (a guardrail
objects), `"nonanswer"` (the provider's empty reply at its turn or token limit),
`"fine"`. The order of messages of one second is left to chance (`OrdersOf`), as
`ORDER BY timestamp` leaves it to the query plan: the two messages of one
exchange nearly always share their second, so a history may show an answer
before its question (`context.rs:55`). Three history variables (`overlap`, `cut`,
`exhausted`) and the counters exist for the properties and the bounds only.

`OneLive` and `Remembers` (the parts of `Continuity`) are stated for project keys
on which no two turns have been in flight at once. `get_or_create_conversation`
is a `SELECT` followed by an `INSERT`, so two overlapping turns can fork the
conversation; nothing in the repository promises that they do not, so this is a
limit of the property. `Remembers` has two more conditions, both
of them facts of the code: the answer's conversation is still live, and fewer than
`MaxContext` rows were stored in it since the answer, because the questions of
turns that were cut fill the history too.

### Opening a store

A script is a sequence of statements, each of which ensures, creates, drops,
copies or renames a table or adds a part to it (a column, a trigger); a table is
the set of its parts. So `Succeeds` can tell the statement that is harmless to
repeat from the one that is not (`ALTER TABLE ... ADD COLUMN`). A process dies
between any two statements, comes back, and finds the script half done and
unrecorded; another one may be a few statements behind. `born` is the version of
the file at the start: every version from none to the newest, and version 3
without `_migrations`, which is what the bootstrap of `store/mod.rs:195` looks
for. `Succeeds` is what SQLite lets through; of the columns added only one
depends on the rows: the computed default of `last_activity` in 003 (`Dated`),
which is refused when `conversations` has any (`talks`). Every process may open
every file at any time. Two facts of the code limit what can be promised, and the
properties name them. `early`: two processes were opening the file before 013 was
recorded. One of them may then have finished 013 and handed its store out while
the other, a few statements behind, copies `lessons` once more and drops it; or
the bootstrap of one looks while the other is in the middle of 003, and records
it as done. `HadConversations`: a file of version 1 or 2 with conversations is
refused by 003, whoever opens it.

### The tables, the consolidator, the profile

`MemoryTables` is about what is derived, capped or hidden: `recall` and
`noteIndex` are the full-text indexes that triggers keep, `notes` and `facts`
have deleted rows that reads must not show, `store_lesson` is a look, an insert
and a trim. `Consolidator` adds `maybe_run` (lock, time gate, session gate,
prune, stamp), `prune` by itself, and the loop of `spawn_cancellable`. A call
that fails or is aborted releases the lock and stamps nothing (`Fails`). One
behaviour is about one `area` of the tables: turns, outcomes, lessons, notes with
facts, the profile, or tasks. No statement here reads two areas, except the consolidator,
which goes from messages to outcomes; `PruneOutcomes` and `PruneMessages` each
read only their own. A turn keeps the id of its conversation while the provider
works, so it may store into one that somebody has closed meanwhile; `store_message`
does not look. Such a message is `late`, and however new, it goes with its
conversation: `RecentMessagesKept` spares every other message that is not older
than `MaxAge`.

`Profile` follows the two facts that `build_context` writes: `preferred_language`,
from detection where there is none, and `onboarding_stage`. A failed read counts
as no rows and a failed write is not noticed, as in the code; `muddled` remembers
that one of these happened, or that two calls overlapped, because "each fires
exactly once" (`context_helpers.rs`) can only hold otherwise. Even so the
introduction is not covered: it belongs to stage 0, which is no transition, and
is repeated until the sender's first fact is stored.

### The tool loop and its servers

`AgentLoop` is one `Provider::complete` with tools. The four loops are copies of
each other and differ in two places, so one module serves all: `Counted` (which
tokens count against the budget: in `openai.rs`, `gemini.rs` and `ollama.rs` cache
reads do, in `anthropic.rs` they do not) and the reply without a choice (`Empty`,
reported as `max_turns` on any turn, which `anthropic.rs` takes for an empty
text). What the budget is to count is said in `kernex-core/src/run.rs` for all
loops: billed tokens, without cache reads. So the properties are stated in billed
tokens (`fresh`): from above every loop keeps to it within one reply
(`OvershootsByOneReply`); from below three of the four do not, they stop too early
(`StopsWhenSpent` is defined and does not hold). Everything the outside world
decides is left open: what the model answers, what hooks and rules say, which
requests fail. A call is a member of `asked`, its result a record that names the
call it answers and the call whose execution gave its content, `Nothing` for an
error or a null; this is how a result that went to the wrong call can be told.
The session can be dropped at any `await` (`Drop`).

`McpClient` follows one request through `request`: `Start` takes the id, `Write`
waits while the server's stdin is full, `Skip`, `Take`, `TooLong` are one line
read each, `TimeOut` ends the reading only, as in the code. A request that times
out leaves its answer to come, and the next request finds it. After a line over
the limit a `FramedRead` ends once before it reads on (`EndsOnce`; the behaviour
of tokio-util 0.7.18, external to this repository). The server (external) reads,
answers in any order or never, writes lines that answer nothing, and dies. An
`isError` tool result is not distinguished from a JSON-RPC error: the loop
treats both as a failed call. The server also sends requests of its own, under
ids it counts itself, as the protocol lets it (`ping`): `AskIds` bounds these ids.
`read_response` compares the id and nothing else (`mcp_client.rs:359`), so such a
request can be taken for the answer; `sent` and `asks` remember which calls this
can have happened to (`Mistaken`). `Blocked` is a write that waits for room in the
pipe, with no timer.

`ToolSession` joins the two. `connect` runs while the loop is in its first
stage; `dispatch` starts a request and waits; `shutdown_mcp` kills. One server
is modelled, and nothing is assumed of it: not that it reads, nor that it
answers, nor that it keeps from asking.

`Dialog` is the other half of a loop: what goes on the wire. A message is a role
and its blocks; a result carries the tag by which its API finds the call: the
call's id (`anthropic`, `openai` and `openrouter`, which runs the same loop), the
tool's name (`gemini`) or nothing but its place (`ollama`). The six providers,
with and without tools, differ in how they put system prompt, history, calls and
results together, and each of these is an operator. `Sayable` is what is assumed
of the APIs: no calls unless tools were offered, `tool_use` only with a call, and
a reply with a call does not say that the turn has ended. A type that a tool's
parameter may have is not `null` alone (`DialogConstantsOK`): `gemini.rs` drops
`null` and keeps the first of the rest.

`ToolRuns` opens up the call itself. A process reads its stdin, prints, changes
the file, exits or does none of it; a shell or a script may leave another process
that holds its stdout (`heirs`), whether it exits or is killed, because
`kill_on_drop` kills the process that was spawned and nothing it has started.
`tokio::fs::write` truncates and fills on a blocking thread that a dropped session
does not stop (`jobs`). The file is a sequence of tokens, `Old` being the text that
edits look for. The toolbox's arguments are written before
its timeout starts (`tools.rs:543`), so `ArgSize` is within `PipeCap`: larger ones
hold the call for as long as the script does not read. `glob` searches a small
tree as `find` prints it, with the directory in front (`Base`); a pattern with a
slash or `**` becomes `./...` (`tools.rs:817`) and so finds nothing there.

### Streams and the command-line providers

`Streams` starts from bytes: the server writes lines, the network cuts them
anywhere, and the decoder (`anthropic.rs`), the task that forwards and stores
(`kernex-runtime/src/lib.rs:441`) and the caller are joined by two channels of
capacity `ChannelCap`. A wide character is two bytes, `<` and `>`; a chunk is
decoded by itself (`from_utf8_lossy`, `anthropic.rs:984`), so a character cut in
two becomes `?`s, and `DeliveredInOrder` compares texts up to that. `Break` is an
error of the connection, which includes the timeout of the whole request; a
connection that just ends is reported as `Done`, also in the middle of a text.
Only the exchange is stored: a streamed turn records no usage.

`CliProviders` has two calls for one sender. A run of the CLI is a process of its
own (`run`), because a timeout drops the future and kills nothing; it works in
the session it was given or in a copy of it (external). `files` is the temporary
directory in which a call writes its MCP configuration under the next number. A
write that fails may leave a part of the file (`WriteFails`; the next call that
meets the name takes another), and a removal that is refused is a warning and no
more (`mcp.rs:120`): `CleanUpFails` notes the call in `refused`, and `CallEnds` says
that every other call that returns leaves no file of its own.

### Pipelines, skills, startup

`Pipelines` has the loading and grouping of `topology.rs` and the rows of
`checkpoints.rs`; the host that executes the phases is external (the repository
has none) and does what the head of `checkpoints.rs` tells it to do. Phases have
distinct names, which `load_topology` does not check although the name is the
only key of a row.

`Skills` is the directory: `flat` files and `dirs`, the migration from one to the
other in the steps of the code, loading entry by entry, then the operators that
turn loaded skills and a message into tools and servers. A skill's name is the
number `name`, its files are distinct in the instance. The servers and toolboxes
of a file are the entries of a `HashMap`: a set in which no two have one name
(`OneByName`). What comes first wins, from the JSON file before the frontmatter
and from skill to skill (`Gathered`, a recursive function). `Bundles` is what
installers bring, `Settings` the configurations of each host. The migration looks
for a directory, creates it and renames the flat file into it. Installers know
nothing of flat files and migrations (`InstallSkill`): a skill that is installed
between the look and the rename of a migration of that name is overwritten. `raced`
remembers these names, the only exception in `SkillFilesSurvive`. A migration that
died after `create_dir_all`, or met a directory that an installer had made, leaves
the flat file where it is, and no later start takes it up again: the file is kept,
which is what `SkillFilesSurvive` says, but it is not loaded.

`Startup` puts
configuration, building (create the directory, open the store, load projects),
the provider factory and the enrichment of a turn on top, and what a
`ToolExecutor` makes of the result: `AllToolDefs` is what the model is offered,
`Dispatch` what runs when it calls a name. One name may come from a built-in tool,
a toolbox and several servers; all of them are offered, and `OffersAreAnswered`
(a part of `RequestIsGranted`) says which of them runs. Two skills may have one name:
`lazy_skill_directory` lists a deferred one, but `get_toolboxes_for_skill` takes
the first of that name, deferred or not and available or not, and
`RequestIsGranted` says as much of what is looked up. Names are compared in
lower case with the built-in ones only, so a server's `Read` is offered and runs
the built-in `read`.

## 3. Runs

| Run | Shows |
|---|---|
| `store` | three pollers of one task, two mishaps (a death, a task taken from a slow poller), claims that expire under slow pollers: a held row stays as its holder was handed it unless the task was taken from a live poller, firings and retries are counted, the abstract dispatch; every due task is handed out, every claim ends though its poller died. Or two processes open a store of any version and one may die between any two statements: what is handed out has the newest schema, no fact or lesson is lost, and a process is refused for one of three reasons only |
| `task_queue_overtaken` | violation: a run as long as the staleness window has two holders (`OneHolder`) |
| `store_raced` | violation: of two processes that open a new store one is refused (`RaceIsFine`) |
| `runtime_turns` | two turns through any entry point, cut anywhere, next to a closer and a timeout: exchanges are stored in pairs, exhausted runs are billed and not stored, no objectionable text is stored (`ExchangesKept`); no message is forgotten between the reads of the context; one live conversation per key, whose last answer the next turn sees (`Continuity`) |
| `runtime_turns_unscoped` | violation: a runtime without a project reads under `""` and writes under `"default"` (`PersistentMemory`) |
| `tool_session` | two turns and two calls with a server that is late, silent, noisy or dead, that stops reading, or asks something itself: each call gets its own result unless the server has used its id, hooks see exactly what ran, the billed tokens overshoot the budget by one reply at most, servers are shut down, the session implements `AgentLoop`, and it ends or waits on a full pipe |
| `tool_session_hangs` | violation: that wait has no end (`NeverHangs`) |
| `memory` | the loop and a caller of the consolidator beside turns, outcomes, lessons, observations and facts: runs are spaced, recent messages are spared, indexes and reads agree, a new lesson is among those its own cap keeps, a signalled loop exits; two overlapping calls of `build_context`: hints come in turn; and two creators, or two pollers of a weekday task: no twins, weekends off (`TasksAsAsked`) |
| `providers` | a CLI call that resumes beside one that does not, one mishap (a death, a write or a removal that fails), a temporary name that is taken: a run finds its own server file, a resume continues all the work collected, every call ends and cleans up. Or three streaming servers under every cut of the bytes, with channels of one event: events arrive once and in order, what is stored is what was sent, every stream settles. Or six HTTP providers, three turns, seven replies, three histories: every request is one the API accepts, no call is lost with its reply |
| `tool_runs` | two sessions, all eight tools, two calls: results say what happened, the process that a call spawned does not outlive it, every call returns |
| `tool_runs_glob` | violation: `**/*.rs` finds none of the Rust files that are there (`GlobFinds`) |
| `data_dir` | four topologies, two resumptions: phases run in turn, what is completed stays. Or two hosts, a data directory with flat files and directories, an installer, one death: requests offer exactly what skills declare and may run, whichever servers connect every tool offered is run by the right one, a skill file is replaced only by a migration that had looked before it came |

Where a run has an "or", its module joins parts that share no state, a behaviour
is about one of them (`part`), and the others stay in one initial state. That
leaves the number of states at the sum of the parts'.

Bounds. `store`: three pollers of one task are a slow one, the one that takes over
and one more that takes over from it; `StaleAfter = 2` ticks, `MaxMishaps = 2`;
`RetryDelay < Period` is all that the length of a tick has to respect. All
nineteen scripts, two processes, one death; rows of `conversations` matter to 003
alone, and after a race before 013 the properties claim nothing, so the run looks
no further there (`Claimed`). `task_queue_overtaken` has two tasks and two pollers.
`runtime_turns`: `MaxContext = 1` makes a conversation overflow with the first
exchange, so that two turns reach the summarizer; `MaxTicks = Timeout = 1` makes one
time out in the middle of a turn. `tool_session`: two calls, in one reply or in
two, are what a late answer and its victim take; one line per pipe, so that both
can be full; one line unasked for, noise or a request; `AskIds = {3}` is the id of
the first call's request, 1 and 2 being the handshake's; one retry; one fresh and
one cached token make the two ways of counting differ, and budgets of one and two
tell one reply from two. `memory`: a cap of one lesson and two writers make the
trim bite; `MinHours = 2` of `MaxNow = 2` lets two stamps come as close as the gate
permits; `MaxAge = 1` lets a message grow old and a turn store a late one beside
it; two turns are one that is pruned beside one that is not, or two of one
conversation (`MaxTurns`; other areas have three writes); five facts reach the
last stage of onboarding from one of two `Starts`; the tasks' week starts on a
Friday, with two mishaps (deferrals, retries, deaths), and `Plans` has two creators
with two rows, or two pollers with one. `providers`: two resumes, two sessions, one
mishap; a line limit of three bytes, which one of the scripts exceeds; three turns
are a call, its answer and one more call. `tool_runs`: one session calls
everything, the other what changes the file. `data_dir`: the contents of the files
are few and chosen to collide: a restricted skill, an open one with tools of the
same names, a deferred one, YAML, garbage, and a `toolbox.json` that tries to bring
a refused tool back.

The check for deadlock is on in `store`, `task_queue_overtaken` and `store_raced`.
Elsewhere turns, sessions, calls and writes are bounded, and a system that has
used them up stops.

Fairness, and why the code justifies it:

- `StoreSpec` (and `TaskQueue!FairSpec`): time passes; one `Resident` poller keeps
  polling, which is what a server does; a live poller goes on with a task it was
  handed. Callers, other pollers' polls and crashes are not fair.
- `ToolSession!FairSpec`: the runtime polls the loop, its timers and its pipes.
  Nothing is said of the server, neither that it answers nor that it reads; so
  `SessionEnds` is that a session ends or is for ever blocked on a full pipe.
- `MemorySpec`: a consolidation that has begun goes on; the loop's `select!` picks
  its branches at random, so the branch of a pending signal is strongly fair.
- `ProvidersSpec`: a CLI call goes on and its timers fire, while the CLI itself may
  run for ever; both tasks of a stream are spawned, so they run; the timeout of the
  HTTP client ends a connection that brings nothing; a caller that stays reads on.
  That a stream is connected at all is not assumed: `StreamSettles` begins there.
- `ToolRuns!FairSpec`: a call is polled, its timer fires, the disk answers;
  processes need not do anything. `read`, `edit` and `write` have no timeout, so
  without a disk that answers they would not return.

### Findings

Ten places where the code does something else than a text of the repository says.
`PROJECT.json` quotes each text. Five are shown by a run that violates the text:

1. Without a project, history is written where it is never read
   (`kernex-runtime/src/lib.rs:280`; `README.md:128`): `PersistentMemory`.
2. A task that runs longer than ten minutes is handed to a second poller and can
   fire twice (`store/tasks.rs:192`; `tasks.rs:167`, `019_task_runs.sql:8`, the
   changelog of 0.10.0): `OneHolder`.
3. Two processes that open a new store both run the scripts and one is refused
   (`store/mod.rs:318`; the comment at `mod.rs:119`): `RaceIsFine`.
4. A server that does not read its stdin blocks the session, because the write is
   outside the timeout (`mcp_client.rs:285`; `mcp_client.rs:267`): `NeverHangs`.
5. `glob` finds nothing for the pattern that its description offers
   (`tools.rs:817`; `tools.rs:1124`): `GlobFinds`.

Five are the exceptions that properties of passing runs have to make, by name:

6. 003 is refused on a store of version 1 or 2 with conversations
   (`003_memory_enhancement.sql:4`; `kernex-memory/README.md:14`):
   `HadConversations` in `RefusedOnlyIfDisturbed`.
7. A request of the server's with the id waited for counts as the answer
   (`mcp_client.rs:359`; `mcp_client.rs:315`): `Mistaken` in
   `AnswersReachTheirCalls`.
8. Three of the four loops count cache reads against the budget (`openai.rs:259`;
   `kernex-core/src/run.rs:44`): they stop early, so `StopsWhenSpent` fails and
   `OvershootsByOneReply` is a bound from above only.
9. Killing a shell leaves what it has started (`tools.rs:332`; `tools.rs:334`):
   `heirs` in `ChildrenFollowCalls`.
10. A migration replaces a skill that was installed after it had looked
    (`kernex-skills/src/skills.rs:50`; `skills.rs:15`): `raced` in
    `SkillFilesSurvive`.

What a reader may not expect either, but no text of the repository rules out, is
described with the modules above: the order of messages within one second,
characters cut by chunks, the repeated introduction, and a message that a turn
stores into a conversation that was closed meanwhile.

## 4. Proofs

All of them hold for every value of the constants. The assumptions are the named
`ASSUME`s of the modules, which TLC evaluates in the runs, and those said below.
Most say that bounds are numbers and that enumerated inputs have their shapes.
Those that say more: a parameter's type is not `null` alone (`DialogConstantsOK`);
a topology's phases have different names (`PipelineConstantsOK`); the servers and
toolboxes of one file have different names, as the entries of a `HashMap` have
(`SkillConstantsOK`); the built-in tools have names in lower case
(`StartupConstantsOK`); no sender starts further than their facts allow
(`ProfileConstantsOK`); the words of a description are finitely many
(`TaskConstantsOK`). No theorem assumes anything of the environment beyond these:
not how long a run takes, what a server sends, who opens a store or who installs
a skill.

Every theorem rests on an inductive invariant, which its module names and defines
before it; the paragraphs below say what it adds to the property and why.

**`StoreProofs`**, about the two modules of the store that stand alone.

`TaskQueue`: `TypeOK`, `SharedOnlyIfTaken`, `HolderOwnsRow`, `FiresOnce`,
`RetriesExact`, `TerminalIsFinal`, and that the queue implements
`ExclusiveDispatch`, for any staleness window and any finite set of pollers. None
of them is inductive: whether a held row is left alone depends on whether anybody
else was handed the task, and how often a task has fired on who may still
complete it. The inductive invariant `IInv` joins `HolderOwnsRow` and the two parts
of `RetriesExact` to `Marked` (a holder that is not `alone` has been overtaken),
`Together` (of two holders neither is), `SeenHappened` (what `fail_task` has read are
failures that there were) and a ledger, `FireLedger`: the firings there have been
and those that holders may still bring are paid for by the first hand-out, the
deaths after a recorded run and the overtakings (`Covered`); a task that is to be
handed out again has one to spare (`Spare`), and no more than `1 + overruns` pollers
hold it at once. The argument: as long as a holder is `alone` nobody has claimed
the row since, every other statement requires `pending` or a claimable row, and a
claim of the row would have marked it; hence the row changes only by the holder's
own steps. In the refinement a claim of a stale row whose holder lives is a late
claim, which `ExclusiveDispatch` allows, and the late holder's end is one too.

`StoreOpen`: `OpenMeansCurrent` and `RowsSurvive`, for any number of processes and of
deaths. `OpenInv` says of the file that every recorded
script, and every script of the version it was born with, is done (`StoreInv`:
`DoneIn`, that its parts are in their tables and what it drops or renames is
gone for good), and of a process in the middle of a script what its statements
have put there so far (`AtStatement`: `Reached`, and the rows by `RowsAt`, since
between a copy and a rename the lessons are in two places). What one statement does to
all of that is a table of its own (`Effect`); that later statements undo nothing of
an earlier script (`DoneStays`, `LaterReachedStays`) is what lets several
processes run scripts 14 to 19 side by side, and what fails before: a second
run of script 3 would drop the facts. The invariant is therefore
`~ early => OpenInv` (`UnlessEarly`): before 13 is recorded, a process that opens is
alone or `early` is set (`Alone`). A store in which all scripts are done has the
schema `Final` (`AllDoneIsFinal`), and `Newest` is that schema by an induction over
the recursive definition (`SchemaOfIs`, `NewestIs`).

`RefusedOnlyIfDisturbed`: `AtPlace` says all there is to say of
the schema between two statements of an upgrade that goes through: what came
before is done, and what is still to come has left no trace yet (`PartsToCome`,
`RowTablesToCome`), because every column and trigger is added at one place
(`PartIsAt`, `PartsApart`). There the next statement succeeds (`PlaceSucceeds`) and
leads to the next place (`PlaceSteps`, `NextPlace`), the computed default of 003
among them unless the table has rows (`Datable`). `CalmInv`: as long as nobody died,
no two were opening and the file was not an old one with conversations
(`HadConversations`), the one that is opening is at the place its record says, and
between two openings the file is of a version, recorded or not (`AtRest`).

**`RuntimeTurnsProofs`**: `ExchangesKept`, `NothingDropped` and `Continuity`, from one
`IInv` of four parts. `ExchangeInv` says what a turn has written by the stage it
is at (`StagesWritten`: nothing before its question, only its question before its
answer) and pairs the rows; what a turn has not written yet is a part of it
because the next statement depends on it. `LoadInv` says what the reads of the
context have in hand: the rows below `asOf` never change, the newest `MaxContext`
of them are in the history, and the count, which is taken later, is at least
theirs (`OverflowCounted`), so that history and overflow meet. `KeyInv`: as long
as no two turns have met on a key, one turn serves it, and the conversation that
this turn holds is the only candidate (`HoldsTheLiveOne`); a `SELECT` that finds
nothing therefore precedes an `INSERT` that makes the only one.

**`AgentLoopProofs`**, about `LoopSpec`: `LoopTypeOK`, `ResultsAnswerCalls`,
`HooksBracketRuns`, `PostsBounded`, `OvershootsByOneReply`, `OutcomeIsRight`.
Each has an invariant of its own. `CallInv`: in the middle of a turn there is a
call without a result, between turns there is none, and what has been returned
belongs to the first unanswered call. `HookInv`: what is being run was let
through. `PostInv`: a turn that is asking has used `turn` full turns and its
attempts so far. `BudgetInv`: the tokens *billed* are below the budget whenever the
model is about to be asked again, whichever loop it is, because none counts fewer
than those. `OutcomeInv`: as long as the loop runs there is no
outcome and no reply that ends it.

**`ToolSessionProofs`**, about `ToolSession!Spec`, whatever the server does. `MailInv`
says of every line and request in the pipes and in the server's hands that its id
has been given out, and that if it is the id of the request in progress it was
made for the same call (`Belongs`); the only others are requests of the server's
own, which may carry any id it has used (`Foreign`). `ReplyInv` carries this to the
reply the loop picks up: it was made for the call the loop waits for, or it has
no content and the server has used that call's id; `OwnInv` carries it on to the
results. With it every step of the session is a step of `AgentLoop` or leaves it
alone (`Refinement`; the mapping reads `waiting` as `dispatch`), so that the theorems
of `AgentLoopProofs` become theorems of the session: `OwnAnswers`,
`HooksSeeServerCalls`, `SpendingIsBounded`, `SessionOutcomes`. `NoServerLeft` needs only
the phases of the client (`PhaseInv`). That the pipes are bounded plays no part: the
proofs hold for any capacity.

**`ToolRunsProofs`**: `ChildrenFollowCalls` (`SpawnedProcessesEnd`) and `ResultIsTrue`.
`ChildInv`: the spawned process lives only while its call is at a stage that waits
for it, all it has printed is collected or still in the pipe, and what else runs
was left by a shell or a script. For files, `OwnersKnown` ties each write on a
blocking thread to its call, or to a session that was dropped; `JobsTrue` and
`FilesTrue` say that for a call nobody else came between, the file is as it was
found until its own truncation, empty until its own filling, and then what it
wrote. The proof sorts the steps into kinds (`Kinds`) by what they do to one
session's record and shows each kind to be harmless.

**`MemoryProofs`**, about `MemorySpec`, one invariant for each theorem or pair.

- `RunsAreSpaced`: `UpkeepInv`. `RunsSpaced` alone is not inductive, because the
  gap is computed when the stamp is written and the gate was passed statements
  earlier. `PastTheGate` says that whoever holds the lock and is past the gate is
  *still* far enough from the stamp in the table: only the holder writes it
  (`Guards`), and time only takes it further away.
- `RecentMessagesStay`: `AgeInv` and `LostInv`. In a closed conversation no message is
  newer than `updated_at`, except the late ones: what was stored before the close is
  no newer, because the close sets `updated_at` to its own time, and what was stored
  after it is late; hence what a conversation closed for longer than `MaxAge` holds is older
  than that, or late.
- `ReadsAgreeAlways`: the indexes step by step through the triggers; for search
  and statistics, also that a message always belongs to a conversation there is
  (`OwnerInv`).
- `HintsInTurn`: `TurnsInv`. What a call has read was once so (`ReadWasSo`), and
  what the sender once had is never taken back in `most` and `tasked`, so that a
  stage written late is still deserved; as long as nothing was muddled, at most
  one call is between its reads and its write (`OneCall`), so `onboarding_stage`
  is what the call computed from. It assumes that nobody starts further than
  their facts allow (`ProfileConstantsOK`).

- `NewLessonsStay`: `LessonInv`. As long as no lesson was reinforced since, the row
  inserted last has the greatest time and the greatest number (`OnTop`), so it is
  first in the order the trim counts in.
- `TasksStayAsAsked`: `TaskInv`. For the twins: while a call is `alone`, what it
  saw still holds (`LooksHold`), because every change of a row disturbs all calls;
  and rows as `create_task` checked them are plain in form, so that comparing text
  is comparing time (`FreshRowsDiffer`). For the weekends: a pending row that is
  due on a Saturday has a completion that has yet to look for Saturdays, one that
  is due on a Sunday has one that has yet to look for Sundays (`WeekendsAhead`);
  this survives two completions of one row in any order.

**`ProviderProofs`**, about three modules that share nothing.

- `CliProviders` (`ConfigFileKept`, `ResumesWhereItStopped`): for each call, what
  holds at each of its stages. From the creation of its name to the clean-up a
  file is its call's (`RightFile`); the run that is waited for was given that file
  and the session resumed (`RightRun`); what has been gathered is in the session
  that is resumed and in the one its run reports (`RightWork`). Sessions are known
  only once handed out (`NamesKnown`), so a new one cannot be one that is in use.
- `Streams` (`DeliveredInOrder`, `StoredIsForwarded`): the buffer holds, up to
  mangled characters, what has arrived behind the last line taken off
  (`BufferShowsTheWire`, with `Offset` the place of a line in the bytes); what the
  decoder has sent on is event by event what those lines say (`EventsFollowLines`);
  what the task has accumulated is the text of what it passed on and of what it
  holds (`TaskFollows`). No bound on the channels is used.
- `Dialog` (`RequestsAreWellFormed`, `NoCallIsLost`): the calls run are those of the
  replies heard, in order, up to the rest of the reply in hand (`CallsRun`), and
  those on the wire are the same, ahead of them or behind by one reply, depending
  on whether the provider collects results or appends them one by one
  (`CallsOnTheWire`, `ResultsOnTheWire`); every call before the one in hand has
  its result in its place (`AnswersInPlace`).

**`DataDirProofs`**, about what a runtime reads from its data directory.

- `Pipelines`: `GroupsArePlaced` is about `phase_groups` alone and holds of every
  sequence of phases; it is an induction over the recursive definition. With it,
  `PhasesTakeTurns` and `OutputsStay`: of a host at work, every phase of an earlier
  group is completed (`EarlierCompleted`), what is running is due, and a row is
  completed exactly if the host skipped it or has completed it (`WorkWritten`).
- `Skills`, `Startup`: `RequestsAreGranted` and `SkillFilesStay`, from `StartInv`. What
  a host has loaded was made by `LoadedSkill` from some files, whatever is on the
  disk now, and of any such skill `LoadedFacts` says that each of its toolboxes
  comes from an entry in force. `FirstWins` says what `Gathered` gives after each
  source, by induction over the recursive definition. The files survive because a
  host that is about to move a flat file finds no skill file in its way, or finds
  the flat file gone, or the skill file was installed after it had looked
  (`Moving`): only another host that migrates the same name, which takes the flat
  file away, and an installer, whom `raced` records, can come between.

Proved but not a property of a run: `SharedOnlyIfTaken`, `TypeOK` and
`TerminalIsFinal` of the queue, `OpenTypeOK` of the store, `ResultsAnswerCalls`,
`PostsBounded` and `OutcomeIsRight` of the loop.

Only model-checked: liveness (`DueIsHandedOut`, `ClaimEnds`, `SessionEnds`,
`SignalledLoopExits`, `CallEnds`, `StreamSettles`, `CallReturns`), which is
outside what the prover does here. Every invariant and action property of a run
that passes is a theorem. `PersistentMemory`, `OneHolder`, `RaceIsFine`, `NeverHangs`
and `GlobFinds` are violated.

Of recursion: the library's induction theorems take an operator as a parameter
and cannot be used with the provers there are. Where it mattered, for the groups
of a topology (`Push`), for `Gathered` and for flattened sequences, the induction is
done by hand over a set of counterexamples, which has a least element. Filters of
sequences are written as flattened sequences or as the least of a set of indexes,
because `SelectSeq` says nothing to the prover.

## 5. Plan

In order of what is at stake.

1. **Several MCP servers** in `ToolSession`: one failing while another is in use.
2. **Aliases, limitations and the recall sections** of the context, with what
   `SearchMessages` finds as a choice.

Both fold their instances into runs that exist (`tool_session`, `memory`), so that
the project stays checkable in minutes.

## 6. Not modelled

- Text: prompts, summaries, formatting, sanitizing, what permission patterns and
  triggers match beyond the cases that decide something, the wording of results.
- Delays: backoff and `Retry-After` change when a request is sent again, not
  whether. `is_available` probes and the signature of `bedrock.rs` have no state.
- The parsing of due times beyond the two forms; daily, weekly and monthly
  intervals, which differ by a number from the abstract one. Aliases and limitations
  are single `INSERT OR IGNORE`s.
- Aggregations and listings that only read: usage totals, the audit log, outcomes,
  lessons, checkpoints of other topologies.
- The sandbox: it hands a policy to the operating system and keeps nothing.
- Pricing, trust levels and the risk detector of the skills: data and predicates
  that no step here depends on (the detector is not called).
- The `MemoryStore` trait, the facade and the examples delegate; `kernex-brain`
  and `kernex-adapter-core` are traits without implementations; telemetry logs.
- External parts, modelled only as far as the code can tell: the model APIs, MCP
  servers, the CLI agents, SQLite's scheduling of statements, the host that
  executes the phases of a pipeline.

`PROJECT.json` lists every component with what is and is not covered, and every
hazard that no property covers with the reason.
