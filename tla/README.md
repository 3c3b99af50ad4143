# A verification development for manfred

manfred is a chat service in Python (FastAPI, asyncio, SQLite): users talk to a
root agent, which calls tools, remote MCP servers and other agents, waits for
humans, and keeps a memory of what was said. This directory holds TLA+ modules
translated from its source (`src/app`), TLC instances that check them, and
TLAPS proofs about them.

    tlc -workers 2 -config MCRunner.cfg MCRunner.tla      # check an instance
    tlapm Runner_proofs.tla                               # check the proofs, so each *_proofs.tla

`PROJECT.json` lists the components, the runs, which lines each definition
stands for (`map`), the hazards of the code with the properties that would
catch them, and for each property a mistake in the code that it notices
(`mutants`). The mistakes are the operators under a `Wrong:` comment in the
modules; they take no part in a specification.

## The system

| component | state | operations | module |
|---|---|---|---|
| agent loop, `runtime/runner.py` | rows of agents and items; stack of `run_agent` coroutines | run, deliver a result, propagate it upwards, cancel, fail | `Runner` |
| call ledger (abstract) | calls issued, outputs | issue, settle | `CallLedger` |
| transcript and rewind, `chat_service.py`, `runner.py`, the item and queued input repositories, `_build_messages` | items by sequence and by creation time; queued inputs | store, queue, consume, rewind, build a prompt, answer a request | `Transcript`, on top of `Runner` |
| chat service, `services/chat_service.py`, `runtime/cancellation.py`, `container.py` | one SQLite transaction per request; `ActiveRunRegistry` | chat, edit (both also streamed), queue, deliver, cancel | `ChatService` |
| streaming run, `run_agent_stream` and `providers/openrouter_provider.py` | reader thread and its queue, partial text, tool events | read, take, send, execute, cancel in each phase | `StreamRun` |
| observational memory, `services/memory/`, `events/subscribers/`, `services/lock_service/`, and the trimming of prompts in the runner | `memory.md` per agent name; cursor per session; a lock per name | observe, summarize, reflect, trim | `Memory` |
| MCP client, `mcp/client.py` | `_pending`, request ids, write lock, reader task, process | start, call, time out, cancel, read, close | `McpClient` |
| agent filesystem, `services/filesystem/` | files; what each agent has read of them | read, search, write with a checksum, manage | `Filesystem`, with the edits of texts in `TextEdits` |
| agent templates, `agent_template_service.py`, `agent_loader.py`, `api/v1/agents/api.py` | one folder with one file per template; rows of sessions and root agents | create, update, delete, get, list, seed, resolve | `AgentTemplates` |
| session queries, `session_query_service.py` | none | list the sessions of a user or of an agent, show one | `AgentTemplates` |
| workspaces, `workspace_layout/` | directories per user and session | seed the default agents; where a mount is | `AgentTemplates`, `Filesystem` |
| model catalog, attachments, event bus and log subscribers, domain tools, configuration | | | not modelled, see the end |

How they interact. A request of the API opens a database session
(`container.py`), and `ChatService` stores its input, registers the run, and
calls the `Runner`. The runner awaits the provider, tools and the MCP client,
and calls itself for a delegated agent. At the end the service commits.
Another request of the same event loop can get in wherever one awaits: it may
set the run's cancellation signal through the registry, or be refused because
the database is locked. A turn emits an event; a subscriber starts a background
task that observes what is *committed*, calls a model and appends to
`memory.md`, which the runner reads into the next prompt. The routes of
`/agents` and `/users` are plain functions, which the server runs in threads:
they read and write the templates' files next to chats that resolve them, and
delete or read rows under SQLite's locks. The tools of an agent work on the
files of its user, which agents of other sessions share.

What is hard here:

- answers to one tool call can come from a tool, a child agent, a delivery by a
  human hours later, or a child's result that travels up a tree of agents;
- a run keeps SQLite's write lock across all its awaits, and every way out of
  it (return, exception, cancel, client gone, generator dropped) has to give
  back the lock, the registry entry and the waiting canceller;
- a transcript has two orders, the sequence numbers of each agent and the time
  at which items were made, and a queued message stands differently in the two;
- requests are cut off between two commits, and nothing is repaired at start-up;
- background observations run next to chats that they cannot see, and write a
  file and a row that are not one transaction;
- responses of an MCP server are late, double, out of order, or never come;
- files are shared by agents whose view of them is old, and by threads that may
  stop between two system calls.

What makes the components correct: a call has one output, in the transcript it
belongs to (`Runner`), and a prompt has each result behind its call
(`Transcript`); whatever waits can be woken (`Runner`, `ChatService`); a request
is answered with what its run stored, and a queued message is taken once
(`Transcript`); only what ended is committed, and acknowledged messages are kept
while others leave no trace (`ChatService`); the lock and the registry follow
the runs that are going (`ChatService`); the memory loses nothing and is never
behind the cursor (`Memory`); a response reaches its request, and each request
ends (`McpClient`); no careful write undoes another's (`Filesystem`); a saved
template is read back whole, and an agent in the database has one
(`AgentTemplates`).

## The modules

### Runner

One action is the code between two points where `runner.py` awaits something
that suspends, or where one of its functions hands over to another.
`pc` says where the `run_agent` of an agent stands, `current` is the top of the
stack of nested coroutines, `todo` are the calls of a response that are not
handled yet, `waits` the waits that the turn is collecting. `status`, `waiting`,
`parent`, `source`, `depth` and `log` are columns of the agent and item rows
(`log` has function calls and their outputs only). Some things the reading of
the code settled:

- Handlers of `ask_user`, `message` and `delegate` do not suspend, so that a
  cancellation cannot arrive inside them: it arrives at a provider call, a sync
  tool or an MCP call (`Awaiting`).
- A delivery to an ancestor of the agent that waits has the effect of the
  delivery to that agent.
- The early return of `run_agent` for a waiting agent, and the branch for an
  unknown tool type, are unreachable.
- `Enqueue` happens between requests only: a running request holds the write
  lock, so that `queue` is refused (module `ChatService`).
- Call ids are taken to be unique, as a provider makes them. `turn_count`, token
  usage, texts and events are left out.

`CallLedger` is what the runner promises about calls: issued once, settled at
most once, the output never moved. `LedgerSpec` says that `Runner` implements it
under the mapping at the end of the module.

### Transcript

Extends `Runner` by what the rows of items hold: kind, call, sequence number (the
place in `items[a]`) and `at`, the `created_at`. Each action of the runner is
taken with what it stores (`Store`), so that `log` stays what `LogOf` makes of
`items`. `Edit` is `_prepare_edit_setup` with `_rewind_session_from_item`: it
cuts the transcripts of all agents at one time, deletes agents that keep no
item, ends the waits of the others and clears the queue. `Messages` is the
prompt that `_build_messages` makes, `PlainAnswer` and `FullAnswer` are the two
forms of `_build_chat_output`, `AnswerWaits` the waits they name.

A request runs alone: a run writes its first row, which takes SQLite's write
lock until the commit, before it suspends for the first time. A request that
writes meanwhile blocks the thread of the event loop, so that the holder cannot
go on, and ends with "database is locked" (module `ChatService`). The clock
advances with every item and every message accepted into the queue, hence two
items never have the same time. A rewind gives calls that it removed back to
nobody (`gone`), because a provider does not repeat ids. `loose`, `gone` and
`rewound` are history, for the properties.

### ChatService

The unit is a request. SQLite is used through pysqlite's legacy transactions: a
read opens none, and the first write takes the write lock until commit or
rollback. A second writer blocks the thread of the event loop, so the holder
cannot go on and the second one always ends with "database is locked"; a guard
`writer = None` stands for this. Operations of the registry do not suspend.

`announced` is the time between a stream's session event and the registration
of its run; `erroring` the time while its error event is being sent, after the
rollback; `dropped` the time between the close of the database session
(`api.py`'s `finally`, when a generator is dropped at a `yield`) and the
finaliser that runs `process_chat_stream`'s own `finally`. What the runner does
in a run is an outcome (`RootRan`): the root's new status, the queue taken in,
and `stray`, an agent below that still waits under a root that was cancelled.
A cancel that comes while a stream sends the provider's last event is too late,
hence "completed" among the results of a signalled stream. A request that is
not streamed is not cancelled when its client leaves.

The registry is keyed by the id of the root agent, which the first run of a
session makes anew (`RootAgent`, named by the request that made it). That id is
committed with the run, so a cancel that comes earlier reads a session without a
root agent and is answered 404 (`ActiveRun`): `RunsAreRegistered` says that a cancel
finds a run just when its agent is committed. For the same reason a chat that follows a first run that was rolled
back has an agent of its own, and is not refused because of the old handle.

### StreamRun

`run_agent_stream` differs from `run_agent` in how it gets a response and in
what it tells the client, and this is what the module has. The thread of
`OpenRouterProvider.stream` reads pieces and puts events into a queue
(`ReadText` to `FailResponse`), and ends with text, calls and response once
more. `Take` and `Look` are two steps, because `asyncio.wait` is followed by a
`gather` of the other task: a signal that is set in between lets the event
through, and the runner's own check catches it. `Sent` is the client's `send`
coming back. `EndCall` stands for each kind of tool and for a child run; with
the signal set only an MCP call that failed gets past it. `shown` is what was
sent to the client, `stored` the items in the transaction; both carry their
turn. `Escape` is an exception that leaves `run_agent_stream`, among others the
cancellation inside `handle_turn_response` (runner.py:408), which `run_agent`
catches and `run_agent_stream` does not: the service rolls everything back, and
the canceller is told "failed". Queued inputs cannot come during a run, see
`ChatService`, and what the tools do is module `Runner`. Calls are sorted by an
index, which providers give in the order of appearance. Arguments of a call
come in one piece.

### Memory

An observation sees committed rows only: in the first run of a session there is
nothing to observe. The cursor (`sessions.last_observed_item_id`) cannot change
while a run holds the write lock, so a run's cursor is the committed one, and an
observation that returns while a run is going cannot save its cursor: the
memory has been appended to, and the items are observed again later. A text
stands for items and their revisions, and the language model is assumed to keep
what a text stands for; the file system does not. `_read_memory` turns an
`OSError` into an absent memory, and the write that follows replaces the file by
the new block alone (`blind` in `WithLock`, `Lose` in `ObservationReturns`).
`write_text` truncates before it writes, so that a write that fails or is killed
leaves some front part of its text (`CutWrite`, also in `Restart`). And
`DELETE /agents/{name}` removes the folder without the lock, after its rows
(`DeleteRows`, `DeleteFolder`). `lost` is history: what a memory no longer stands
for by one of these, and the properties say that nothing else takes anything
away. `MayWait` covers the time between the release of an
`asyncio.Lock` and the wake-up of its next owner, when `locked()` is false and
yet a newcomer has to wait. `Dropped` and `Heal` are `_select_unobserved_items`
and `_heal_orphan_tool_outputs` (a recursive function, so that the module can
be proved about). Sub-agents have no cursor and are left out. Agents that write `memory.md` by themselves, outside the lock, are a
risk that the documents accept (`docs/tasks/observational-memory.md:274`) and
are left out too. A chat may start after a call that has no output: its root
was cancelled.

### McpClient

One server's `_StdioMcpSession` with the manager around it. The two messages of
the handshake are one request, `Hello`. A request takes the write lock, gets its
id and future, is written, may suspend in `drain()`, and awaits its future. The
server is outside; `Reply` lets it answer anything it received, any number of
times, in any order, and `Break` ends the stream (or stands for a line that the
reader cannot take: bad JSON in a frame, or more than the reader's limit of
64 KiB). After the reader has ended the server stays "connected", and calls run
into their timeouts. A request is a task of its own, and there are two
cancellations. The run's signal (`Signal`, `Cancel`) is seen by
`_await_with_cancellation`, which cancels the task. The cancellation of the
*awaiting* task (`Abandon`; the client of a stream leaves) is raised inside
`asyncio.wait`, which leaves the request alone: it goes on, with nobody to take its
result, may come to its turn for the lock when the run is over, and is then sent
(client.py:161-176). `NoLateSend` is about requests that have ended, and such a
one has not; `CallsEnd` says that it ends too. A request cancelled inside `drain()`
leaves its entry in `_pending`, which is harmless. A signal that is set already when `call_tool` is
entered is unreachable: the runner looks at it right before. Requests and
notifications that a server sends are ignored by the code, and by the model.

### Filesystem and TextEdits

The tree is a function from paths to directories and texts. An operation of the
service does not suspend, so each is one step, and returns the tree it leaves
behind with how it ended: done, refused (a `FilesystemToolError`), a checksum
mismatch, or an error of the operating system, which may have made directories
before it came. The order of checks is the code's. What an agent has read
(`view`) is old when another one writes; an update may carry its checksum. A
request names a virtual path; `Reachable` is the resolver and the policy (mounts,
scope of user and session), `Authorized` adds the excluded names, and a denied
request changes nothing. The target of a move or a copy is only `Reachable`:
`_authorize_with_target` asks for its exclusion as the request spells it, so that
one spelling of a path is denied and another is not. `Listing` and `SearchHits` are the collection of entries and the
walk, as functions of the tree; `Entries` is what one call of
`_collect_directory_entries` does for its directory, from what its calls for those
below return.

What breaks off in the middle ends as "io". `Outcomes` has how an operation can
end that should end otherwise: a create or a copy leaves some of its entries with
the front of their texts (`Fragments`), an update the front of its text
(`Shortened`; `write_text` truncates first), a delete some of the entries
(`Thinned`). They are there when `DiskFails`. One such end needs no fault of the
disk: a copy of a directory to below one of its children, where `copytree` finds
its own copies until a name is too long (`Nested`; the copies within the copy,
which are of the same files, are left out). The mounts are taken to be on one
file system, so that a move is a rename.

`TextEdits` has texts as sequences of tokens, of which three are line ends: `LF`,
`CRLF` (also a lone "\r") and `Sep`, any other separator that `splitlines` knows.
The code cuts lines at all of them and asks for the end of a text with
`endswith("\n")`, so there are two notions, `Closed` and `Terminated`; where they
differ an edit adds an empty row, which `Spaced` of the property names. Besides
there are universal newlines on reading and `_apply_update_action`. A pattern is
the set of names it matches, a checksum the text it was taken of. No tool makes
symbolic links, so `resolve()` leaves a path alone.

### AgentTemplates

A route of `/agents` runs in a thread and may stop between any two system calls,
so a step is one of them: a check, `mkdir`, the `open` that truncates, the write,
`os.replace`, `unlink`, `rmdir`, a select, a transaction. Files are inodes: a
writer that has a file open goes on writing it when its name is taken away
(`fd`). `Ensured`/`Seed` are the seeding of `default_agents/` that every route
and chat goes through. A chat runs on the event loop: it commits a new session,
resolves its template, flushes the root agent's row, which takes the lock, runs,
and commits. `LockTimeout` is the end of the wait for the lock. `Crash` ends all
requests and undoes their transactions; files stay as they are. `saved`, `clash`
and `late` are history: what the last complete save of a name wrote, and two sets
of names for which the code does not promise all. Two requests clash on a name when
one is an update and the other an update, a create or a seeding at the same time,
or one is a deletion and the other any of these (`Open`, `Clash`); creates and
seedings do not clash with each other. For these names `SavedIsKept` says nothing.
A name is late when the files of its template are removed while one of its runs is
going (`Unlink`), or a run is committed when a deletion has already dealt with the
rows (`EndRun`). For these `RootsHaveTemplates` says nothing. Neither set is made by
looking at what has become of the files: that a run which nothing has
outpaced still has its template is part of the invariant that is proved (`RunsOK`).

Texts are sequences of characters, "sp" and "nl" among them, because quoting and
stripping are what two properties are about. `Parsed`, `Unquote` and `ToolsRead` do what
the loader does: it strips, takes an empty value for none, and turns back the quote
only. So a description comes back without its outer blanks, one of blanks as
none, and one with a backslash or a line end in it escaped. Left out are the other
characters at which `splitlines` cuts, and line ends in the names of tools.

## Runs

| run | instance | states | question |
|---|---|---|---|
| `runner` | root, 2 children, 3 calls, depth 2, 2 turns, 2 calls per response, 1 queued input | 218,000 | do the ledger, the waits and the tree of agents stay consistent, is `CallLedger` implemented, and does every request end? |
| `transcript` | root, 1 child, 3 calls, depth 1, 2 turns, 3 requests, 2 queued inputs | 999,000 | prompts, rewinds, the queue and the answers |
| `chat` | 3 requests, 2 sessions | 281,000 | transactions, registry, queue, messages, with disconnects and restarts; is every request answered, also a cancel? |
| `stream` | 2 turns, 3 calls, 2 pieces of text per response | 347,000 | what the client saw against what is stored; does a cancel end the run? |
| `memory` | 2 sessions, 2 names, 2 tasks, 3 items, 1 edit, 1 failure | 633,000 | memory, cursor and trimmed prompts, also when the file cannot be read or written and when the agent is deleted |
| `mcp` | handshake, 2 calls, 2 unread replies | 183,000 | responses, timeouts, both cancellations, close |
| `files` | 2 agents of one user, who have read the shared file before; 2 operations, any of which may break off | 21,800 | do stale views, refused and broken operations, edits and listings do no harm? |
| `templates` | 2 names, 2 sessions, 2 requests at a time, 3 in all, 1 crash | 617,000 | saved templates, and the rows that name them |
| `no_leaked_handle`, `cancel_is_not_failure`, `sessions_are_listed`, `edit_starts_clean` | smaller ones | | disagreements with the documents, below |

Deadlock is checked everywhere but in `mcp`, `stream` and
`cancel_is_not_failure`, where everything may be over. The bounded requests of
`transcript` and `templates` end in `AtRest`, and `Deny` of `files` is always
possible.

The bounds. `runner`: three calls are two in one response and one in the next,
or a chain of two delegations below the root with a human wait under it; depth 2
reaches the limit; two children are siblings or a child and a grandchild. A
property of the runner speaks of one call, of a parent and a child, or of two
entries of a log, and what needs more agents than that is proved. `transcript`:
three requests are a chat, a delivery or a second chat, and an edit of what they
left; two messages can be in the queue, so that they have an order; one child is
enough because a rewind treats each transcript alone. `chat`: a message and a run, a cancel, an edit or a delivery, and another request
that meets what they left; the second session is there because the write lock is
shared by all. `memory`: two tasks are an observation against another one or a
reflection; three items are a call, its output and the message before. The
constraint `Bounded` leaves out the product of two used sessions with two used
names (two sessions share a memory, or one session uses two), a third item but
for one session with one memory and one task at a time, and a second failure
before what the first one took away is back; the proofs have no such bound.
`mcp`: two concurrent calls, each answered twice, and the handshake.
`stream`: two pieces are one that was sent and one in hand, two turns are one
whose items are there when the next one ends badly, and three calls are two in
one response and one in another. `files`: each agent has read the shared
file at the start (`StartView`), so two operations are what another agent does to it
and the write that does not know; denied ones do not count; two of
the agents' paths are shared, one is private, one is in no mount, one is
excluded; texts have up to three tokens, so that a range, its neighbour, a
missing last line end and one that is no newline occur. What
breaks off is one step, from the start or from what another one left; paths may be
so long that a directory can be copied to below its child. `templates`: two requests at a time meet at each system call, and a third one reads what they left, or begins after a crash; the
names are one that is seeded and one that is not.

Symmetry is used in `memory`, `templates` and `transcript`, over sets whose
elements the definitions compare for equality only; these runs have no liveness
property.

Fairness. `runner`: weak fairness of each agent's steps; the event loop
runs a coroutine that is ready, and the provider client, the tools and the MCP
client answer or raise (the HTTP clients have timeouts; the MCP client's is
checked in `mcp`). Users are not fair. That runs come to an end rests on
`MAX_TURNS`, the depth bound and `MaxBatch`. `chat`: weak fairness of
`Proceed`; a run comes back by `RequestEventuallyEnds` of `runner`. `mcp`:
strong fairness of a request's own steps, because `asyncio.Lock` is handed on in
the order of asking; it contains the assumption that `drain()` comes back, which
the code does not bound: `request_timeout_seconds` covers the wait for the
response only, so a server that stops reading its input blocks all later calls
under the lock. The reader and the server are not fair. `stream`: weak fairness
of the run; nothing is assumed of the reader thread, which may sit in a read
until the socket's timeout, nor of the client, who may be slow but receives or
leaves.

What the properties leave out, because the code does not promise it:
`RequestsAreAnswered` a cancel that waits for a plain edit (the leak below);
`TextIsKept` text that was shown in whole right before a cancel;
`ToolCallsArePaired` calls that a cancelled run, or the edit of a queued
message, has left open; `SavedIsKept` names on which requests clashed and
`RootsHaveTemplates` those on which runs were late, as said above;
`SavedIsReadBack` the blanks around a text, and descriptions with a backslash or
a line end; `ObservedIsRemembered` and
`MemoryIsKept` what a failing file system or a deletion has taken away, and
`NoLostUpdate` a memory that could not be read or was deleted meanwhile;
`NoLateSend` a request whose caller was cancelled; `EditsKeepLines` an insert
behind a last line that has no end, and an empty row behind a text that ends in a
separator other than a newline; `CarefulLosesNothing` an append that breaks off;
`FailedChangesNoFile` a copy with force, a delete that breaks off, and, of a create,
a copy or an update that breaks off, what it was to write.

What the runs with an expected violation show:

- `no_leaked_handle`: `process_edit` learns its handle only when the run has
  succeeded; when the run raises, the handle stays in the registry. Later chats
  of the session fail, edits are refused and a cancel waits for ever, until the
  restart. `RunsAreRegistered` says that this is the only leak.
- `cancel_is_not_failure`: a cancel that comes while a streamed run waits for
  the provider makes `stream()` return as if the response had ended, and the
  run fails with "Provider stream ended without a final response."
- `sessions_are_listed`: a new session is committed before its root agent.
  While its first run is going, and for good when that run ends in an exception,
  its template is not found or the server dies, the list of all the user's
  sessions is an error 500. A controlled error about inconsistent rows is what the
  plan of these routes asks for (`frontend_mvp_sessions_api_plan.md:194`); that an
  ordinary first message makes such rows is not: `:214` wants the session it made in
  the list, and `chat_service_plan.md:254` all rows committed before the run.
- `edit_starts_clean`: a queued message has the time at which it was accepted,
  which is before the answer that it waited for. Editing it cuts the answer and
  keeps the question, and the next prompt has a call without a result.

## Disagreements met while reading

No run shows these; they are where the code differs from its documents, or from
what a reader would expect, and most of the models have them built in.

Chat and runner. A cancel of a session's first run reads rows without a root agent
and is answered 404 while the run goes on (chat_service.py:697;
`docs/tasks/chat-streaming-and-run-cancel.md:156`). The cursor is kept per session
and the memory per agent name, so a chat that names another agent for its session
leaves out items that only the other memory stands for (runner.py:1670, against the
docstring at 1649). An error event of the provider ends the stream without an
error event for the client (runner.py:375; `streaming_plan.md:337` and `461`).
The second of two concurrent summarize requests uses the cursor it read before
it waited (`docs/tasks/observational-memory.md:273` wants a no-op). A memory that
cannot be read when it is appended to is overwritten (observe_use_case.py:228), and
the deletion of an agent takes no lock of its memory. A tool call of a remote
server whose caller was cancelled may still be sent (client.py:161). Text that the
client saw in whole is not stored when the run is cancelled right after the done
event. A queued input for a *running* root is refused
(`docs/tasks/basic-chat-improvements.md:78`), and the run of a delivery is not
registered and cannot be cancelled (`docs/tasks/chat-streaming-and-run-cancel.md:80`).
The answer to a cancel has the whole transcript, its `last_sequence` being 0, and
the calls that a cancelled run left open stay in later prompts without results.

Filesystem. What read and stat return of a file with CRLF ends is a checksum of its
bytes, and an update compares a checksum of its text (service.py:703): the advice
"Read the file again and retry" does not help, only the checksum that the
mismatch's hint names does. The checksum is optional, though the tool's
instructions require it. A dry run of a create with `createDirs` makes the
directories. A move overwrites a file that is at its target, or moves into a
directory that is there and reports the target. Move and copy may remove a
mount's root, which delete refuses. A copy with force onto itself or an ancestor
destroys its source; of a directory without `recursive` it destroys the target
and then fails. A copy of a directory to below one of its children writes until a
name is too long, and leaves that there. A tree of type "file" does not enter directories; the search of
one file reports its name twice; `offset` is applied after `limit`. The search
counts lines by "\n" where reading uses `splitlines`. An insert behind an
unterminated last line merges the two. Patterns of `FS_EXCLUDE` are not looked at
when an operation on an ancestor takes the excluded path along
(`README.md:38`).

Templates. A line end in a description is escaped when it is written and not turned
back when it is read, a backslash is doubled by each save; `agent_templates.md:210`
asks that the parser reads values back. A blank tool name ends the list of tools.
Two updates of a template share one temporary file: one may lose, tear the file
or fail. A deletion is the rows and then `rmtree`, not one transaction that can
be rolled back. A crash in the middle of seeding leaves a folder without its
file, which is never repaired. A get during a creation reads an empty template.

## Proofs

`Runner_proofs` holds for any sets of agents and calls and any bounds, from
`RunnerAssumption`:
`TypeCorrect`, `AnswersAreUnique` (a call has one output at most), `WaitsStayOpen`
(what an agent is persisted as waiting for is open), `NoOrphans` (nothing is
left pending or running between requests), `ChildrenEndOnce`,
`CancellationStopsWork` (`CancelStopsWork`), `DelegationIsTree`
(`DelegationTree`), `WaitsLeadDown` (`WaitChain`), `ChildrenLoseNothing`
(`ChildSettled`), `InvariantHolds` (the whole of `IInv`) and `RunnerKeepsLedger`:
every behaviour of `Runner` is one of `CallLedger`. Every safety property of the
run `runner` is proved.

The invariant behind them is `IInv`, and its part `Core`. `AnsweredOnce` alone is
not inductive: an output is stored for the head of `todo`, or for an entry of
`waiting`, and it is new only because these are open (`CallsOK`), each call is
named once among them, and a call belongs to one agent. That the agent whose
row is written is the one that runs needs `StackOK`: one activation is at the
top, all others are in a delegate call, and the depth grows along the stack,
so that a returning child finds its parent. `TreeOK` ties `status` to `pc`:
an agent is pending or running only while it is on the stack, which gives
`NoOrphans` when the stack is empty. There is a lemma per part, with a step per
action: `TypeStep`, `StackStep`, `LedgerStep`. `CancellationStopsWork` adds
`SignalOK`: a delivery never carries a signal, so no propagated result can run a
parent under one. `DelegationIsTree` adds `SourcesOK` to `Core`: a call that is
still to be handled has created no child, unless its parent is inside that
delegate call, so that the next delegation cannot use a call twice.

`WaitChain` speaks of the time between requests only. In a delivery the child a
wait leads to is not waiting while it runs, so `Chain` says that it waits *or* is
the bottom of the stack of that delivery; when the request ends there, either
its result propagates and takes the wait along, or it waits again, or it was
cancelled, which `ReturnedOK` excludes because a delivery has no signal. A new
delegate wait needs `SourcesOK`: the child that returned is the one that the call
created. `ChildSettled` needs `NothingLost`, which counts an open call among what
is pending, collected or saved. The refinement needs no more than `Core`: a step
leaves the transcripts alone, stores the output of an open call, which therefore
has no slot yet in any transcript, or stores fresh calls (`LogSteps`).

`McpClient_proofs` holds for any set of tool calls, from `McpAssumption`:
`TypeCorrect`, `ResponsesAreOwn`, `PendingCorrect`, `StaysClosed` and
`NothingSentLate`. `IInv` adds to the properties that ids are given out once and
every entry (pending, received, or on its way back) names its request by its
id (`IdsOK`), and that a request has no id before it is sent and an outcome
exactly when it is done (`RequestsOK`); whether its caller is still there is nothing
that the invariant needs. A late response is then harmless because
its id is not pending, or is the id of the request it was made for.

`ChatService_proofs` holds for any requests and sessions, if `None` is no member of
the other constants: `OnlyRestIsCommitted` (`CommittedAtRest`), `RunsAreFound`
(`RunsAreRegistered`), `QueueNeverStrands` (`QueueIsServed`), `FailedIsForgotten`
(`NoGhostMessages`), `CancelComesAfterRun` (`CancelOutlastsRun`),
`AcknowledgedIsKept` (`MessagesAreKept`). None of these follows from itself: what
a transaction commits is the draft that it prepared many steps before, so `IInv`
says how far a draft may be from the committed row (`DraftOK`: the message of a
chat more, what an edit takes away less), what a request has in each of its
phases (`RequestsOK`), that only a run that can be registered is (`HandlesOK`), that
a session has a committed agent just when its root is committed, made by a request
that is done, and that a writer runs the draft's agent (`AgentsOK`), and that a
committed message was acknowledged (`StoredOK`), which makes a failed request's
message a ghost nowhere.

`Memory_proofs` holds for any sessions, agent names, observer tasks and bounds:
`CursorStaysBehind` (`ObservedIsRemembered`), `LockIsHeld` (`NoLostUpdate`),
`NothingIsForgotten` (`MemoryIsKept`), `PromptsStayPaired` (`PromptsArePaired`) and
`HealedTailIsShortest`: for a transcript of any length, `Heal` starts at the
nearest place, at or before the cut, behind which each output follows its call. The
file system may fail at any step, and agents may be deleted. A cursor is moved
after the memory was written, from a batch that was read before it, so `IInv` has
three forms of one statement: items up to the cursor are remembered or lost by a
failure or a deletion (`CursorsOK`), so are those up to what a waiting task has seen
(`SeenOK`), and those up to the end of a batch are that or in the batch
(`BatchesOK`). All three need that ids only grow
(`IdsOK`), in a run that is not committed too (`RunOK`): otherwise an item could
be committed behind a cursor that has passed its place.

`StreamRun_proofs` holds for any calls, any limit of turns and any length of a
response: `HalfIsNeverTaken` (`NoHalfResponse`), `CancelSilences`
(`SilentAfterCancel`), `ToolsAreTold` (`ToolEventsMatch`), `TextOutlivesRun`
(`TextIsKept`). The reader thread and the run share the queue alone, so the
invariant speaks of `Ahead`, the event in hand and the queue behind it: it ends in
"done" or "error" and then "finished", and not while the thread still reads
(`WellEnded`), and the pieces of text in it are those between what was passed on
and what was read, once each and in order (`Numbered`). `TextInv` follows a piece
from there to the events that were shown and the items that were stored.

`AgentTemplates_proofs` holds for any finite sets of names and requests:
`SavedStaysSaved` (`SavedIsKept`), `RootsKeepTemplates` (`RootsHaveTemplates`) and
`SavedComesBack` (`SavedIsReadBack`, for payloads whose description has no
backslash and no line end and whose tools are not blank; what the code does to the
others is in the model, in `Escaped` and `Unquote`). Quoting, unquoting and
stripping are followed through texts of any length. The assumptions are that a seed has a name of its
own, that the disk has room for each open file, and that `None` is nothing else.
A file is found by its name but written through its inode, so `IInv` says that
a file has one name and an open one the name of its opener or none (`FilesOK`,
`OpenOK`), who is alone with a name and what he finds there (`AloneOK`,
`EngagedOK`), that a read is torn only where two requests met (`ReadsOK`), and
what a chat and a deletion have done so far to the sessions (`ChatsOK`,
`DeletionsOK`), and that a run has its template (`RunsOK`).

`Filesystem_proofs` holds for any names, mounts, agents, requests, edits and trees
to start from: `TypeCorrect` (`TypeOK`), `CarefulKeeps` (`CarefulLosesNothing`),
`FailedKeeps` (`FailedChangesNoFile`), `EditsAreExact` (`EditsKeepLines`) and
`ListingsAreExact` (`ListingIsExact`).
`RequestsAssumption` says that requests are made of names, that a mount is named by
one and no workspace is `fs_root` itself, that `Order` has every name once, so that
there are finitely many, and that the disk has a tree and each agent some view of
it at the start;
`FilesystemAssumption`, that a directory is no text and `None` no range. The first
three need of a step what it does to the tree, so there is a lemma per operation
(`Created`, `Updated`, `MovedAway`, `Copied`, ...) from lemmas about directories
that are made, a file that is put and trees that are cut off and grafted
(`DirsAreMade`, `FileIsPut`, `CutOff`, `GraftGrows`), and one per operation that can
break off (`CreateEnds`, `UpdateEnds`, `DeleteEnds`, `CopyEnds`), from what is left of
the tree that it should have left (`FragmentsTree`): the ancestors of a path that
exists are directories, by descent to the shortest path for which they would
not be (`AncestorsExist`). For a graft one must know where it comes from: a path
at the new place names one at the old (`RebasedPath`, `RebasedBack`,
`RebasedParent`). `EditsAreExact` rests on `OneCut`: lines that are well formed (no
line is empty, none goes on behind its end, all but the last have one) can be
cut from the text that they join to in one way only, so that `Lines` of an edited
text are the lines that the edit put together (`LinesOfJoined`), and translating
the ends of lines changes no row (`UniversalLines`, `RowsUniversal`). It is exact for
each separator of `splitlines`, with the row that `EndedText` finds where a text ends
in one that is no newline.

`ListingsAreExact` follows from `TypeOK` alone, but takes two inductions. A
directory's children are listed each once (`SortedLists`, `ChildrenListed`). What is
visible below it falls into one set for each child, the child and what is visible
through it (`VisibleThrough`), told apart by the name that follows the directory in
a path (`ThroughPlace`). If the list for the children so far is exact up to the
limit, so is the one with the next child (`NextExact`, from `ExactMore`, `ExactJoin`
and `ExactAtLimit`), which gives a directory once those below are exact
(`EntriesExact`), and all of them by induction on the levels that are left
(`CollectExists`, `CollectExact`). The count has a meaning since only finitely many
entries are visible to a bounded depth (`VisibleIsFinite`). A search of two levels
finds an entry just when it is visible (`FoundIsVisible`, `SearchExact`). Where a
searched root is a file, the search looks at the file, which no listing shows, and
the property claims nothing.

`Transcript_proofs` holds for any agents and calls, any number of requests and
any bounds, with nothing assumed but what `Runner` and `Transcript` assume of their
constants: `TypesHold` (`TranscriptTypeOK`), `ChildrenKeepTasks`
(`AgentsHaveTasks`), `NoOldQuestions` (`RewindEndsWaits`), `QueueIsTaken`
(`QueueIsTakenOnce`), `AnswersAreTheRun` (`AnswerIsTheRun`), `CallsArePaired`
(`ToolCallsArePaired`) and `RunnerSurvivesRewinds`: `AnsweredOnce`, `WaitsAreOpen`, `DelegationTree`,
`WaitChain` and `NoneLeftRunning` once more, of a session whose transcripts are
rewound. `Edit` is no step of `Runner`, so the theorems about `Runner` say nothing of
it. The invariant `TInv` has the runner's (`RunnerInv`) and, beside it, what ties
the items to it: the log is what `LogOf` makes of the items (`LogsKept`), stamps
are unique and below the clock (`StampsOK`), only queued messages stand behind
newer items (`OrderOK`, `PendingOK`), a message stays queued only while the root
waits or is about to take it (`QueueOK`), what is waited for or still to be
handled is younger than the last rewind (`RecentOK`), and what the request knows
is what is not younger than itself (`RequestOK`).

For the runner's steps the old step lemmas are cited, because every step of
`Transcript` but `Edit` is one of `Runner` that stores a known list of items
(`Stores`, `RunStores`, `RequestStores`). For `Edit`, what is kept is a cut of
each transcript (`Cut`): the places of the kept items grow with those of the old
ones. A call is older than its output, so an output is kept only with its call and
`AnsweredOnce` survives; a child's task is younger than the call that created it,
so a child is kept only with its parent and the tree survives; and all waits
end, so that nothing is left to be proved of them. `LogsKept` needs that `LogOf`
of a grown transcript is the grown log, hence the lemmas on `FlattenSeq`
(`FlattenJoins`, `FlattenConcat`, `SelectedPlaces`), which is why `Selected` and
`LogOf` are joined from one piece per item. In `AnswersAreTheRun` the items in the
order of time are ranked by a bijection (`Ranks`), and the wait that a person can
answer is found at the deepest agent on the paths of delegate waits below the
addressed one (`SomebodyIsAsked`): by `Chain` one that is deepest has no delegate
wait.

`CallsArePaired` needs that the shape of a transcript is kept, not only its log:
`ShapeOK` says of each call of an agent that may still run that its output follows
it behind calls and outputs only (`Followed`), or that the agent minds it, as a
call it handles or waits for, and nothing but calls and outputs has been stored
since (`Stretch`). It is kept because an agent forgets a call only by answering it
or by ending as cancelled (`CarefulStep`), because nothing but outputs is stored for
an agent that minds a call (`OutputsOnly`: it is the queue, taken only when the
root minds nothing, that could be), and because an edit cuts an output away from
its call only if a queued message was edited, and then gives the call up
(`EditFollowed`). When a provider is asked the agent minds nothing, so every call
is followed; `MessagesFit` carries this from the items to the messages, by giving
each item its place in them.

Every safety invariant and every action property that a passing run checks is
stated by one of these theorems. Only model-checked: the liveness properties
(`RequestEventuallyEnds`, `RequestsAreAnswered`, `CallsEnd`, `CancelEndsRun`), which
are out of the prover's reach, and the four runs that expect a violation. Induction over data
has no rule here: the library's induction theorems take an operator as a
parameter, which no installed prover can instantiate. Two detours serve in its
place. A set of numbers has a least element, by the well-foundedness of strict
inclusion on finite sets (`LeastNumber`), and a recursive function is a
`CHOOSE`, whose defining equation holds once a function that satisfies it is
shown to exist. They prove what `Heal`, `Messages`, the quoting of a template,
`Lines`, `Edited` and `Listing` compute for data of any length.

## Plan

Abstract specifications worth stating besides `CallLedger`: the chat service as
sessions that take one message at a time, and a memory that only grows.

## Not modelled, and why

- The model catalog: a cache with a time to live behind one `asyncio.Lock`, with
  a second look under it. Nothing else reads or writes its state, and a stale
  list that is served after a failed fetch is what it is meant to do.
- Attachments: files of one request, written before its transaction and removed
  when the request fails; no other request names them.
- The event bus and its logging subscribers: their spans are read by no other
  component, and an exception of a handler is caught in the bus. The subscribers
  that observe and reflect are module `Memory`.
- The domain tools: calls of remote services and data files without state of
  their own. A tool is an answer in the runner's model.
- Configuration, wiring and migrations have no behaviour of their own; the facts
  the models use (one SQLite engine, autoflush off) are said where they are used.
- Within modelled parts: token usage and thresholds, the texts models write, the
  summarize thresholds, the memory of sub-agents, fragments of tool arguments,
  images, and the configuration file of the MCP client.
