# TLA+ models of acp-llm-cli

acp-llm-cli talks to command line agents over the Agent Client Protocol. A
*transport* owns the agent's process, an *ACP client* puts an RPC link on its
pipes, a *streaming port* turns a prompt and its updates into an async iterator
through a *queue*, and a *lifecycle supervisor* restarts agents and remembers
sessions. The Cursor provider spawns one process per prompt instead. *Factories*
build a port for a provider from a config, the environment and options; two
tools beside them read a CLI's help and generate the model lists.

Paths in this file are relative to `src/`.

## Inventory

| Component | State | Operations | Hard part |
|---|---|---|---|
| `src/runtime/stdio.connection.ts` | status, current child, its `intentional` mark, force-kill timers | `connect`, `disconnect`, child `error` and `close` | calls, events and timers overlap; listeners run inside unfinished methods |
| `src/runtime/acp.client.ts` | the link `attached` | `connect`, `disconnect`, requests, the agent's requests, listeners | the exit of a replaced child; awaits inside `connect` |
| `src/runtime/stream.prompt.queue.ts` | array, read index, wake, terminal state | `push`, `pushError`, `close`, `next` | lost wake-ups, compaction, end before drained |
| `src/runtime/acp.agent.port.stream.ts` | `activeStream`, handlers, chunk counter | `streamPrompt`, `disconnect` | abandoned consumers, late settling, disconnect in flight |
| `src/runtime/envelope.mapper.ts`, `src/domain/stop.reason.ts` | none | update and stop reason to envelopes | three modes, one counter, unvalidated reasons |
| `src/runtime/lifecycle.supervisor.ts`, `restart.with.backoff.ts` | last cwd, persisted session | `restart`, `newSession`, `sessionUpdate` | stale cwd or session across awaits |
| `src/providers/cursor` | in-flight ledger, shutdown latch, sessions with mode and model | `prompt`, `disconnect`, sessions, settings | draining while prompts start; kill timers; settings of the wrong session |
| `src/cli/help.extractor.ts` | output, timers, settled flag | `extractHelp` | timeout, exit, late output and close in any order |
| `src/runtime/config*.ts`, `env.reader.ts`, `src/cli/arg.builder.ts`, schemas | none | precedence, parsing, flags | empty against undefined |
| registry, factories, facade, metrics, adapters | registered ids, metrics | `register`, `createRuntime`, `getClient`, `createHarness` | three paths to a port that must agree; options that vanish |
| `scripts/update-models.ts` | lists fetched, modules written | fetch, choose, write | concurrent partial failures, names that collide |
| domain constants, types, generated lists; build scripts, examples, tests | | | not modelled |

The client listens to the transport's `state`, `error` and `exit`; the port
listens to the client's updates and calls its `prompt`; each stream owns a queue.
What must be right: no process is lost or killed by mistake, every `disconnect`
returns, a request and a link are only for a live child, every update of a
prompt is received once and in order before its end, one stream at a time holds
the port, a record of a session fits it, and what a caller configured is what
the agent runs with. `PROJECT.json` lists the hazards line by line.

## Modules

* `StdioConnection`: a method body is one action unless it awaits or emits in
  its middle; `frames` is the stack of methods suspended in such an emission.
  `waiting`, `resolved` and `timer` hold the awaited `disconnect()` calls.
  `Overlap` lets callers connect during a disconnect, `Reentrant` names the
  announcements whose listeners call back.
* `AcpClient` extends it: every transport step is composed with what the
  client's listeners do in it, and a request is written to the link there is.
  A stream is named by its child. `readers` counts the reader loops of a stream,
  and `overlapped` is history: whether two calls ever overlapped.
* `UpdateChannel` is what a stream needs of its queue; `StreamPromptQueue` is the
  code, and implements it (`Channel == INSTANCE UpdateChannel`).
* `StreamAgentPort` composes streams, each with such a channel as its buffer,
  with prompts that may settle at any time or never. `StreamEnvelopes` is the
  loop of one generator seen by its consumer: the envelopes of each update, the
  chunk ids of the port's one counter, and the finish chunk.
* `RestartWithBackoff` is the loop of attempts and delays; `LifecycleSupervisor`
  extends it with sessions, notifications, the store and `restart()`. An agent
  creates a session before its caller hears of it, and may notify in between.
  `createdIn`, `current`, `stray` and `writes` are history.
* `SpawnedCommand` is what the callers of a one-shot command count on: its
  promise settles once, an abandoned process is asked to stop and then forced to,
  no timer outlives it. Two modules implement it.
  * `HelpExtractor`: `extractHelp` with its two pipes, whose chunks may arrive
    after the exit, and its two timers.
  * `CursorSpawn`: a Cursor command with its timers and abort signal.
    `CursorAgentPort` extends it with the ledger, the latch and the chats, and
    states that each of its commands implements `SpawnedCommand`. `"lost"` in
    `timers` is a force-kill timer whose handle a second `killChild` has
    overwritten, so that no handler can clear it; the port lets none come about.
    Which promise
    reaction comes first decides here, so `jobs` is the microtask queue: a timer
    or a child event waits until it is empty, and `client` says whether code of
    the client can be among the jobs. A listener of the final state runs between
    `Stop` and `Announced`. The jobs that only pass a settled promise on are one.
* `ProviderConfig` holds the pure part of configuration: the environment
  reader's rules, the schemas, the precedence of config, environment and default,
  and which settings become flags. `ProviderFactory` extends it with the
  registry, the three paths to a port, the metrics with each place that records a
  call, and what the port is made of; `Routed` is the layer each option goes to, if
  it goes to any. `HarnessPort` extends that with the settings of Cursor sessions, the
  command line of their prompts, and the answers the ACP client gives its agent.
* `ModelUpdate` is the generator: fetchers that answer, refuse or throw in any
  order, the choice of a source, and the writing of the modules. Sources are chosen
  (`Listable`) before empty ids are taken out (`Listing`), as in the script.
* Eight modules named `...Proofs` hold the theorems of the modules they extend:
  `AcpClientProofs` those of the transport too, `StreamProofs` those of the queue and
  of the envelopes, `HarnessPortProofs` those of the factories. The `MC` modules add
  symmetry and definitions for TLC.

A definition introduced as a mutant is a wrong variant of the one after it, kept
to show that the properties notice it. It is in no next-state relation.

## Runs and bounds

* `Stdio`: two children, a stale and a current one, two awaited disconnects, and
  a listener of `exit` that calls back. No process is lost, signals reach only
  their process, every `disconnect()` returns and its process ends.
* `AcpClientLink`: three children, the third a successor, two suspended connects
  and listeners of both announcements that call back. A request only reaches a
  running process; as long as no two calls overlapped (`overlapped`), a connected
  client accepts requests and no stream has two readers.
* `QueueChannel`: the compaction threshold, 64 in the code, is 1, so that six
  updates compact repeatedly. The queue implements the channel, loses no wake-up
  and serves a consumer that keeps reading.
* `StreamPort`: two streams, two sessions, two updates, with a session id or
  none: the least with a successor after a disconnect, a foreign session and an
  order to lose. A prompt in flight keeps the lock, nothing is lost or misdirected
  before the end, an abandoned stream stops buffering, a settled prompt ends.
* `StreamEnvelopes`: two streams in any two modes, two updates each, one stop
  reason of each kind, none, and `constructor`, which every object inherits but the
  table has no entry of its own for.
* `CursorPort`: two commands of any kind, two disconnects, which may join, and
  three chats, so that every pair of overlapping operations occurs; `Finished`
  is the only state it may stop in.
* `Lifecycle`: two overlapping restarts of three attempts, the default of the
  code, a session of an earlier process or none, a `newSession` beside them, and
  one notification, which takes both of its ways. Base 1 and cap 3 make the second
  delay the first to be capped.
* `Help`: two chunks per pipe, so that one can be late and another later.
* `ModelUpdate`: two APIs, one paged whose names have a prefix to strip and may be
  empty without it, two pages, and three ids of which two share a constant name.
* `Harness`: one ACP provider, Cursor, and one of the application's own, through
  any path, twice, since a second call is what the metrics must tell from the
  first; two sessions with two settings, so that a setting can go astray.
  Configs, options and environments are those that conflict: given, empty and
  absent settings beside one another, and the options of a session store with the
  store and without.

Deadlock is not checked in `QueueChannel`, `StreamEnvelopes` and `Harness`, where
the system really ends: a stream over, the calls made. In the other runs the
end is a step of its own or there is none.

Two runs show a disagreement between a comment of the repository and the code,
described under `findings` in `PROJECT.json`:

* `StdioStaleResume`: a `disconnect()` that resumes after a later `connect()`
  announces `disconnected` over the new child.
* `AcpClientOverlap`: a `connect()` and a `disconnect()` overlap, and a second
  reader loop starts on one stream.

## Fairness

* Transport: a suspended method, a queued continuation and a due timer are taken
  with strong fairness: callers may act in between any number of times, but
  listeners return, queues are first in first out and callers go back to the
  event loop. A child need not obey SIGTERM; after SIGKILL it closes.
* Queue: its consumer keeps calling `next()`.
* Streaming port: reactions to settled prompts run and consumers keep pulling; no
  agent is assumed to answer.
* Cursor port: queued jobs run, due timers fire and a child ends after SIGKILL;
  the deadline of the shutdown is not assumed to come, and is not needed.
* Help extractor: its timers fire, events that are due are delivered, and a child
  ends after SIGKILL. It may never end by itself.

The other specifications state no fairness, and no liveness is claimed of them.

## Proofs

Each theorem holds for every value of the constants, under the assumptions
named in its module; `theorems` in `PROJECT.json` says what each establishes.
Every safety property that a run checks is one of them. The inductive invariants
were first checked by TLC on the runs' instances.

* Transport. `CurrentIsAlive` and `SignalsReachTheirTarget`, through
  `WaitsForItsChild`: the child a disconnect waits for is marked, bound, asked to
  stop, and running until its close handler begins or the call is resolved.
  `NoOrphan`, assuming that no listener of `connecting` calls back: then a
  suspended `connect()` is innermost and holds no child.
* Client. `ClientSpec` implements the transport's `Spec`, since each of its steps
  is a transport step or leaves the transport alone; so what is proved of the
  transport carries over. Then `RequestsReachALiveChild` (`LinkInv`: the link is
  to a child that has not closed, and to the current one unless a `connect()`
  has yet to resume). While nothing overlapped, `OneReaderInSequence` and
  `ConnectedIsUsable`, through `SequenceInv`: one method at a time is suspended
  (`OneAtATime`), at each such point the status tells whether there is a child and
  whether its link is up (`StatusTells`), and only a child's own link reads it (`Read`).
* Queue. `NoLostWakeUp`, `ReadPrefixBounded`, and that the queue implements the
  channel, safety part, because its unread part is the part of the history not
  yet received (`UnreadIsSuffix`).
* Streaming port. `InFlightHoldsLock`; `AbandonedStopsBuffering`, because an ended
  stream's queue is closed (`EndedIsClosed`); `NothingLostAtTheEnd`, because while
  its consumer is there, what a stream has received and what waits for it together
  are its updates, each once and in order (`Flow`).
* Envelopes. `EnvelopesMirrorUpdates` and `FinishTellsWhy`, because what waits
  between two pulls is at most the chunk of the update read last, after its native
  envelope (`DueInv`), what was given is in order (`OrderInv`) and complete but for
  that chunk (`ContentInv`), and a finish chunk is the last (`EndInv`).
  `ChunkIdsUnique`, because the ids given and the ids due are taken from the
  counter once each (`IdsInv`).
* Supervisor. A notification is written once, because `writes` is one exactly for
  what is remembered; the record fits its session, because so does every record
  a restart holds (`RecordInv`); a restart gives up at its bound (`LoopInv`).
  `CwdIsNotWiped`: once the supervisor knows a session it knows a directory
  (`KnownInv`). `AttemptsAreSpaced`: the delay a restart waits is the one of its
  attempt (`DelayInv`), and powers of two only grow.
* Cursor port. `NoChildLeftBehind` and `TimersEndWithChild`, because only a running
  child has timers or hears the abort (`OnlyRunningIsArmed`). The second is proved
  only. For the rest the invariant is about the job queue (`LoopInv`): a promise
  that settled has its reaction queued until it has run (`SettledOnce`); after a
  timeout nothing comes between (`NobodyBetween`); the ledger holds the commands
  that have not returned, and during a shutdown none of them goes on (`LedgerInv`);
  a shutdown is at one place, in `polling` or in one job (`PhaseInv`); a `connect()`
  that returns after the stop has failed (`LateIsRejected`); a chat is resumed by
  one session's commands only (`ChatInv`). From it follow `ShutdownReachesAll`,
  `LatchIsTheShutdown`, `ChatsNotShared`, `DrainedByAbort`, `NoResurrection`, and
  that each command implements `SpawnedCommand`: a command that times out leaves the
  ledger before a shutdown can abort it, so none is killed twice (`KilledOnce`).
* Help extractor. `HelpIsComplete` and the implementation of `SpawnedCommand`
  (`HelpInv`: the promise, the process and the timers agree, and `close` comes
  after the last chunk).
* Model generator. `ModulesAreUsable` (`ModuleInv`: a module has the list of the
  source it names, without the empty name, and is empty only if that list was the
  empty name alone) and `FailureWritesNothingMore` (`WritingInv`: writing begins
  once every fetcher has ended, and goes on only past modules written).
* Factories. `HarnessInv`: the port is the one its call asked for (`CallInv`), the
  collectors hold the outcome of every call, a session's settings are those wished
  for it with the defaults of the schema (`SettingInv`), and a reply is made of the
  settings of its own session (`ReplyInv`). From it follow `MetricsTellTheCalls`,
  `DocumentedCallsAreServed`, `ConfigIsHonoured`, `SettingsReachThePrompt` and
  `AgentsAreAnswered`, for any words, configs and environments.

Two recursive functions occur in these proofs: `Keep`, which filters the job queue
when jobs are dropped, and `PowerOfTwo`. That each is what its equation says,
for every argument, is proved by sets: a non-empty set of numbers has a least
member (`Least`, from the well-founded order of finite sets), hence a set with 0
and every successor has all numbers (`Induction`).

Model-checked only: all liveness, and with it the fair halves of the refinements
(`DisconnectReturns`, `DisconnectedChildDies`, `ServesConsumer`, `SettledEnds`,
`CallsReturn`, `SettlesAndEnds`), which are beyond the prover.

The type invariants are parts of the inductive invariants proved, as are the types
the other proofs need; no run repeats them.

## Assumptions and what the properties stop at

Listeners do not throw and callers do not call `next()` twice without awaiting.
The ids of a model API are not empty (`IdAssumption`): the fetchers skip such
entries, all but the one that strips a prefix, whose lists may have the empty name.
A word of a config is not the value that stands for undefined, and the configs,
options and environments given are of their declared types (`NoneIsNoWord`,
`InputsAreTyped`). `kill` is permitted, and a Cursor child does not close inside it;
the helper's may. The store writes when it is called, as the one in memory does. A
CLI that resumes a chat reports that chat or none, and `newSession` gets an id.

`RecordFitsItsSession` stops at the first notification of a session other than the
one requested last: such a record gets the directory of another session, which
`src/domain/session.persistence.ts` says it never has. It can be the new session
itself, heard of before `newSession()` returns. `CwdIsNotWiped` starts
with the first session of the supervisor: before that, and while `restart()` awaits
the resumed session, a notification takes the directory out of the record.

Behaviours met while modelling that the properties allow, or that no text of the
repository excludes:

* A listener of `connecting` that disconnects and connects leaves the child of the
  outer `connect()` to overwrite its own: `NoOrphan` fails, which is why the
  theorem excludes such listeners (`stdio.connection.ts:112`).
* A child replaced by `connect()` after an error is sent a SIGTERM and no SIGKILL
  (`stdio.connection.ts:86`).
* `disconnect()` frees the lock while the prompt is unsettled
  (`acp.agent.port.stream.ts:72`), so a new stream may begin beside an old prompt.
* A Cursor `connect()` refused during a disconnect ends in status `error`
  (`cursor.agent.port.ts:176`).
* `restart()` writes back the session it loaded before its attempts, over one
  created meanwhile (`lifecycle.supervisor.ts:198`).
* A Gemini API that lists a model named `models/` and no other is taken for the
  source (`scripts/update-models.ts:120` and `:216`), and its list is then emptied
  (`:23`): the module has `z.enum([])`. `ModulesAreUsable` names this exception.
* An id that begins with a digit makes a constant name that is no identifier
  (`scripts/model.constants.ts:8`, `:53`). The model says which ids share a name, not
  how a name is spelled.
* `workspace` and `resumeOnRestart` given without `sessionPersistence` are dropped
  without a warning (`acp.runtime.ts:53` to `:79`). `ConfigIsHonoured` names the two
  (`Unheard`); every other option reaches a layer or is warned about.
* The comment on the Cursor schema says that the port uses `workspacePath`
  (`providers/cursor/schema.ts:9`); only `buildArgs` reads it, not `prompt()`.

## Not modelled

* Domain constants, types, generated model lists and the wording of errors: they
  have no behaviour. The statuses, limits and defaults in the models are theirs.
* Build scripts, `check-docs-snippets`, examples and tests: one sequential pass
  each, and not part of the running program.
* Stderr capture and the error text made of it (`stdio.connection.ts:207` on): it
  cuts text and decides nothing.
* The wire format of envelopes, the parsing of Cursor's output (a choice of its
  results) and the order of arguments.
* The flags in which the maps of claude, codex and gemini differ (`inputFormat`,
  `outputFormat`, `resume`, `sessionId`, `sandbox`): no setting of the model has one.
* Loading `.env` files and logging; a factory that opts out of metrics and the reset
  of metrics; adapters created without a factory; an inner port with a `restart()`
  of its own; `clearSession` and the key function of the store; the options no
  bundled provider maps to a flag. Each is a branch or a call without callers.
* A Cursor CLI that creates a chat without an id (`cursor.agent.port.ts:231`): such
  sessions share one entry.
* A file system that fails under the model generator.
