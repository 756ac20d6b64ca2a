# Verification of ARCWorld

TLA+ specifications, model-checked instances and machine-checked proofs for
ARCWorld, an agent that plays ARC games by inducing a program that models the
game, planning in that model, and spending real actions only as the model
predicts them. All paths below are relative to the repository.

## 1. The system

An **episode** plays one game. It moves through phases: START (open the
environment), INDUCTION (a model is proposed and replayed), PLANNING (a plan is
simulated in the model), EXECUTION (exactly one real action) and REVISION (the
model mispredicted). It ends in FINISHED, ERROR or OUTCOME_UNKNOWN. Every step
leaves an event in a durable, hash-chained run store. Real actions are the scarce
resource: an episode has a budget of them and must never spend one it cannot
account for.

| Component | State | Operations | Interacts with |
|---|---|---|---|
| Phase controller `interactive.py` | phase, active phase, state version, observation, history, model and its state, pending plan, result | `advance`, `snapshot` | calls services, executor, journal, store; called by the batch agent and by session workers |
| Journal `agent_journal.py` | the in-memory history, the run's events | one record per kind of evidence | the run store |
| Executor `planning/executor.py` | locals of one execution | `execute`: predict, intent, act, raw, compare, analysis | environment, model, journal callbacks |
| Batch agent `agent.py` | none | `run` | one episode |
| Session registry `gui/sessions.py` | sessions, busy flags, worker errors, futures | `add`, `get`, `list`, `advance`, `close`, `_run_one` | HTTP threads, one worker thread, controllers |
| HTTP application `gui/app.py` | none | create, step, status, events, runs, inspect | registry, store, audit |
| Browser page `gui/static/app.js` | selected session, last snapshot, event cursor, load token, auto-run | `requestStep`, `poll`, `loadRun`, `createTest` | HTTP application |
| Revision engine `revision.py`, `hypotheses.py` | hypothesis ledger | `reconcile`, `add`, `update`, `commit`, `weights` | repository, verifier, called by the revision service |
| Model repository `models/store.py` | staged sources, verification receipts, active pointer | `stage`, `record_verification`, `promote`, `deactivate` | file system |
| Replay verifier, model contract `models/` | none | `verify`, `predict` | sandbox |
| Sandbox `sandbox.py` | worker process, request lock | `call`, `build_plan`, `close` | operating system pipes |
| Services, planning, probing `services.py`, `planning/`, `probing.py` | none | `revise`, `plan`, `simulate_plan`, `rank_probes`, breadth-first search | all of the above |
| Run store `storage.py` | SQLite tables of runs and events | `append`, `events_after`, `verify_chain`, backfill | several processes |
| Environment adapters `env/` | the SDK session, latest observation | `start`, `step`, source-identity claim | third-party SDK |
| Audit `audit.py` | none | one check per requirement | run store, files |
| Perception `perception/`, scoring `scoring.py` | none | pure functions | services, audit |
| LLM reasoners `llm/` | last request identity | `complete` | remote providers |

What is hard here: an external call may fail or lose its answer between any two
durable records; failure handlers make external calls of their own; stale plans,
models and observations must not be combined; clients act on snapshots of any
age while one worker serves all sessions; and what a failed run leaves behind is
the only evidence there is. For each component correctness means:

* controller, journal, executor: no action without a durable intent, no second
  action while an outcome is missing, no action beyond the budget, no plan beyond
  the history it was certified on, a final verdict that is unique and explained;
* batch agent: ends, and returns only what is durable;
* sessions: a phase runs once per accepted command, only as the client saw it;
* revision and repository: the active model has passed the whole history, also
  after a failure in the middle;
* sandbox: an answer belongs to its request; store: the chain of a run is gapless
  under concurrent writers; audit: accepts the runs that follow the protocol;
* pure functions: agree with their reference definitions.

## 2. Modules

| Module | Models | Kind |
|---|---|---|
| `Episode` | controller, journal, executor, the game and the store as they see them | detailed specification |
| `SpendLedger` | what an episode promises about real actions | abstract, implemented by `Episode` |
| `PhaseSteps`, `PhaseControl` | what a call of `advance` promises to those who see snapshots | abstract, implemented by `Episode`, used by `Sessions` |
| `Theory` | what the parts together promise about the model that spends actions | abstract, implemented by `Episode` and by `VersionSpace` |
| `Agent` | `WorldModelAgent.run` over `Episode`, with fairness | composition |
| `Audit` | the checks of `audit.py` | operators over a run's events |
| `MCEpisode` | `Agent` or the console driving `Episode`, and `Audit` reading the store it wrote | model-checking module |
| `Sessions`, `MCSessions` | registry, queue, worker, pages with polls and commands in flight, auto-run and consent | detailed specification over `PhaseSteps` |
| `VersionSpace`, `MCVersionSpace` | revision service and manager, model repository, hypothesis ledger, probe planning | detailed specification |
| `RunStore` | the SQLite file shared by processes: opening, migration, backfill, appends, paging, crashes | detailed specification |
| `RunLog` | an append-only log per run | abstract, implemented by `RunStore` |
| `Sandbox` | worker process, lock, pipes, timeout, late answers, restart, `close` | detailed specification |
| `GameSources` | discovery and fingerprints of game files, guarded start of a test, the SDK's module cache | detailed specification |
| `Trail` | what reasoners, proposer, planner and the services record about generated code, and its audit | detailed specification over `Audit` |
| `MCHost` | `GameSources`, `Sandbox` and `Trail`, one at a time | model-checking module |
| `Perception`, `Planning`, `Toy`, `Scoring` | the pure algorithms | operators |
| `MCAlgorithms` | inputs of those, and their reference definitions | model-checking module |
| `EpisodeProofs`, `EpisodeEvidenceProofs`, `VersionSpaceProofs`, `SessionsProofs`, `RunStoreProofs`, `HostProofs`, `PerceptionProofs`, `ProgramProofs` | theorems | proofs |

Definitions named after another one with a suffix (`ReadRunCarrying` beside
`ReadRun`) are faulty variants: what a plausible bug would make of the original.
Each property fails when one of them takes the original's place.

**Episode.** A call of `advance` is cut at its external calls: each durable
append, environment call and service call is a step, `pc` names the next one and
`call` holds the handler's locals. What the code does in memory between two such
calls belongs to the step of the first. `store` maps each kind of event to the
events of that kind with the fields that link them (action, plan, model, state
version, transition count); `env` is the game's side: actions applied, status.
`Raise` lets any call fail that the constant `Faults` permits, `EnvStepLost`
applies the action and loses the answer, and `RecordUnknown`, `RaiseUnknown`,
`RecordFailed`, `RecordRunError` and `Unwind` are the handlers of `advance` and
`_execute_one`, whose own records may fail again. Of the model's process only its end
is modelled: `close` may raise, in the finish after `run_finished` is durable
(`FinishUnreleased`) or in a handler before its records (`CloseRaises`). A crash needs no action:
nothing resumes an episode, so what a crash leaves is `store` and `env` of a
reachable state, and the invariants that speak of those hold at every step, not
only between phases. Data is abstracted to what the properties distinguish: an
observation is its game status, an action is RESET or another, a comparison is a
match, a mismatch, or frames of unequal shape; a model is the number of the
revision that produced it, together with the set `explains` of transitions it is
known to reproduce. NOT_PLAYED is folded into NOT_FINISHED, which the code treats
alike. Log texts are left out.

**PhaseControl** is the contract in between: phases follow a fixed graph, a call
moves the phase at most once, then counts exactly one new state version, then
releases its slot, on every path. `Episode` implements it
(`ImplementsPhaseControl`), with `settled` mapped to the places behind the
version bump; `Sessions` uses its step operators for each controller and relies
on nothing else about episodes.

**Agent.** `run` says who drives the episode: the batch loop, which ends with the
first phase outside the working set and closes the episode (`Exit`), or the
console, which commands phases in any number and may stop.

**Sessions.** `SessionRegistry.advance` holds the session's lock from its checks
to the submit and is one step. `ManagedSession.snapshot` reads the controller and
the busy flag under different locks, and the answer then travels: three steps
(`Look` or `Advance` reads the first half, `Reply` the second, `Answer` delivers).
So a snapshot may be torn, and the answers of polls and of commands may arrive in
another order than they were read. A page has one poll and one command under way
(`app.js`), shows the answer that comes last when its test is still the selected
one, and drops a consent to automatic actions that was ticked for another test.
`Request` is a click or auto-run; a script may command without authorization. A test
that was made or picked is shown from its next snapshot; the page's list of tests is
not modelled. The worker takes futures in order (`Pick`), runs the controller
(`Begin`, `Turn`, `Settle`, `End`), and cleans up in two locked sections (`Catch`,
`Release`). `Close` is the application's shutdown, after its last request: waiting
futures are cancelled, a running one goes on.

**VersionSpace.** A call of `revise` is cut at its calls of the reasoner
(`Propose`), the repository (`Stage`, `RecordArchive`, `RecordLatest`, `Promote`,
`Deactivate`), the sandbox (`Verify`) and the run store (`Report`); `Raise` lets each
fail. The first hypothesis of the set under replay is always the one with the
smallest id, as `sorted` has it; ids are hashes, so their order is a constant,
`Rank`. A failed call ends the run, as the phase controller goes to ERROR, and
what it leaves on disk and in the ledger stays. A program is known by the shortest
history it fails to reproduce (`fails`) and by whether it does so with an exception
(`broken`). No code reads these: `Verify` finds out, and a replay that times out
counts as a failure of the program, as in `ReplayVerifier.verify`. A hypothesis is a
program with the reading of the scene it was asked for; two of one program share
their receipts. Of its log weight the ledger keeps the number of failures, 20 each:
`exp(-20)` leaves only the hypotheses with the fewest failures a say in the entropy
of a probe (`Heaviest`). Which models a probe sets apart is `dissent`; the game's
answer then proves one side wrong. `RESET` at GAME_OVER consults no hypothesis, so
`PlanFallback` allows it in any state. `Act` stands for the executor: it has
`Episode` beside it for the detail.

**Theory** is what both promise together: evidence is bought with a model that
reproduces all of it, each transition is judged before the next is bought, and a
refuted model is replaced by one that reproduces everything. In `Episode` the
committed model's standing is read off the transitions it explains and the latest
mismatch, in `VersionSpace` off the truth about the active program. The call
`Revise` of `Episode`, which returns a model that explains the history or raises, is
thus discharged by `VersionSpace`.

**RunStore.** Each process opens the file (`Connect`, `AddColumn`, `ListRuns`,
`ReadRun`, `Backfill` for one event, `FinishOpening`), then creates runs and appends
(`Begin`, `Insert`, `Commit`). SQLite is the environment: outside a transaction a
statement reads what is committed, one process holds the write lock, and `Stop` lets
a process die, or its opening raise, at any point with its transaction. The locals of
an opening (columns found, runs to do, events read, rows updated and not committed)
are variables, because another process may act between any two of them. A hash is the
tuple of what is hashed. `Poll` is the page's event cursor. `RunLog` knows only runs
and their data; the hashes and the migration are a refinement of nothing.

**Sandbox.** Threads of one process share a program's handle: `Enter` takes the lock,
`Start` makes a worker and sends its source when none runs, `Send` writes the request,
`Receive` reads one line, `Expire` is the timeout, `Abort` drops the worker, `Close`
is called by the thread that makes the requests, between two of them. The worker
answers one line per request (`Respond`), at any time, or dies (`Die`). The lines in
its pipe are `out`; each carries, for the properties only, the request it answers.

**GameSources.** Files are edited at any moment, each time to a content they never had
before: a file that is restored while a start reads it cannot be told from one that was
not touched. `Create` takes the fingerprints, `Compare`, `Claim`, `Open` and `Confirm`
are the steps of a start. The SDK is external: it opens some directory that claims the
game and may keep the module it once loaded from a path. A start whose files were edited
may thus make it load a directory other than the declared one. The start is refused, or
fails on its own after the module was loaded (`Open`), but the module stays, and nothing
was claimed of its path (`Strayed`).

**Trail.** A request is recorded before it is sent, its answer before it is used
(`Ask`, `Respond`, `Refuse`); a revision makes one call per candidate and then gives
each hypothesis the origin of its own answer (`Origin`, `Reconcile`, `Report`);
planning improvises, or generates and simulates (`Improvise`, `Generate`, `Simulate`);
`Intend` is the action's record. `Raise` ends the run between any two events. `Audit`
reads the result.

**Pure algorithms.** `Perception` has background and components with holes and
relations, exact and semantic grid differences, and the tracker's assignment;
the tracker's identities are numbers, compared as the strings the code makes of them
(`NameBefore`: t10 stands before t2);
`Planning` has `predict` with what a program leaves out, replay, simulation, execution
of several actions and breadth-first search, whose `is_goal` may raise (`goal[s]` is the
set of its answers, empty when it does, and so is the set of results); `Toy` the key and door world and the
program shipped for it; `Scoring` the scores in exact fractions, counted in a unit that is a multiple of every
denominator (`Unit`), where the code has floats. They are operators
over one input, recursive functions and folds where the code loops; `MCAlgorithms` walks through inputs a small change apart.

## 3. Runs

| Run | Question | Bounds |
|---|---|---|
| `episode` | Do spending, plans, verdict, audit and the three refinements survive any pattern of failing calls, and does the batch loop end? | budget 2, plans up to 2, all faults |
| `episode_reshaped` | violated: a divergence cancels the unspent plan | budget 2, only unequal shapes |
| `episode_store_down` | violated: a lost outcome ends in OUTCOME_UNKNOWN | budget 1, store and environment faults |
| `sessions` | Do commands run only as seen, and end, with tests that share the worker and answers in any order? | 2 public tests, 1 page, versions below 4 and below 1 |
| `versions` | Is the active model certified, and are ledger, pointer and episode at one, whatever fails? | 3 programs, 2 readings, 2 candidates, budget 2, all faults |
| `versions_reliable` | Does evidence alone remove programs, and does a revision end? | the same, no faults |
| `versions_probe` | violated: a probe separates certified models | the same, no faults |
| `versions_shadow` | violated: only the committed model can end a run | the same, no faults |
| `versions_link` | violated: a promoting event links its source | the same, no faults |
| `run_store` | Does the chain survive concurrent openings, appends and crashes, and is the lock freed? | 2 processes, 1 page, 2 runs, 2 events each, pages of 1 |
| `host` | Does code of others run as declared, answer its own request, and leave its trail? | 2 tests, 2 games, 2 directories, 3 edits; 2 threads, 2 worker slots, 4 calls; 2 programs, 2 plans, 6 requests, 2 actions |
| `algorithms` | Do the pure algorithms agree with their reference definitions? | see below |

Why the bounds are enough. A budget of two has a first action, a middle (a plan
with a suffix after one action) and a last action, plans that fit exactly, are
clipped and are shorter than the budget, and a failure in each place of each
phase; further actions repeat the same states with larger numbers, and the
theorems below hold for every budget.

In `sessions`, versions below 4 take one test through initialisation, induction,
planning and its first real action; the other one is started only, which is enough
to wait behind the first, or to be picked while it runs. A page has a poll and a
command under way, so a stale snapshot and a fresh one, a double click and a torn
snapshot all occur with one; the theorems hold for any number of pages.

In `versions` a budget of two allows three revisions, at histories of 0, 1 and 2
transitions; three programs, one shorter than the others, allow a winner among new
candidates, an old shadow that wins, equal sizes decided by weight and by id, one
program under both readings, and a probe between two shadows and the committed
model. Ids order the programs against their sizes.

In `run_store` the file is new, or holds up to two runs of up to two events without
hashes; two processes open, fill and append at once and each may die anywhere. Two
events make a chain with a link and a page with a next page; two runs show that a
chain does not go over from one to the other. In `host`, three edits change one file
while a start reads it, and again, and another; to begin with, the
directory named after the first game holds it, which `StartCorrect` does not assume (`OneGame`);
two worker slots are a killed worker and its
successor, four calls one per thread before and after a failure. Six requests are a
revision of two candidates, its plan, and a second revision.

In `algorithms`, grids are 3 by 3 in two colors with everything painted (holes,
diagonals, borders) and 9 by 1 in three with two pixels (objects that are too far
apart to be one), any two of them up to two pixels apart; tracked scenes have up to
two objects and any cost; programs and games are a corridor of three cells with or
without a trap, with or without an `is_goal` that raises, up to two edits away, and plans up to three
actions; toy games are up
to two moves off the shortest way, ten in all that can be undone; scores have up to three levels.

What the properties mean, in brief (each definition states it in full):

* `SpendAccounted`, `ImplementsLedger`: intents cover applied actions at every
  instant; at most one outcome is missing; a missing outcome closes the episode.
* `PlanGrounded`, `SpendJustified`: a real action is spent only with a model that
  explains all recorded transitions, in the state that folded them, by a plan
  certified with that model and history; never on a won game, and at GAME_OVER only
  to reset.
* `FinishExplained`, `FinishedRunPassesAudit`: a run finishes once; what is on record
  as finished equals the result in memory, states the true reason, follows the revision
  of a last surprise, and passes the audit; only a model process that would not end
  makes the same run fail on record as well. `RunEnds`: the batch loop comes to an end.
* `ImplementsPhaseControl`: versions tell states apart. `ImplementsTheory`: above.
* `PointerCertified`, `OneTheory`, `ShadowsRevalidated`, `SourceLinked`: the pointer
  names a program whose receipt is there and true at every instant, also after a
  failure; pointer, ledger and episode serve one program, the simplest that reproduces
  every transition; all shadows were replayed with it; a response of the reasoner is on
  record for it. `NothingLost`, `RevisionEnds`: a program that fits is not dropped;
  revisions end.
* `OneFuture`, `GrantedPhaseRuns`, `ViewNamesPhase`, `AutoRunAsks`, `CommandEnds`: a
  test has one future at a time; a phase runs once per accepted command, only as its
  client saw it; a page offers no wrong phase of the present version; auto-run acts on
  a public game only with the consent for that test; every command ends.
* `ServedChainValid`, `EvidenceKept`, `ImplementsRunLog`, `LockFreed`: who has the
  store open sees gapless, linked chains; what an append returned or a page has read
  stays as it was; runs only grow at their end; nobody keeps the write lock.
* `OwnAnswer`, `OneWorker`, `CallsReturn`: an answer is that of its call; a program
  has one worker, which `close` reaches; every call returns or raises.
* `StartDecided`: a started test runs the code its record declares, unless an earlier
  start had strayed to its directory, and a start is refused only when a file changed.
* `RunTraced`: a real action has its model, plan and simulation on record before it,
  and a finished run passes the audit of its generated code, with two exceptions: all
  plans improvised, and the stored shadow of finding 5.
* `SceneSegmented`, `SceneDiffExact`, `TracksStable`, `VerdictIsReplay`,
  `CertifiedPlanStays`, `SearchShortest`, `ToyModelPredicts`, `ScoreRewards`: the
  algorithms against what they are for.

**Fairness.** `Agent` assumes weak fairness of the single thread that runs the
loop: each step's external call returns or raises. The code gives the provider
and the sandbox timeouts; the local environment and SQLite (10 s busy timeout)
return. `Sessions` assumes weak fairness of the worker for each session, for the
same reason; nothing is assumed of clients or of shutdown. `VersionSpace` assumes
weak fairness of a revision, whose calls of reasoner, sandbox and disk return or
raise, and nothing of planning and acting. `RunStore` assumes that a process goes on
with what it has begun, or dies; it need not begin anything. `Sandbox` assumes that a
waiting call gets its answer or its timeout and that the lock is handed on; of the
worker, which runs generated code, nothing.

**Disagreements found.** (1) `compare_grids` raises on frames of unequal shape.
The executor calls it after the outcome is durable and catches nothing, so such a
divergence fails the episode with its plan still pending, where the page
(`gui/static/app.js:677`) and the architecture tour say any mismatch cancels the
unspent plan; the replay verifier treats the same difference as a failed step.
(2) When the append of `action_outcome_unknown` fails as well, the generic handler
reports an ordinary ERROR, where `tests/test_interactive.py:163` and the page
describe OUTCOME_UNKNOWN. The episode is closed either way and spends nothing
more, which `SpendAccounted` and `ImplementsLedger` confirm.
(3) The ledger's consistency flags are those of the last revision. A hypothesis that
mispredicted a transition the committed model matched keeps its weight, and
`BeliefAwarePlanningService`, which is to probe "only when certified models disagree"
(`services.py:138`), spends an action on its disagreement. (4) The same service
replays each weighted hypothesis outside its `try`; a shadow that raises on such a
transition ends the run, where README.md:98 says that only the committed model
controls planning. (5) A stored shadow that wins a later revision is reported
without the request that wrote it, so the audit rejects the run, although an earlier
event has the link (`SourceLinked`) and `docs/running-experiments.md:109` says the
record retains the links of generated source. (6) Met while proving `StartDecided`, and
the reason for its exception: `_claim_source_identity` is to "fail closed if the SDK may
cache older bytes for the same source path" (`env/offline_session.py`), but claims only
the declared path. When a start is refused because the SDK opened another directory, the
module of that directory is kept and unclaimed; a later test that declares it after one
more edit may run the older module. It takes three edits to see it. No run is spent on it, as what the SDK
opens and keeps is modelled from how it is used. (7) `_finish` closes the model's process
after `run_finished` is durable; when that process does not end in time, `close` raises
(`sandbox.py:186`), and the run has a `run_error` beside its `run_finished`, with no
result in memory. `FinishExplained` states this as its one exception.

## 4. Proofs

The theorems hold for every value of the constants, under the named assumptions of
each module. None of the invariants is inductive as it stands; each proof has an
`IInv` that is, one lemma per action or per conjunct, and reads the properties off it.

`EpisodeProofs`, for every budget, plan length and set of faults: `InvCorrect`,
`TypeCorrect` (`TypeOK`), `SpendCorrect` (`SpendAccounted`), `LedgerImplemented`
(`ImplementsLedger`). Assumptions: `Budget` and `MaxPlan` are positive, `Faults` is a
set of the named kinds. The head of a plan is an action only where plans are not
empty, and intents run ahead of outcomes only at two places of the executor. `IInv`
adds `ControlOK` (the phase each place of the code belongs to), `PlanOK` (where an
observation and a plan are at hand) and `SpendOK` (the exact difference between
intents, applied actions and outcomes at each place, and the slack the failed phases
have). `OtherRecord` says that a record of another kind leaves intents and outcomes
alone. `LedgerStep` maps each action to a step of the account or to a stutter:
`RecordIntent` announces, `EnvStep` and `EnvStepLost` spend, `RecordRaw` settles,
`RecordFinished`, `FinishUnreleased` and `Raise` close.

Its second half, under the same assumptions: `JudgedCorrect`,
`PhaseControlImplemented` (`ImplementsPhaseControl`), `TheoryImplemented`
(`ImplementsTheory`), `SpendsAreJustified` (`SpendJustified`) and `FinishCorrect`
(`FinishExplained`). `JInv` adds four parts to `IInv`. `CallOK` says where a call stands
in its phase: up to its move the phase is the one it entered, and an execution that
ended in a surprise has moved already. `JudgedOK` says which transitions the committed
model reproduces: all of them before an action goes out, all but the last until that one
is judged, and not the last while a revision is due. `SeenOK` follows the state of the
game from the environment's answer into the observation, and with it the reason to
finish after a revision and the RESET that a plan made at GAME_OVER starts with. `EndOK`
counts the verdicts and keeps, once a finish is on record, what it states; after it only
closing steps are left (`Closing`), whether the model's process was released or not. `PhaseStep` maps the
moves to steps of the phase graph (`TurnStep`, `SettleStep`, `EndStep` for the kinds of
move); `TheoryStep` maps `RecordRaw` to `Buy`, `RecordAnalysis` to `Judge`,
`RecordModelExecuted` to `Adopt`.

`VersionSpaceProofs`, for every finite set of readings, set of programs, sizes, order
of ids, number of candidates, budget and set of faults: `InvCorrect`, `TypeCorrect`,
`PointerCorrect` (`PointerCertified`), `TheoryImplemented` (`ImplementsTheory`).
Assumptions: ids tell hypotheses apart (`RankAssumption`), sizes are numbers, at least
one candidate is asked for. `IInv` adds to the types `FlowOK` (what each place of a
revision has at hand: a hypothesis under replay, a winner, something left to report),
`ReceiptOK` (receipts in the archive that say passed are true, one in
`verification.json` that says passed is in the archive too, and so is the one being
written) and `ServedOK` (what the pointer names is in the archive, and before a new
promotion it rests on an earlier history; the program that is reported reproduces the
present one, and so does the program that is served). `ReceiptOK` is needed because
`promote` reads only `verification.json`; it carries the truth from `Verify` over two
writes to the pointer, past the other hypotheses that are replayed in between.
`TheoryStep` maps `Act` to `Buy`, the last `Report` to `Adopt`, all else to a stutter.

`SessionsProofs`, for every set of tests, public ones among them, and of clients, any
number of workers and of versions: `InvCorrect`, `TypeCorrect`, `FutureCorrect`
(`OneFuture`), `ViewCorrect` (`ViewNamesPhase`), `GrantCorrect` (`GrantedPhaseRuns`)
and `ConsentCorrect` (`AutoRunAsks`). Two histories meet in an accepted command: what
the client saw, and what the controller did since. `IInv` keeps them together by the
version alone: no offer in flight is of a version to come, one of the present version
names the phase the controller stands before or is in (`OfferInv`), a command carries
its consent from the moment it is sent (`PageInv`), and while a future waits nothing
moves its controller, so its grant stays one of the present version (`GrantInv`).
`RunInv` is the one step lemma of everything a running future does.

`HostProofs`, first, for every number of threads, worker slots and calls: `InvCorrect`,
`AnswersCorrect` (`OwnAnswer`), `WorkersCorrect` (`OneWorker`). `IInv` says at each
place of an exchange who holds the lock, which requests the held worker still has and
which answers lie in its pipe: between exchanges nothing, so the next line is the next
request's; a worker that broke this is dead or no longer held.

`RunStoreProofs`, for any number of processes, runs, pollers and events: `InvCorrect`,
`ChainCorrect` (`ServedChainValid`), `LogImplemented` (`ImplementsRunLog`). A valid
chain is not inductive, since a file from before hashes has none while it is being
opened. `IInv` says that every row of the file is unfilled or every row is filled
(`FileInv`); that the rows an opening has updated and not committed are linked to each
other and are held under the lock (`FillInv`, `LockInv`); and that, as long as the file
is unfilled, an opening has every event behind it, among its updates, or before it, in
what it has still to read (`PlaceInv`, `CoverInv`). So the first opening to commit
fills the file completely and consistently (`FinishFills`), whatever others have read
before, and every later one changes nothing (`FinishKeeps`). `LogStep` maps `CreateRun`
to `Create`, `Commit` to `Extend`, and all else, backfill and crash included, to a
stutter.
`EvidenceCorrect` (`EvidenceKept`) adds `KeptInv`: what was
given out lies in a file that is filled, so no backfill can change it, and rows are never
removed. That a page is the next stretch of its run (`PageFollows`) needs the rank of an
event in the order of sequence numbers, which the chain makes its place; `After` is
therefore written with ranks.

`EpisodeEvidenceProofs`, under the assumptions of `EpisodeProofs`: `GroundedCorrect`
(`PlanGrounded`) and `AuditCorrect` (`FinishedRunPassesAudit`). `PlanGrounded` speaks of
the moments between two phases; `GInv` extends it to every place of a call. `FoldedOK`:
the state and the observation follow the transitions but for the one being settled.
`PendingOK`: the plan of a call and the pending one are the rest of the last plan
committed, by as many actions as were spent since. `LineageOK`: that plan was certified
with the committed model on the history of that moment, and the transitions after it are
those bought with it. `PairedOK` says how far intents, raw outcomes and analyses of one
action agree while only some of them are written. In a phase that has not failed only the
last action can be incomplete, so when the finish is recorded none is, and `FinishedOK`
keeps that over what may still fail.

`VersionSpaceProofs` also has, under the assumptions above, `OneTheoryCorrect` (`OneTheory`),
`ShadowsCorrect` (`ShadowsRevalidated`), `SourceCorrect` (`SourceLinked`) and, with
`Reliable` (no fault of the sandbox and the disk), `LossCorrect` (`NothingLost`).
`NothingLost` is meant for sandbox calls that end in time: a replay that times out counts as
a failure of the program, so the property is false without `Reliable`. The run that checks
it has no faults at all; the theorem lets the reasoner fail. `AccountOK` says that every known hypothesis is up to date or
still to be replayed and that what passes is what the ledger calls consistent, `WeightOK`
what is true of those with weight and of the winner, `LinkOK` who has a linked event,
`LossOK` that verdicts are the truth.

`HostProofs`, second, for every set of tests, games, directories, programs and plans and any number
of edits, candidates, readings, requests and actions: `StartCorrect` (`StartDecided`) and
`TracedCorrect` (`RunTraced`), of the specifications `GameSources` and `Trail`, and
`HostCorrect`, that the process of the run keeps both. `SourcesInv` orders the contents of a
file: what is declared is not newer than the file (`ContentInv`), what a start claimed stays
claimed (`ClaimInv`), a module kept is the claimed content or the file was edited since
(`ModulesInv`), and the last comparison of a start excludes that (`CodeInv`). The only
assumption is that the bound on edits is a number. `TrailInv` follows the evidence from hand
to hand: an answer to a candidate, to a hypothesis, to the report of its promotion, to its
execution; an answer to a plan, its event, its simulation. `RevisionsInv` and `PlansInv` say
what a promoted program or a generated plan still lacks and at which place of the run it
gets it; when the run finished, nothing lacks. Nothing is assumed of the reasoner.

`PerceptionProofs` and `ProgramProofs` are about the pure algorithms. Each has a theorem
for every input of its kind, and one, `Spec => []...`, for the inputs of `MCAlgorithms`
without the bounds TLC needs:

| Algorithm | For every input | Of the run |
|---|---|---|
| tracker | `UpdateTracks`: any objects, costs and limit, any earlier names that differ | `TrackerIsStable` (`TracksStable`) |
| segmentation | `ScenesSegmented`: any finite grid, any background, both ways of stepping | `SceneIsSegmented` (`SceneSegmented`) |
| difference | `ScenesCompared`: any two grids of one shape | `SceneDiffIsExact` (`SceneDiffExact`) |
| scores | `ScoresReward`: any levels, natural baselines and actions, as exact fractions | `ScoreIsFair` (`ScoreRewards`) |
| replay | `VerdictRetells`: any program whose calls return at most one state, any history | `VerdictIsRight` (`VerdictIsReplay`) |
| simulation, execution | `PlanStays`: any such program and game, any plan | `CertifiedPlanHolds` (`CertifiedPlanStays`) |
| search | `SearchFindsShortest`: any such program of finitely many states, `is_goal` raising or not, any limits | `SearchIsShortest` (`SearchShortest`) |
| toy world and program | games of moves of any length | `ToyPredicts` (`ToyModelPredicts`) |

The only assumptions on the constants are that bounds are numbers (`BoundsAssumption`) and
that grids have natural sizes and integers for colors (`GridsAssumption`). A program may leave out what it likes and raise where it likes; that each of its calls
returns at most one state (`Single`) is no restriction, as `Planning` models a program by
what its one run returns.

The algorithms are recursive functions and folds, and what they compute is an induction
over their input. The induction theorems of the library take the predicate as an operator,
which the provers cannot instantiate; `Induction` takes a set of numbers instead, and rests
on the well-founded order of finite sets. `FoldExists` builds the function a fold chooses
and `RunExists` the one a recursion over 0..n defines, so that each algorithm can be read
as a run: `VerifyFact` and `ReplayRun` for the replay, `SearchFact` and `VisitType` for the
search, `TakingRun` for the tracker, `TotalRun` for sums. The invariants are then those of a
loop. Tracker (`TakenFact`): what is taken of a prefix of the queue is near enough, takes
nothing twice, and leaves out no pair but for one before it; `Places` and `QueueFact` say
that the queue is sorted. Replay (`Agree`): as long as all predictions were right, the
corrected replay, the program left alone and the state replayed for planning are in the same
state, and once one was wrong the verdict stays false. Execution (`Along`): without a
surprise the execution is on the rollout the simulation followed. Search (`SearchInv`): the
queue is ordered by the length of shortest paths that differ by one at most, what is nearer
than its head has been seen and is done, and every state is queued once. Scores: `Unit` is a multiple of 20 and of the square of every number of actions up to
`most` (`UnitExact`), so no quotient is rounded (`LevelScoreExact`), whatever the number
of actions. The code's floats differ from these fractions by their rounding only, which
the theorems do not speak of. Toy: the world is
walled in with everything it remembers, and the program has computed the grid, player and
key of the world it follows.

The scenes need geometry and no induction beyond that of sums and floods. A flood is the
least set with its seed that is closed under steps through the area (`FloodReaches`), so a
region is a closed set with nothing smaller inside (`IsRegion`, `RegionsFact`): the regions
partition the area, and two of one color are not joined (`RegionsNotJoined`), also for
steps across corners, which may join what is not side by side. The code finds holes by a
walk around the enlarged box of an object; what that walk does not reach is what no walk
from outside reaches (`GapsEnclosed`, `HolesEnclosed`), as one cell beyond the box on every
side is free. The ranking of objects is a strict total order, since two of one color never
share their first pixel (`ObjectsOrdered`); so the scene lists each of them once
(`SceneLists`). A matching uses each object once because at most one is nearest
(`NearestOne`, `MatchedOnce`); of a scene with itself every object is nearest to itself, at
distance zero (`NearestSelf`, `MatchedSelf`), and two scenes of one figure are the same
(`SceneOfFigure`), so they have no difference; and what has no difference shows one figure
(`EqualShows`). `GridInv`, the
inductive invariant of the run, says that both grids have exactly the pixels of their bound, and
integers on them, after any number of painted pixels.

Only model-checked, because out of the prover's reach: liveness under fairness (`RunEnds`,
`RevisionEnds`, `CommandEnds`, `LockFreed`, `CallsReturn`). Every other property of a
passing run is a theorem. What a theorem says of `SceneSegmented` and the other properties
of `MCAlgorithms` does not depend on the sizes in its configuration.

## 5. Not modelled, and what could follow

Left out: prompt texts and the search for a source block in an answer; the syntax
check of generated source (`models/contract.py`); command-line parsing and printing;
the third-party SDK and the providers beyond "answers or fails"; drawing, timeline and
list refreshing of the page; the formatting of run and inspection answers; what is
displayed and decides nothing (`lastError`, worker errors, manifests, notes).

Abstracted where a finer model could follow: the entropy that ranks probes is the
choice between models that disagree (`PlanProbe`); a comparison that raises on unequal
shapes is in `Episode`, not in `Planning`; the comparison of asset files by the audit;
the mean over games in `benchmark_score`; the files of one directory are read in one
step, and contents do not recur, in `GameSources`; events of an episode in `Trail` are
those that bear on generated code, the others are in `Episode`.
