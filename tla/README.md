# Verification of code-migrator

TLA+ models of the migration agent in `src/`, TLC configurations that check them on small
instances, and TLAPS proofs of the properties that matter most. Paths below are relative to
`src/src/migrator/` unless they start with `src/`.

## 1. The system and what can go wrong

`migrator` turns one application into another step by step. Each command is one process; the
processes communicate through files (the plan, the skeleton, the target repository with its
git history and `.migrator/state.json`, the baseline folder, the LLM cache) and through the
Docker daemon.

| component | state it keeps | operations | what makes it correct |
|---|---|---|---|
| migration loop `migration/loop.py` | attempts and status of each unit, in memory and in `.migrator/state.json` | walk the plan; ask, check, write, test, commit or block | only finished, passing code is called green; a failed attempt leaves nothing behind; a stopped run can go on |
| unit policy `migration/policy.py` | none | `allowed_paths`, `check_change`, `check_done` | a unit writes only its own files and never the ones that judge it |
| target repository `migration/gitrepo.py`, `migration/models.py` | working tree, index, branch `migration`, `state.json`, reports | `ensure`, `commit`, `restore`, `load`, `save` | git, `state.json` and reports agree, also after a stop between two writes |
| sandbox checker `migration/checker.py` | a workspace with the installed dependencies | open, `_sync`, `check` | the verdict is about the tree that will be committed |
| workspace and file listing `sandbox/workspace.py`, `repository/local.py` | a throwaway copy | copy, list, delete | every relevant file is copied, and of the named secret files none into the first copy |
| LLM client `llm/` | answer cache, list of calls, usage log | `structured` | a cached answer is the one that was given for the same question; calls are counted once |
| sandbox runner `sandbox/runner.py`, `sandbox/docker.py` | containers of the Docker daemon | `run`, `ensure_image`, `cleanup_stale` | every step ends, no container stays, a verdict is never invented |
| app environment `baseline/environment.py` | one network, up to three containers | start, wait, stop | everything is removed, whichever step fails or is interrupted |
| recorder and baseline `baseline/recorder.py`, `baseline/baseline.py`, `baseline/database.py` | database rows, traces of each run | reset, play, snapshot, diff, compare runs | the recorded effects belong to the step; STABLE means the runs agreed |
| comparison and normalization `baseline/compare.py`, `baseline/normalize.py` | none | `normalize`, `find_differences`, `propose_rules` | equal means equal up to the approved rules |
| mutation testing `baseline/mutation.py` | the mutated file of the workspace | apply, test, put back, score | one mutant at a time: a verdict is about that mutant alone |
| dependency graph and units `analysis/graph.py`, `planning/units.py` | none | condensation, topological order, numbering | a unit comes after all it depends on |
| layout `planning/layout.py`, `planning/llm_mapping.py` | none | target of a source file, validation of the LLM's mapping | every file mapped once, tests stay tests |
| ledger `ledger/build.py` | none | match source items to target items, waivers | complete means nothing is missing or different without a waiver |
| skeleton `skeleton/` | none | render and write files | it is the starting tree of the target repository |
| concept extraction `concepts/`, `adapters/frameworks/` | none | declarations to routes, fields, tables, columns, errors; check against a real schema | what one adapter writes another reads back the same; the schema check accepts exactly the columns that are there |
| source analysis `analysis/`, `adapters/languages/` | none | parse, resolve imports, warn | every file an import takes its names from is an edge, or there is a warning |
| command line `cli.py`, `log.py`, `config.py` | the files between commands | run the commands, in any order | a check is about what is on the disk now |

The hard parts are the ones a unit test hardly reaches: the process can be stopped between any
two of its writes to three different stores (working tree, `state.json`, git); attempts of one
unit follow each other in one working tree; later runs start from whatever an earlier one left;
units may share target files; the sandbox and the LLM answer anything; containers outlive the
process that started them. `PROJECT.json` lists each of these hazards with its line and the
properties aimed at it.

## 2. Modules

```text
MigrationPolicy          policy.py: what a unit may write, what is refused, what is done
   ^        ^
TargetRepo  |            gitrepo.py and MigrationState: what is on disk
   ^        |
MigrationLoop ---> MigrationHistory     loop.py ... implements the abstract git history
                                        [MigrationLoop_proofs]

DockerHost               the Docker daemon as the code uses it
   ^        ^
SandboxRun  AppEnvironment              runner.py and docker.py; environment.py
                                        [SandboxRun_proofs, AppEnvironment_proofs]

LLMClient                client.py: cache, calls
   ^
UnitDialogue             one unit of loop.py from the point of view of what is asked
                                        [UnitDialogue_proofs, of both modules]

TraceCompare             normalize.py, compare.py: operators on JSON trees
   ^
Recorder                 recorder.py, database.py and create_baseline of baseline.py
                                        [Recorder_proofs, of both modules]

Workspace                workspace.py, local.py, mutation.py and the sync of checker.py
                                        [Workspace_proofs]

Concepts                 what the framework adapters read; schema_check.py
   ^         ^
Ledger    Skeleton       build.py; the rendered app, what it answers, and check.py
   ^         ^
Translation              the commands skeleton, ledger, concepts between people's changes
                                        [Translation_proofs]

ImportGraph              the import resolvers, analyzer.py, nodes and edges of graph.py
   ^
MigrationPlan            graph.py, units.py, planner.py, llm_mapping.py, layout.py
                                        [MigrationPlan_proofs]
```

Every component `X` has a module `MCX` with the constants of its instances for TLC and one or more
`X_<run>.cfg`. A definition preceded by "Mutated form" is the previous or following operator with a
plausible bug; no specification uses it, and each one breaks the property it is listed with in
`PROJECT.json`, which shows that the property depends on that line of the code.

### MigrationPolicy

A file is a path, its text one of `absent`, `stub`, `good`, `bad` (and `invalid` in an answer):
exactly what the rules and the test suite can tell apart. `Target`, `OwnTest`, `TestUnits` are
the plan; nothing says that two units have different targets, because the convention layout
does not. `Allowed`, `CheckChange`, `CheckDone` are `allowed_paths`, `check_change`,
`check_done`.

### TargetRepo

The disk: `repo` (is there a `.git` folder), `tracked` (paths in the index), `head` (files and
`state.json` of the last commit), `work`, `saved` (`state.json`), `torn` (it is truncated),
`reports`. One operation per write: `git init`, `git add -A`, `git commit`, restoring one path,
writing one file, saving the state, writing a report. `restore()` treats a path git does not
track as new and deletes it, and `git checkout HEAD -- path` fails for a path that is tracked but
not in HEAD (`CanRestore`). The index needs no contents: every commit follows `git add -A` with
nothing written in between.

### MigrationLoop

The process. `pc` names the next write or decision, `cur` is the position in the plan, `mem` the
state in memory, `answer` and `todo` drive the loops over files. The actions follow `loop.py`
line by line (see "map"): `Start`, `EnsureInit/Add/Commit`, `Load`, `OpenChecker`, then for each
unit `PassOver`, `SkipUnit` or `StartUnit`; for each attempt `AskFails`, `AskRefused` or
`AskAccepted`, `RestorePath`, `Restored`, `WriteAnswer`, `Written`, `CheckGreen` or `CheckRed`,
`SaveFailed`; at the end `SaveGreen`, `GreenAdd`, `GreenCommit`, `SaveStamp` or `GiveUp`,
`Report`, `SaveBlocked`, `BlockedAdd`, `BlockedCommit`; and `EndAdd`, `EndCommit`. `Crash` stops
the process before any of these steps: a kill, Ctrl-C, or an exception nobody catches. `CrashPoints`
says where, `CommitPoints` are the steps between a `git add` and its `git commit`. `raised` is set when a
run dies of what it found: a `state.json` that does not load, a `git checkout` that fails. The LLM
may give any of `Answers` or fail; the sandbox may fail on any tree and passes only one with no
`bad` file.

Abstracted: the text of prompts and files, notes, models and token counts, the error texts, the
order in which `restore` and the write loop take their paths (any order), `.gitignore`, and the
`index.lock` that a killed git may leave. A
source file truncated by a stop counts as one of the contents an answer may give it.

### MigrationHistory

What someone who reads the git history relies on: every commit settles at most one unit; only a unit
that becomes green changes code, only its own files, and then it is finished; the suite passes
with every commit. `MigrationLoop!ImplementsHistory` maps `files` and `status` to the last commit
(before the first one, to the skeleton and all pending).

### DockerHost, SandboxRun, AppEnvironment

`DockerHost` is external: what the daemon does when `docker run`, `kill`, `rm -f`, `inspect` and
`ps` are called the way `docker.py` and `environment.py` call them. A container is `asked`, `up`,
`exited` or `gone`; it keeps its exit code and whether a process of it hit the memory limit, even
when it is gone, so that a verdict can be compared with what happened. `Flaky` lists the commands
that may fail although they could succeed.

`SandboxRun` runs `run_toolchain` and `DockerSandbox.run` in several processes: `StartRun` or
`NothingToRun` (what `only` selects), `EnsureImage` or `CannotPull`, then for each step `Launch`,
`ClientReturns` or `TimesOut`, `KillStep` (`docker kill` and the second wait), `Inspect` (the memory
kill), `RemoveStep` (`docker rm -f`), `Judge` (stop at the first failure, or `FinalVerdict`). `Stop`
is a kill or Ctrl-C; `Cleanup` lists the labelled containers and removes them one by one, under
whatever is running. Left out: the allow-list, hardening flags, mounted folders, the tail of the output.

`AppEnvironment` has one action per docker command of `_start` and `_stop`, each of which may fail,
plus the two waits. `docker run -d` and `docker network create` are two steps, the command and the daemon's
answer (`DaemonAnswers`, `NetworkAnswers`). Leaving by an error, by `Interrupt` and by the end of the `with`
block go through the same stop sequence. `Interrupt` is a Ctrl-C at any step, inside an unanswered command and
inside `_stop` included; `abandoned` remembers what it gave up before the daemon had answered, which may
still come up after `_stop` has been there. Postgres first listens on the unix socket only; `wait_ready`
asks over TCP. A network is removed only when no container is attached to it.

### LLMClient, UnitDialogue

`LLMClient` is `structured()`: `Ask`, then `Hit`, `Miss` or `Undecodable` on the cache file, the
provider's answer or failure, `RecordCall`, and the write of the cache file in two steps
(`Truncate`, `Fill`), so that another command or a stop can come between them. A key is everything
that goes into the digest. Left out: rendering and redaction of prompts, sums of tokens, the append
to `usage.jsonl`.

`UnitDialogue` extends it with the attempts of one unit over several runs: what makes two questions
different is the model (`Tier`), the attempt shown, the failed stage with its text, and the last
answer. The sandbox's text may be the same every time, which is what makes replay possible.

### TraceCompare, Recorder

`TraceCompare` has the pure part of the comparison. A JSON value is a function from positions to
nodes, a path a position whose list indexes are `[*]`. `Normalize` replaces leaves only; `Differences`
goes down as long as both sides are objects, or lists of one length, and takes a missing key for null;
`ProposeRules` looks at the first pair of runs that differs at a path, and there at the first position.

`Recorder` plays a suite `runs` times on one app (external): `record_schema`, `record_suite`,
`record_scenario`, `reset`, `snapshot`, `diff_snapshots`, then applies the approved rules, compares the
runs and proposes rules. Requests create, remove and log rows, read, create a table on first use,
queue a write that is done later (`LateWrite`, at any time), or answer differently each time in one of
five ways (`Varying`: a time, a time or null, lists of different length, a key that may be missing,
another status). The database is a bag of rows, because rows that are all alike are told apart by
their number only. `seen` keeps the runs as they were before the rules, so that a property can say
what the rules hid. `Raise` is an exception that `create_baseline` does not catch. Left out: the
choice of hold-out scenarios, loading suites and rules, writing the result.

### Workspace

One copy of a repository and the two commands that keep it for many rounds. `baseline` builds,
records, and tests mutants: `Apply`, `Rebuild` or `DoesNotBuild`, `Test`, `PutBack`. `migrate` installs
once and syncs before every check: `ChangeTarget`, `Sync`, `Suite`. `dist` is what the built app was
compiled from. A source file is a sequence of syntax nodes, which is all that `find_mutants` looks at;
any sample of the right size may be picked. Whatever runs in a container may write a file or a symlink
into the copy (`WritesInto`, `linked`): `files()` does not list symlinks, and `_sync` writes through one
where the target has a file. A symlink is taken to point out of the copy; where writing through it fails,
the command ends. `Leave` is every way out of the `with` block, a Ctrl-C and such an error included. The
first copy leaves out the five names of `SECRET_FILES`, a constant here; no property is about them (section 6).

### Concepts, Ledger, Skeleton, Translation

`Concepts` starts where tree-sitter stops: an app is given by its declarations with file and line, and
each adapter (NestJS, TypeORM, FastAPI, SQLAlchemy) turns them into concepts with keys and
attributes, if its framework is among the packages of the app (`SourceConcepts`, `TargetConcepts`: the
`detect` of `build_concept_model`). `SchemaProblems` is `check_against_runtime`. Environment variables and
column types are left out.

`Ledger` matches two sets of concepts by kind and key, compares the first of each group, and applies
waivers.

`Skeleton` renders: handlers with unique Python names, the login dependency in the target of the first
guard (`LoginFile`), fields, tables, columns, the files of the routers and tables that `main` includes, the
expected routes of the smoke test, the packages of `pyproject.toml`. `uses` has what a router or a table
imports from another rendered file: request models, the login, `Base`. `Builds` is what the sandbox makes of
it: every import resolves and no name is defined twice in a module or class, which mypy asks of every file
(`Typechecks`); the modules that `main` loads do not import themselves or each other (`Imports`, `Circular`);
every table has a primary key and a name of its own (`TablesLoad`); the routes of the smoke test are there.
On startup every foreign key must find `<table>.id` (`Starts`). The targets of a plan may be the files the
generator uses itself (`AuthFile` and so on). Then what the rendered app answers to a request (external: Starlette takes the first
route that fits, FastAPI asks dependencies before it validates) and the boot check on top of it. Nothing
is sorted: a handler stands at its `Place`, the number of routes of its file before it, a name in use
already gets an underscore for each use before it, and what `main` serves is tried in the order of files
and places (`Served`, `First`). A target app has the shape that the FastAPI and SQLAlchemy adapters read,
so that `TargetConcepts(Generate(...))` composes both directions of the translation. Left out, besides text:
column types and defaults; targets that are an `__init__.py` or below `tests/`; classes of the source with
the name of something the generator imports from a library (`Text`, `BaseModel`, `Depends`); that Postgres wants
the column of a foreign key to be unique.

`Translation` runs the commands on a disk: `NewSkeleton`, `ForceSkeleton`, `CheckSkeleton` (with the
`uv.lock` it keeps), `RunLedger`, `CheckSchema`, in any order with `ChangeSource`, `ChangeTarget` and
`Waive`. The plan does not change.

### ImportGraph

Operators from the import statements of a repository to its graph. A path is the sequence of its
segments, each split at its dots, so that extensions, `index` files, `__init__.py`, dotted module names
and `src/` as a root are what the code makes of strings, without strings. `ResolveTypeScript` and
`ResolvePython` are the two resolvers with their order of candidates, `Parsed`, `Warned`, `ImportEdges`
and `GraphNodes` what `analyze` and `CodeGraph` make of them. `Uses` is external: the file an import takes
its names from in its language, for the imports TypeScript and Python themselves accept.

### MigrationPlan

It starts from an analyzed repository (`ImportGraph`). One action per loop iteration of the planning stages:
`Condense`, `PlaceGroup` (one round of the lexicographical topological sort), `BuildUnit`, `Layout`,
`Ask`/`AskFails`, `Adopt` or `Reject`, `CheckOrder`. Targets are told apart as `validate_mapping` does. Left
out: the wording of packages and stems, concepts, risks and reasons.

## 3. Runs

| run | specification | question | result |
|---|---|---|---|
| `clean` | `MigrationLoop!Spec`, 4 units with shared targets, 2 attempts, no stop | is anything committed that is not green, finished and passing? does an attempt see another one? does git evolve as `MigrationHistory` promises? | holds |
| `crash` | `ResumedSpec`, 2 units, up to 2 stops at any step, `state.json` may be truncated | what stays true whatever happens? does a later run die of what a stopped one left? does every run end? does a unit saved green reach git? | holds |
| `sweep` | 1 stop after `ensure()` | does git hold code of green units only? | violated |
| `sandbox` | `SandboxRun!FairSpec`, 1 process, 2 steps, five kinds of request, stops, cleanup at any time | is "passed" ever said of what did not happen? does anything stay? does every run end? is what a stopped process leaves removed? | holds |
| `environment` | `AppEnvironment!FairSpec`, with database, 1 Ctrl-C at any step, cleanup at any time, flaky inspect | is the environment left, and nothing behind but what a Ctrl-C gave up unanswered? | holds |
| `cache_shared` | `LLMClient!Spec`, 2 commands, 2 questions, 2 answers, 1 stop, files torn and cut | does an answer belong to its question? | holds |
| `dialogue_more` | `DialogueSpec`, 3 runs with limits 1 to 3 | does a retry with more attempts call the LLM? | holds |
| `dialogue_replay` | 2 runs with limit 2 | does every retry ask the LLM? | violated |
| `recorder` | `Recorder!Spec`, 39 cases: deterministic, lazy, late and five varying apps, 0 to 3 runs, with and without rules | are effects booked completely? does "stable" hide anything? do the proposed rules settle what they can? | holds |
| `planning` | `MigrationPlan!Spec`, 1024 graphs over 4 TypeScript files, 3 repositories with every other kind of import, 10 answers | do units come after what they use, or is somebody warned? has every file a target? is there always a plan? | holds |
| `workspace` | `Workspace!Spec`, 2 source files with 3 mutants, up to 3 changes of the target, files and symlinks as litter | is a mutant judged alone? does a check judge the target? | holds |
| `skeleton` | `Translation!Spec`, apps of two controllers, of one request body, of one or two entities, six layouts, 1 change, 1 waiver (1,081,104 states) | is what is rendered read back the same? is a request that only guarded handlers can get answered 401 once the check has passed? does a fresh skeleton pass, and if not, why? what does a complete ledger cover? | holds |

Properties marked `[clean]` in `MigrationLoop` describe the loop by itself and are false when a run
is stopped in the middle: `sweep` shows the shortest such history for one of them.
"findings" in `PROJECT.json` quotes, for each violated run, the line that promises otherwise; section 6 says
what happens in it, and which other properties are false.

Bounds of the loop. The plan of `clean` has a unit without a target, two units that share a file,
one that names a protected file, and a test unit; the LLM's answers include each unit's complete,
incomplete, failing and refused answer, and every answer is foreign to the other units. Two
attempts per unit are enough for a failure, a retry that must not see it, and the limit. A run
can be repeated without bound with three `--units` selections, so blocked units are retried and
green ones passed over. `crash` has two units with disjoint targets: one is interrupted while the
other is settled. Two stops allow a stop in a run that resumes a stopped run. They come at
every step, inside `ensure()`, a commit and a save too, so that `StoppedRunResumes` meets both of its exceptions;
`crashes.inCommit` remembers the second one. `MaxCrashes`,
`CrashPoints` and `MayTear` are the only bounds of that model that are not the program's.

Bounds of the others. Processes in the sandbox share nothing but what the cleanup does to their containers,
so that one process beside the cleanup shows it all; two steps are enough for a failure that must end the
run. One environment is enough because its names are its own: it only meets the cleanup. One Ctrl-C comes at
every step of start and stop, answered or not; a second one inside `_stop` ends it there (`killed`), where
nothing is claimed. Two commands on one cache meet in all orders of look-up and write;
`MaxPaid` only caps how often a question is asked again. Limits 1 to 3 over three runs give a shorter, an
equal and a longer retry. The suites contain rows that are alike, rows removed that an earlier step added,
and writes that come late; two scenarios meet at a reset; three runs give a pair of runs that agrees beside
one that does not. Four files hold cycles of every length up to four and two cycles that meet; the other
three repositories have an import of every form each resolver tells apart, found and not found, and files
that are imported but not parsed; the answers have each problem `validate_mapping` knows, and none. A file
with two operators that can be swapped gives mutants that follow each other in one file, the second one
another file; three changes let a file appear, change and disappear between two checks, also under ignored
folders and under the name of the installation; a report that suites write may be a file or a symlink, where
the target has a file or none. The apps of `skeleton` put every pair of a path with a
parameter and one that it hides into every order of registration and of files, with and without login, with
two handlers of one name or one key, whose bodies may share the name of a field; the fields have every kind
of validator; the entities every kind of member, tables without a key, keys that are not called `id`, two members on one
column, an entity that is a request body; some manifests lack NestJS or TypeORM. The six layouts keep the order
of two files, change it, put both into one, leave one without a target, and use the files of the generator
itself; the guard has a file of its own, a controller's, the database's or `app/main.py`. One change and one waiver show what an outdated skeleton,
ledger or lock file does.

Fairness. The migration loop: `WF_vars(Step)`, the process is sequential and every call it makes
returns (the OpenAI client and the sandbox steps have timeouts). `ResumedSpec` adds that somebody
starts the command again when it is not running and that the sandbox eventually lets it begin
(`SF_vars(OpenChecker)`, because installing may fail any number of times); nothing makes the LLM
answer or the suite pass. `SandboxRun` and `AppEnvironment`: every process goes on, which covers its
time limits (`TimesOut`, `DbTimeout`, `AppNotUp`), and the daemon answers every `docker run`; nothing
makes a program in a container end, Postgres come up or the app listen. `LeftoversAreRemoved` has
its own premise, that the cleanup is run again and again; the other properties of the run do without
it. `MigrationPlan`: the command goes on. The other modules state no fairness: their properties are
about what may never happen.

## 4. Proofs

A theorem holds for every value of the constants that satisfies the named assumptions of the
modules, which TLC evaluates in every run: any plan, any answers, any number of processes,
files, attempts, containers, mutants. `EXTENDS` gives each proof module the specification that
TLC checks, so that run and theorem are about the same formulas.

| module | theorem | states | provided that |
|---|---|---|---|
| `MigrationLoop_proofs` | `TypeCorrect` | `TypeOK` | |
| | `EveryBlockedHasReport` | `BlockedHasReport` | |
| | `GreenStaysGreen` | `GreenIsFinal` | |
| | `ProtectedStayUntouched` | `ProtectedUntouched` | |
| | `GreenCommitsHaveCode` | `GreenCommitHasCode` | no two units share a file (`Disjoint`) |
| | `SharedCodeStaysFinished` | `GreenCommitHasCode` | no stop (`MaxCrashes = 0`), and no unit with code has another's test file as a target (`TestsApart`) |
| | `CommitsPassSuite` | `HeadPassesSuite` | no stop |
| | `CommittedCodeIsGreen` | `OnlyGreenCodeCommitted` | no stop |
| | `AttemptsAreIndependent` | `AttemptOnCommittedTree` | no stop |
| | `TreeIsLastCommit` | `NothingLeftBehind` | no stop |
| | `BlockedIsExhausted` | `BlockedAfterAllAttempts` | no stop |
| | `StoppedRunsResume` | `StoppedRunResumes` | any number of stops, anywhere: the property names its two exceptions |
| | `LoopImplementsHistory` | `ImplementsHistory` (refinement) | no stop |
| `SandboxRun_proofs` | `PassedIsForReal` | `PassedForReal` | `docker inspect` answers (`"inspect" \notin Flaky`) |
| | `FinishedRunsLeaveNothing` | `NothingLeft` | `docker rm -f` works (`"rm" \notin Flaky`) |
| `AppEnvironment_proofs` | `EnvironmentLeavesNothing` | `EverythingRemoved` | `docker rm -f` works |
| | `AppWaitsForDatabase` | `AppStartsAfterDb` | |
| `UnitDialogue_proofs` | `ReturnedAnswersAreGenuine` | `AnswerWasGiven` | |
| | `LastCallIsOwn` | `LastCallIsThisOne` | |
| | `UnitUsesClient` | `DialogueSpec => Spec` (refinement) | |
| | `MoreAttemptsReachTheLLM` | `MoreAttemptsAskAgain` | |
| `Workspace_proofs` | `MutantsAreTestedAlone` | `OneMutantAtATime` | |
| | `SuiteJudgesTheTarget` | `CheckJudgesTarget` | |
| `MigrationPlan_proofs` | `UsesComeFirst` | `DependenciesFirst` | |
| | `UnitsAreTheCycles` | `UnitsAreCycles` | |
| | `TargetsAreAllowed` | `EveryFileHasItsTarget` | |
| | `OrderNeverStuck` | while a group waits, one can be placed | |
| `Translation_proofs` | `CompleteLedgersCover` | `CompleteLedgerCovers` | |
| | `SchemaChecksAreExact` | `SchemaCheckIsExact` | |
| | `BootCheckFailsClosed` | `FailsClosed` | no segment `1` or `{}` in a path (`PlainSegments`) |
| | `FreshSkeletonsBoot` | `SkeletonBoots` | `PlainSegments` |
| | `FreshSkeletonsAreMapped` | `SkeletonIsMapped` | |
| `Recorder_proofs` | `RecordedEffectsAddUp` | `EffectsAddUp` | |
| | `StableRunsHideNothing` | `NothingHidden` | |
| | `DeterministicAppIsStable` | `DeterministicIsStable` | |
| | `ApprovalSettles` | `ApprovedRulesSettle` | |
| | `RecorderTyped` | each run has a trace for each scenario, each trace an observation for each step played | |
| | `RunsAreComparable` | the verdict is that of `find_differences` on the finished runs | |

The conditions are not there for the prover's sake: without them the properties are false, by what
section 6 tells of stops and of a flaky `docker rm -f`; for `Disjoint`, when a unit is stopped between two
writes to files it shares with a green one and the next run commits what lies there. `"inspect" \notin Flaky`: a
failed `docker inspect` is taken for "no memory kill" (`sandbox/docker.py`). `PlainSegments`:
the boot check puts the value `1` for every parameter, and a key has `{}` there. Where an app has such a
segment itself (`/users/1` before `/users/:id`), the probe of the second route is answered by the first,
and a login that is missing from the second goes unnoticed. And `/a/:id/{}` and `/a/{}/:id` have one key, so that the check asks for one of the two
only and judges both by the answer, also when one is guarded and the other is not. The apps of the run have
no such segments.

The arguments:

* **Loop, with stops.** `TypeInv` is `TypeOK` plus: `cur` is a unit at the steps of a unit, an attempt
  starts below the limit, the answer being written was accepted and the paths still to do are the
  unit's own. `MemoryInv`: a unit green in `state.json` is green in memory once it is loaded, the unit
  being attempted is not green, and at most the report of the unit being given up is owed. `SavedStep`
  shows that only `SaveState` changes `state.json`, with what is in memory. `FinishedInv` says
  `GreenCommitHasCode` of `state.json` and memory against the working tree as well, because a commit of
  another unit records both; behind it is `OtherUnitsKept`: a write touches only the unit being attempted.
* **Loop, resumed.** `StoppedRunsResume` needs little of what the process does: `IndexInv` says that
  whatever the index has is in the last commit, but at `CommitPoints`, as long as the process was never
  stopped there; before the first commit nothing is tracked. So `git checkout` finds whatever `git ls-files`
  lists, however the working tree was left, and only a truncated `state.json` can end a later run.
* **Loop, without stops.** The properties are about git, but git records whatever is in the working tree
  and in `state.json`, so the invariant `CleanInv` relates all three. `GitInv`: the index has what the
  last commit has, but between the two steps of a commit, and the first run has its own states.
  `TreeInv`: between units the working tree is the last commit; inside an attempt it differs by the
  unit's own files, then by the paths still to be restored, then by the part of the answer already
  written. `StatusInv`: memory, `state.json` and git call each unit the same, but for units without a
  target and the one whose outcome is on its way. `CodeInv`: what was accepted is finished and passes.
  `TriesInv`: a blocked unit has used all its attempts, also while it is retried. Units may share files.
  A green commit leaves other green units finished, because whoever rewrote a shared file was checked
  for the same (`FinishedTogether`). For the refinement each step of the loop is shown to be a step of
  `MigrationHistory` or a stutter (only the three commits change what the mapping reads).
* **Containers.** Both proofs begin with what the daemon can do: `Undisturbed` is what anything but
  the owner of a container may do to it. `BoxesInStep` and `InStep` say how far a process and its
  containers have got with each other: not asked before its step, ended once the client returned, and gone
  only by a refusal or the cleanup. Without them the invariants of the verdict (`VerdictInv`) and of
  removal (`RemovedInv`) are not inductive: the daemon could start a container after it was removed. `NetInStep`
  is the same for the network. What is `abandoned` is excepted in both, from the moment of the Ctrl-C on, because
  from then on nobody waits for it.
* **Cache.** `CacheInv` and `ReplyInv` follow an answer from the provider into the file and into the
  reply; `CallInv` follows the recorded call. For the retry, `AskedInv`: as long as a run has not asked,
  the cache has answers only to attempts with a number that an earlier run reached. `UnitUsesClient` shows that
  the dialogue takes steps of the client only, which brings the client's invariants along.
* **Workspace.** `CopyInv` says what the copy differs by at each step of a round, `TodoInv` that the
  mutants left are mutants of the files as they were copied, `TargetInv` what a sync leaves, the
  installation included.
* **Plan.** `OrderInv`: groups are placed disjointly, each after what it imports. The placing never gets
  stuck (`OneIsReady`; that `check_order` never raises says no more than `UsesComeFirst`): of the files that wait, take one from which the fewest files can be reached; what
  its group waited for would reach fewer. `UnitInv`: units have the
  numbers of their groups and know the units they import. `UsesAreFound` compares each resolver with its
  language.
* **Ledger.** `LedgerInv`: a ledger that is still there is that of the files as they are now.
  `TargetInv`: every declaration has a place in a file, so that "the first of the items with one key"
  exists (`FirstIsOne`, a well-founded order on file and line).
* **Schema check.** `SchemaInv`: a verdict that is still there is that of the source as it is now.
  `ReadAttributes` says what the adapter reads of a member, `RealParts` what TypeORM makes of it,
  `OwnColumnAgrees` that the two agree on a column that no other member has, but for a primary key of
  several columns (`CompositeIsPrimary`: no other constraint has several).
* **Skeleton.** `WrittenInv`: what was written and not changed since is what would be generated now, alone or
  over something older; `BootInv`: a verdict of the boot check that is still there is that of the files as
  they are now. `ServedIs`: also over an older skeleton, the routers have the handlers that were generated and
  no others. Places of handlers differ (`HandlersAreApart`, from the number of routes before each), so that
  one of them answers first (`FirstAnswers`). For `FailsClosed`, routes with one key are probed by one
  request (`SameKeySameProbe`), which stands for every request to them (`ProbeStandsForAll`), and a guarded
  handler that passed its probe answers 401 (`GuardedAnswers401`). For `SkeletonBoots`, each probe is answered as
  the check expects (`ProbesAreRight`), and the skeleton loads at all: a layout that is not `Tangled` has three
  levels of files, tables and request models and logins, routers, `main`, and imports go down (`NoCircle`); every
  import is of a name that was rendered (`FreshSkeletonTypechecks`), classes of one file differ
  (`ClassesAreApart`), tables have their keys (`SkeletonTablesLoad`). `WrittenParts` and `LoadedIs` say the same of
  a skeleton over an older one, whose leftovers `main` does not load.
* **Mapping.** `SkeletonIsMapped` composes both directions of the translation. For each kind, what was
  rendered is read back (`RoutesAreReadBack`, `InputsAreReadBack`, `TablesAreReadBack`, `ColumnsAreReadBack`):
  there is a counterpart with the key, and whatever has the key in the target comes from that one concept.
  Behind it are a path and its key (`KeyReturns`), the login (`RouteReturns`), the column names
  (`ColumnReturns`), and of a field that the type rendered for the words of one type is that type
  (`PythonTypeIs`) and that limits return (`ConstraintsReturn`).
* **Recorder.** `PlayTyped` says which request is being played and what has been recorded of the run so far.
  `EffectsAddUp` is inductive with it: `DiffSaysAll` for one step, `ReplayAppend` for the step after all others.
  `SeenInv` and `ComparedInv` (together `ResultInv`) follow the finished runs into the verdict, and `PairsAre`
  says that every observation is compared with that of the first run. Then `NothingHidden` is about two
  trees: `RulesHideNothing`, a difference that rules make disappear is between two values at an approved path.
  `ApprovedRulesSettle`: every path that differs has a position that is looked at first (`FirstPosition`),
  which decides about its rule (`ProposedTimes`). `DeterministicInv`: every recorded run is one that the suite
  plays from an empty database (`Played`), so that two of them are the same.

What the proofs found. `DependenciesFirst` was false: a third kind of import loses what it uses (section
6, `"./x"` beside a folder `x`). The instance of the run had no such file; now it has, and the property
names the case.
`SharedCodeStaysFinished` needs `TestsApart`: a unit that is a cycle of code and tests is no test unit for
`check_done` (`migration/policy.py`), which then only asks its test targets in `app/` for stubs. Such a
unit could leave a test file of another unit without a test.
`SkeletonIsMapped` was false: two routes with one key whose bodies share the name of a field are compared
crosswise where the layout puts the second file first. The apps of the run had no such bodies; now they
have, and the property names the case.
`RulesHideNothing` needs that the app itself never answers the placeholder `<timestamp>`: then a rule would
hide the difference to a time. No app of the model does.

Every safety property and action property of a passing run is a theorem. Only model-checked:

* liveness (`RunEnds`, `GreenReachesGit`, `EveryRunEnds`, `LeftoversAreRemoved`, `EnvironmentEnds`,
  `PlanIsMade`): the prover does not do liveness under fairness.

The liveness runs assume the fairness of section 3.

## 5. Plan

All modules of the plan are there, and every property of a passing run that is no liveness property is a
theorem. What could follow:

1. `FailsClosed` without `PlainSegments`, if the check chose a value for parameters that no path has.
2. A weaker abstract history that the loop implements also when it is stopped: today `ImplementsHistory` is
   a theorem for runs without a stop, and `sweep` shows why it is false with one.

Not modelled, and why:

* parsing with tree-sitter, packages and manifests, launch commands and toolchains of the language adapters: the
  questions are about grammars and manifests, without state; their results are constants
  (the statements of `ImportGraph`, the apps of `Translation`, the toolchains of `SandboxRun`);
* rendering of files whose text makes no decision (settings, Dockerfile, README, stubs of services) and of
  prompts, redaction, printing and logging;
* the choice of hold-out scenarios and the files of a baseline: one filter, read by nobody else;
* configuration and arguments, except where they are parameters of a model.

## 6. Where the code falls short of what it says

Two runs end with a violation, and each is a finding of `PROJECT.json` with the line it contradicts:

| run | violated | what happens |
|---|---|---|
| `sweep` | `OnlyGreenCodeCommitted` | a run stopped inside an attempt leaves the attempt's files; `git add -A` (`migration/gitrepo.py:30`) puts them into the next commit of another unit |
| `dialogue_replay` | `RetryAsksTheLLM` | a retry with the same number of attempts can be answered by the cache alone (`llm/client.py:47`) |

These are stated in the modules and one change of a run away: add the property to its cfg, and change the
constants where they are named. TLC finds each of them violated:

| run and change | violated | what happens |
|---|---|---|
| `crash` | `~ raised` in place of `StoppedRunResumes` | a stop inside `write_text` of `state.json` (`migration/models.py:55`) leaves a file the next run cannot load; `migration/loop.py:10`: "a stopped run can be resumed". Or a stop inside `ensure()` after `git add` (`gitrepo.py:21`): the next run sees a `.git` folder, and `git checkout HEAD` of a file that was never committed fails. Or two stops: one inside an attempt of unit 2 that has written a new file, one between `git add` and `git commit` of unit 1, which has put that file into the index |
| `sweep`: `CrashPoints <- BeforeFirstAdd` | `RestoredWhenBlocked` | a stop inside `ensure()` before `git add`: with nothing in the index, `restore()` (`gitrepo.py:51`) takes a skeleton file for a new one and deletes it |
| `sweep` | `GreenIsCommitted` | a stop between `save` and `commit` (`loop.py:132`): `models.py:13` says of GREEN "committed"; a later run does commit it (`GreenReachesGit`) |
| `sandbox`: `SlowStart = TRUE` | `EveryRunEnds` | the time is over before the daemon has started the container: there is nothing to kill yet, the result of `docker kill` is ignored, and the wait that follows has no limit (`sandbox/docker.py:76-77`) |
| `sandbox`: `Flaky = {"kill"}` | `EveryRunEnds` | the same for a `docker kill` that fails by itself |
| `sandbox`: `Flaky = {"inspect"}` | `PassedForReal` | a failed `docker inspect` reads as no memory kill (`docker.py:81`), so that a step passes in which a child was killed |
| `sandbox` | `CleanupTakesLeftoversOnly` | `cleanup_stale` removes every labelled container, those of live runs included (`docker.py:126-127`); what stays true is `PassedForReal` |
| `environment` | `NothingStays` | a Ctrl-C inside an unanswered `docker network create` or `docker run -d`: `_stop` finds nothing, then it comes up (`baseline/environment.py:75`). `migrator cleanup` removes a container, but no network; line 9 says "Everything is removed on exit, even when something fails." |
| `environment`: `Flaky = {"rm"}`, `Interrupts = 0`, `Cleanups = FALSE` | `NothingStays` | a failed `docker rm -f` is not tried again and keeps the network (`environment.py:193`) |
| `workspace` | `CheckJudgesEverything` | a target file in a folder named `build`, `dist`, `out` or `coverage` is neither copied nor removed by `_sync` (`migration/checker.py:70`), so that the suite never sees it |
| `skeleton` | `EverySkeletonBoots` | among others, a controller and its DTO in one source file share a target file, whose router imports the request model from itself (`skeleton/fastapi/routes.py:76`); `skeleton/generate.py:1` promises a skeleton "that compiles and boots" |
| `cache_shared` | `DamagedFileIsAskedAgain` | a cache file cut inside a multi-byte character raises `UnicodeDecodeError`, which `llm/client.py:47-53` does not catch although it asks again for a file that does not validate |

Some properties name, in their own text, the case in which the code does not do what a reader
expects; without that case TLC finds them violated:

| property | its exception |
|---|---|
| `StoppedRunResumes` | a stop inside `write_text` of `state.json`, and one between `git add -A` and `git commit` |
| `EverythingRemoved` | what a Ctrl-C gave up before the daemon had answered (`NothingStays` above) |
| `CheckJudgesTarget` | a symlink that a suite left where the target has no file: `files()` does not list it (`repository/local.py:53`). Ignored folders are left to `CheckJudgesEverything` |
| `ApprovedRulesSettle` | a rule cannot reach a list, an object, a key that is missing in one run, or the schema (`baseline/normalize.py:51`), and "timestamp" is decided by the first pair of runs; `src/docs/architecture.md:73` asks for a human-approved rule for "anything still unstable" |
| `NothingHidden` | says nothing of an approved `ignore` rule for `status`: `Observation` refuses the placeholder and `create_baseline` ends with an exception (`baseline/compare.py:11`) |
| `FailsClosed` | requests that a guarded handler and an open one of the source both fit: which of them gets it depends on the order of registration there and of file names here (`skeleton/fastapi/project.py:157`), and the check does not ask for it |
| `SkeletonBoots` | handlers with and without login that contend for a path; `@All`; a layout in which a file would import itself or two import each other (`Tangled`); names that would be defined twice (`Redefined`: a handler `getCurrentUser`, `get_current_user` or `router`, a class that is a table and a request model, two columns with one snake case); a table without a primary key, a foreign key to a table without a column `id` (`Unkeyed`, `skeleton/fastapi/models.py:65`); a `uv.lock` kept from an older skeleton (`skeleton/check.py:85`); a file kept from an older skeleton that imports what is no longer there |
| `SkeletonIsMapped` | `@All`; two things with one key, of which the first in the source need not be the first in the target; fields without a validator that names one type, which become `str` (`skeleton/fastapi/schemas.py:56`) |
| `CompleteLedgerCovers` | of items with one key only the first is compared (`ledger/build.py:87`); a framework that is not among the packages of the source has no rows at all (`concepts/extract.py:23`) |
| `SchemaCheckIsExact` | a composite primary key is reported on both of its columns (`concepts/schema_check.py:19`); two members on one column, a `@Column` and a `@JoinColumn`, of which the last is compared (line 21). It also shows what the adapter drops: a `OneToOne` with `@JoinColumn` owns a column (`adapters/frameworks/typeorm.py:49`) that is never read (line 121), and only this check notices |
| `DependenciesFirst` | Python: `from app import models, create_app` is no import of `app/__init__.py` when `app/models.py` exists (`adapters/languages/python/resolver.py:42` and 57); TypeScript: `"./x.js"` is a generated `x.js` that lies beside `x.ts`, where TypeScript takes `x.ts` (`typescript/resolver.py:81`); `"./x"` is `x.js` although there is a folder `x` with an `index.ts`, which TypeScript takes (line 85 before 86). None is warned of, although `src/docs/architecture.md:154` says "No silent failure" |
| `LeftoversAreRemoved` | what `sandbox` removes are containers; networks stay (`sandbox/docker.py:127`) |

Seen while modelling: `sandbox/workspace.py:3` says that real `.env` files are not copied, but
`SECRET_FILES` has five names, so that `.env.staging` is; and `_sync` copies a `.env` of the target
into the workspace after the install step. Which names are secret is a list of constants, so no property is
stated about it.
