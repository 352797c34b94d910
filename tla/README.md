# A verification development for the oven multi-skill runtime

The program runs a robot through up to four skills (`open_door`, `transport_food`,
`close_door`, `rotate_button`). A GPU server owns the policy and the server-side
evidence; an edge process next to the robot drives the stages, publishes the
actions and keeps evidence of its own. This directory holds TLA+ modules that
model that code, TLC configurations that check them on small instances, and
proofs that TLAPS checks for every instance.

## Inventory

Paths are under `src/src/oven_runtime/`.

| Component | State | Operations | Hard part | What makes it correct |
|---|---|---|---|---|
| Policy runtime, `server/runtime.py`, `common/state.py` | `_state`, `_active_skill`, `_generation`, `_session`, `_trial_id`, `_in_flight`, two locks | prepare-skill, begin-trial, open-session, infer, close-session, end-trial, abort, transport-ambiguous, close | infer on worker threads against commands on the event loop; locks with timeouts; every call can fail half way | a session is bound to one trial, skill and generation; one policy call at a time; nothing pulled from under a call; FAILED is final |
| Server trial audit, `server/audit.py` | `_active`, a directory per trial | begin, record_request, end, abort, mark_ambiguous | each write can fail before or after its rename; the process can die | an id is used once, one trial is open, a closed trial is closed; a response is on file before it leaves |
| Inference front end, `server/inference_server.py` | connections | receive, run infer on a thread, send, react to a failed send | the send fails after infer has let go of every lock | a lost response is not mistaken for a delivered one |
| Server process, `server/app.py` | stop event, instance id | start, stop, close | responses in flight at shutdown; restart on the same root | evidence survives; the state machine is respected |
| Control server, dispatcher, CLI, `server/control_*.py` | owner lock, socket file | one command per connection | two servers starting on one root | one owner of the socket |
| Policy backends, `server/*backend.py` | adapter, model | prepare, reset_prng, infer, close | may raise or hang anywhere | reports the skill it was asked for |
| Orchestrator, `edge/orchestrator.py` | pipeline state, `_active_session_id`, `_trial_started` | run, stage, rollout, safe stop | a failure or an interrupt between any two calls; cleanup that fails too | stages in order; no action without a published, validated response; every failure reaches FAILED |
| Edge audit, `edge/audit.py`, `common/audit_schema.py` | active run, stage directory, manifests | begin, start_stage, record_rollout, complete_stage, fail, complete | as for the server store | completed only from complete evidence |
| Edge clients, tunnel, `edge/control_client.py`, `edge/inference_client.py`, `edge/tunnel.py` | pinned instance id, ssh process | call, infer | calls that time out and still happen; a restarted server | an answer belongs to its request and to one server instance |
| Joint gate, `edge/joint_gate.py` | sample window, armed, departed | begin, update (ROS callback), reached_result (publisher) | callback between two lock sections of a poll | rest is reported only after arming, departure and a full window at the target |
| Action executor, `edge/ros2_action.py` | process lock, active stage, last command | preflight, reset, begin_stage, publish, stop, close | stop in any state, external publishers | rows published only inside a stage and under the lock |
| Observation source, `edge/ros2_observation.py` | latest message per topic | callbacks, preflight, sample, front_rgb | a topic that goes silent, parts of different age | every part of a request is fresh, nothing is missing |
| Validation and checker, `edge/validation.py`, `edge/checker.py`, `edge/approval.py` | the loaded model | validate, evaluate | time passes while a model loads | the verdict is of the right model on a fresh image |
| Profiles, wire protocol, hashing | none or start-up only | pure checks | numeric edges | - |

How they interact: the orchestrator sends control commands (one SSH process
each) to the control server, which runs them on the event loop of the server
process; it sends inference requests over a WebSocket through the tunnel, which
the front end runs on worker threads; the runtime calls the backend and the
store; the executor and the gate share the samples the ROS callbacks bring. The
server processes of one host share a lock file and a socket path, the edge
processes of one host the executor's lock file.

The hazards of each part, at the line where they bite, are listed in
`PROJECT.json`, each with the properties that would catch it going wrong; a hazard
without a property says why.

## Modules

| Module | Models |
|---|---|
| `EvidenceLedger` | abstract: an id is used once, one trial or run is open, a verdict is final |
| `TrialAudit` | the store of `server/audit.py`; refines `EvidenceLedger` (`ImplementsLedger`) |
| `PolicyService` | abstract: the policy server as its client sees it, one command at a time |
| `PolicyRuntime` | the server process: the runtime, its store, the loop thread, the worker threads, stop and restart; refines `PolicyService` (`ImplementsService`) |
| `PolicyRuntimeProperties` | what the server promises, and the inductive invariant `IInv` |
| `EdgeAudit` | the store of `edge/audit.py`; refines `EvidenceLedger` (`EdgeImplementsLedger`) |
| `Orchestrator` | the edge process: `edge/orchestrator.py` with its clients, on `EdgeAudit` and `PolicyService` |
| `OrchestratorProperties` | what a pipeline run promises |
| `PolicyBackend` | `server/composite_backend.py` composed with `PolicyRuntime`, which calls it |
| `ServerHost` | the server processes of one runtime root: `server/app.py`, `server/control_server.py` |
| `JointGate` | `OnlineJointGate` of `edge/joint_gate.py` |
| `ArmExecutor` | `edge/ros2_action.py` in the edge processes of one host, on `JointGate` |
| `Observation` | the caches of `edge/ros2_observation.py`, the freshness tests, the checker's image and model |
| `...Proofs` | theorems: `TrialAudit`, `PolicyRuntime`, `EdgeAudit`, `Orchestrator`, `PolicyBackend`, `ServerHost`, `ArmExecutor`, `Observation` |
| `MC...` | instances for TLC; `MCFailedTrial` adds to `PolicyRuntime` the history of the trials an inference failed in |

The two halves meet in `PolicyService`: the detailed server is shown to
implement it, and the orchestrator is composed with it, so that the threads and
locks of the one do not multiply with the calls of the other. `ServerHost` is
where the processes come from that `PolicyRuntime` restarts; `ArmExecutor` and
`Observation` are what `Orchestrator` takes as calls that return or raise.

### The server (`PolicyRuntime`)

There are two kinds of thread. The event loop is one thread: it runs each
control command to completion, blocking on a lock if it must, sends responses
and reacts when a send fails. `loop` says what it is executing. Each inference
runs on a worker thread; `pc[w]` says where it is in `infer()` and `lease[w]`
which request it serves.

There are two locks. A block under `_condition` never releases it half way (the
only `wait` is the drain loop, see below), so one block is one action and the
lock itself is not a variable. `_execution_lock` is held across the policy call
and acquired with a timeout: it is the variable `executionLock`, and every
acquire has a successful action and one that gives up while somebody else
holds it.

The source's control is kept whole; the choices made about the data are these.

- A command that is rejected changes nothing and is a stuttering step;
  `BeginTrialRejected` and `Reject` are actions because they hold the lock.
- Nothing in `infer()` depends on the request before it is validated, so its
  content is chosen there. Session id and token are handed out together, so
  knowing the id stands for knowing the token. Ids are uuid4: `opened` holds
  those handed out, and a new one is never among them.
- The drain loop of `prepare_skill` never has anything to wait for
  (`DrainNeverWaits`, a theorem), so READY, DRAINING, SWITCHING, LOADING is one
  step READY to LOADING.
- The expiry of a session is a choice wherever the code compares the clock.
- `_last_error`, the hashes and the action data are left out: no decision of
  these components depends on them. The seeds are in `PolicyBackend`.
- The store's own lock makes each of its calls atomic. A failed call leaves any
  prefix of its files, including the last one, because `_atomic_json` can raise
  after its rename. After a failure the process goes on; `Restart` is a new
  process on the same root, whether the old one exited or was killed.
- `delivered` is a history variable: the responses the transport took.

### The stores (`TrialAudit`, `EdgeAudit`) and the ledger

`disk[t]` is the directory of trial `t`: its manifest, whether there is a
COMMITTED summary, its request lines, and the count written when it was closed.
`runs[r]` is the directory of run `r`: its manifest with the pipeline state and
the count of completed stages, and per stage the status of
`stage_evidence.json`, whether there is a `stage_failure.json`, and the number of
lines of `rollout.jsonl`.

Each call of a store is one action when it succeeds and another when it raises;
the second leaves every prefix of the call's assignments and writes, in the order
of the source. `complete_stage`, for instance, can raise with the evidence
COMPLETED and the stage not counted, counted in memory only, or with everything
written; `fail` can raise having forgotten the active stage and not the run.

Under the refinement mapping the verdict of the open trial or run is `open`
whatever the files say; it counts once the store has let go of it. A failed
`begin` of the server's store spends the id (`Spoil`); a process that dies
abandons its trial or run with whatever is on disk (`Abandon`).

### The edge (`Orchestrator`)

`edge.step` is the call `run`, `_run_stage`, `_rollout` or `_safe_stop` is about
to make; one call is one step. A step returns, or raises and
leads to `_safe_stop`.

- A call that raises had no effect, or part of it, or all of it. That also covers
  an operator's interrupt between two calls and every validation in between (of
  observations, responses, chunks, row counts and the action-step budget): they
  raise without effect of their own.
- A control or inference call that raises may also still be on its way
  (`late`, when `LateCalls` holds): an SSH process that was killed by its timeout,
  or a server busy with another command. It is executed at any later time or
  never. Bound: one such call at a time.
- `SshControlClient` pins the instance id of the first server that answers; an
  answer of another one raises, after the command had its effect.
- `Die` is the end of the process at any point: killed, or interrupted again
  inside `_safe_stop`, which catches `Exception` only. `StartRun` is a new process
  on the same audit root, with any run id, used ones included.
- One edge process runs at a time: `preflight` takes the executor's process lock.
  Operators who send commands to the server beside it are left out.
- The arm is `_has_published`: commands were sent since the last hold. `published`
  and `passed` are history: the chunks the arm got, and the gates that passed.
- The server does what it does of its own accord (`ServerMisfortune`): a session
  expires, the policy fails, a response is lost, the process stops or restarts.

### The backend (`PolicyBackend`)

The runtime's actions are those of `PolicyRuntime`; each that calls the backend is
joined to the backend's part of it. A parameter tree is named by its skill, and a
noise sample by the key it was drawn from: a seed and the number of splits since.
`drawn` is what the inference in progress got. `prepare` can raise before it
replaces anything, and once more at its end, when it reads the manifest for the
identity it returns; the runtime has then FAILED with the new policy in place.
`infer` splits the key before it calls the policy, so a failed call may or may not
have used a key. `FakePolicyBackend` keeps the same state (a skill and a generator).

### The processes of a host (`ServerHost`)

`server[p]` is where process `p` is in `run_server`; a step is what it does between
two awaits or system calls. The lock is `flock`, which the kernel drops when a
process ends; a socket stays at its path when the process that bound it is killed.
A start that fails anywhere runs the same `finally` block as a stop. Each process
has at most one control connection (bound); an answer needs the event loop, which
does not run any more once `wait_closed` has returned. `wait_closed` waits for open
connections from Python 3.12 on, so a process is in `Waiting` or not; from 3.13 on
closing the listener already removes the socket it bound, which is a choice.

The socket file is looked for, checked and unlinked by three system calls, each a step
of its own: at a start (`LookForStale`, `CheckStale`, `RemoveStale`) and in a stop
(`LookForSocket`, `CheckSocket`, `UnlinkSocket`); asyncio's own removal is a check and an
unlink (`CloseListener`, `CleanUp`). Each later call acts on what is at the path by then, or
raises when nothing is, and an unlink raises on a directory. A link that leads nowhere
does not exist for `exists` and is taken for a file by `lstat`. When a stop raises, what
follows depends on who called it: after a failed start (`retreating`) `run_server` calls
it again; otherwise the process exits without `runtime.close` (`StopRaises`).

Between any two steps somebody else on the host may remove what is at the path, a live
socket included, or put a file there in its place (`Intrude`). `disturbed` is history: it
says that this happened since an owner last bound or checked the path. That somebody
else binds a socket of their own there is not modelled.

### The gate and the executor (`JointGate`, `ArmExecutor`)

`reached_result` takes `_lock` three times: for the window, for the armed flag and
for the departure. Each is an action (`TakeSnapshot`, `ReadArmed`, `Decide`), and the
callback may append a sample between any two, so the sample kept at a departure
need not be the one that was judged and the armed flag may come from a newer sample
than the window. A pose is the position of one joint, an integer; a sample is its
number in the order of arrival, so that `seen` tells where each one came from. The
median of an even window is a half, so it is compared doubled.

`proc[p]` is where each edge process of the host is. All of them construct their
publishers; one takes the lock. `exec`, `callback` and the gate are those of the one
process past its preflight, which `OneDriver` says there is. The poses are left out:
`command` says whether the last command moved the arm or held it, and `excused` that
a stop failed, or the process was killed, before it held. An exception or an
interrupt may come between any two commands (`Raise`). `stop` also returns when no
joint state was ever received; `NothingMissing` of `Observation` says that this does
not happen after the preflight, so it is not an action.

`OnlineJointGate.evaluate`, `reached` and `WindowedJointGate` are used by tests only and
are not modelled.

### What the edge sees (`Observation`)

A message is its age, in ticks up to `Old`, past every limit. Callbacks and ticks fall
between any two steps of the pipeline thread, and a topic may go silent for ever.
`held` is what the thread took from the cache, with its real ages; `captured` is the
age that the code's one time stamp stands for.

## Runs

| Run | Question | Bounds | States |
|---|---|---|---|
| `runtime_switch` | do lease, locks, skill switch and noise stay consistent, and does the server implement the service | 2 workers, 2 trials, 2 sessions, 2 skills, 2 generations, 1 request per session | 630k |
| `runtime_evidence` | is what leaves the server on file, once, in its trial, in sequence | the same with 1 skill, 1 generation, 2 requests per session | 1.16M |
| `runtime_restart` | does the server implement the ledger and the service across processes, and does every call return | 1 trial, 2 sessions, 2 workers, 2 processes | 174k |
| `edge_store` | are stages completed in order, and is a completed run whole, whatever write fails; does the store implement the ledger | 2 runs, 2 stages, 1 line per stage | 473k |
| `orch_stages` | is a run's evidence true, a failed run cleaned up, and does every run end | 1 run of 2 stages, 2 chunks, 2 sessions, 2 server processes | 216k |
| `orch_late` | does the evidence stay true when abandoned calls still arrive | 2 runs of 1 stage, 1 chunk, 2 skills, 1 late call | 3.9M |
| `arm_rollout` | is joint rest a round trip, does one process drive, is the arm left holding | 2 processes, 2 skills of different arms, 4 poses, 4 samples and 5 rows per stage, chunks of 2 | 4.2M |
| `server_host` | is there one server, where clients look; is what is unlinked what was checked; does every start and stop end | 3 processes, of which 2 wait for connections, 1 connection each; anybody may change the path at any time | 61k |
| `observation` | do requests and verdicts rest on fresh data, is nothing missing | 2 skills of one arm, ages up to 3, limits 2, 1 and 2 | 118k |
| `ambiguous_response`, `failed_trial` | two statements of the documents on the server | 1 trial, 1 session, 2 workers | counterexamples |
| `planned_skill` | a statement of the documents on the edge | as `orch_late` | a counterexample |

The first three runs check the server composed with its backend (`BackedNext`).

Two workers are what it takes for one to wait for the lock the other holds; two
trials and two sessions, for evidence to reach the wrong one; two skills and
two generations, for a lease to outlive a switch; two requests, for a
number to be repeated or skipped; two processes, for an id to be used again.
Two stages are what it takes for one to start before the other is complete, two
runs for one to meet what another left behind, two chunks for a rollout to go on.
Three servers are one that serves, one that is refused and one that comes next.
Windows of 2 and 3 samples and 4 samples in all are enough for a departure between two
sections, a window that spans it and one that does not; the two profiles have the
departure threshold on either side of the tolerance, and an arming pose or none.
In `observation` no skill uses the right arm, so only the preflight asks for its joints.
A pipeline has one or four stages; but for its flags every stage is run alike.
`MaxGeneration`, `MaxSequence`, `MaxInstances`, `MaxLines` and `MaxSamples` bound counters
the program does not bound. Runs that state safety only permute workers, sessions,
trials, runs or skills (`Symmetry`), which are only compared; the others do not.

`CHECK_DEADLOCK FALSE` is set for the server because its process really ends:
after `Close` and with no instance left nothing can happen; for `observation`
because a fault ends the run. The hosts, the edge store and
the orchestrator have an enabled action in every state and are checked for
deadlock.

### What the properties say

- `IInv` (with `SessionBound`), `InFlightProtected`, `GenerationChangesAlone`: a lease is
  bound to the trial, skill and generation served, and no command changes that
  underneath a policy call; a call in progress finds its lease or a FAILED server.
- `PolicySerial`, `DrainNeverWaits`: one owner of the policy; `prepare_skill`
  never waits for an inference on the thread that would have to send it.
- `FailedIsFinal`: FAILED admits nothing and is left for STOPPING;
  `ensure_runtime_transition` never raises inside a handler.
- `LinesReproducible`: line n of a trial was computed by the policy of the trial's own
  skill from the n-th noise of its root seed, whatever came before it.
- `TrialAuditCoupled`: runtime and store agree on the open trial through every
  failure of either.
- `ResponsesOnFile`, `EvidenceFiledUnderItsTrial`, `EvidenceInSequence`,
  `CommitCountsResponses`, `ConfirmedByLiveLease`: a response that left `infer()` is on
  file exactly once, in its trial's directory, in order and counted, and its
  lease was live when the policy returned.
- `ImplementsLedger`, `ImplementsService`, `EdgeImplementsLedger`: see above.
- `EveryCallReturns`: no inference and no command is stuck.
- `StagesCompleteInOrder`, `CompletedRunIsWhole`: the edge store counts a stage
  only with its evidence, starts one only after the one before, and completes a
  run only when it is whole. They hold of the store whoever calls it.
- `CompletedStageIsTrue`: a stage recorded as COMPLETED on the edge was committed
  on the server, with as many responses as were published and filed, at least
  one; joint rest was detected and the checker passed. It relates the files of
  two machines and the arm.
- `EveryActionAccountedFor`: server's lines, published chunks and edge's lines
  never differ by more than the one inference in progress: nothing is retried.
- `FailedStageNotCounted`: a stage marked failed is never among those the manifest
  counts, though its evidence file may say COMPLETED.
- `ArmHeldFirst`: the safe stop reaches the remote side only with the arm held, or
  with the failure to hold it noted.
- `NothingLeftOnServer`: a run that ends leaves no trial of its own on the server
  unless its abort failed. It holds without late calls (`orch_stages`) and not
  with them (5. below).
- `PlannedSkillServed`: the arm executes the planned skill's policy. Likewise
  (`planned_skill`).
- `EveryRunEnds`: a run that begins comes to its end.
- `RestIsARoundTrip`: a stage ends only when, since it began, an arming pose was seen,
  then a pose away from every target, and then, no earlier, a full window of consecutive
  samples together at one target, with the minimum of rows published.
- `OneDriver`: only the holder of the action lock is past its preflight, though the
  search for other publishers may miss some.
- `LeftHolding`: when a stage is over, and when the lock is free for the next process,
  the arm was last told to hold, or a stop is known to have failed.
- `ArmTypeOK`: typing; its bound on the published rows is the stage's budget.
- `ServerReachable`: a process that accepts connections holds the owner lock and the
  path is its own socket, unless somebody other than a server took that away; commands run
  only there.
- `UnlinksDeadSocket`: between check and unlink the path does not become the socket of a
  listening server, nor in a stop that of another one; it becomes a file only when
  somebody other than a server puts it there.
- `StartAndStopEnd`: no silent client and no other server holds up a start or a stop.
- `DecidedOnFreshData`: every part of a request is fresh when it is let out; a verdict
  is of the skill's model, on a fresh image.
- `NothingMissing`: after the preflight everything a sample or a hold needs is there.

### Fairness

`Fairness` of the server (in `FairBackedSpec`) assumes that the operating system
runs the loop thread and every worker (`WF`), that a policy call returns or raises, and that asyncio runs each
ready handler in turn, so that a handler with a response to send gets the loop
infinitely often unless a command holds it for ever (`SF` of `Send`). It does
not assume that `_execution_lock` is fair: the acquires time out, and
dropping the timeouts (`NeverTimesOut`) breaks `EveryCallReturns`.

`FairOrchSpec` assumes weak fairness of the edge process (`EdgeStep`): every remote
call has a timeout, local calls return, and the process is scheduled. Nothing is
assumed of the server, of late calls or of the outcome of a call; a safe stop that
insisted on an answer (`AbortUntilAnswered`) breaks `EveryRunEnds`.

`HostFairSpec` assumes that every server process is scheduled, that its loop runs ready
tasks and that the timeout of `wait_for` fires. It also assumes that the inference
listener's `wait_closed` returns, which rests on the policy call (as `Fairness` does)
and on the library's closing timeout. Clients owe nothing: dropping the
frame timeout (`FrameAwaited`) breaks `StartAndStopEnd`.

### Where the code and its documents differ

1. `docs/minimal_runtime.md:37-38` makes an ambiguous response fatal.
   `mark_transport_ambiguous` does nothing when the session has been closed
   first, which the edge's own safe stop does (`AmbiguousResponseIsFatal`).
2. `docs/safety_invariants.md` S-019 forbids overwriting a failure as completed.
   `end_trial` does not look at `_state`: when the policy fails the server is FAILED with
   the trial still open, and an end-trial commits it, without the failure
   (`FailedTrialNeverCommitted`). The property is about trials an inference failed in, so
   that the retry of a commit that failed does not count.
3. `server/audit.py:87` calls the trial non-overwritable. A COMMITTED manifest
   whose directory fsync failed is replaced by ABORTED by the abort that follows.
   `AuditEndFails` and `AuditTerminate` of `TrialAudit` show the two steps; the ledger
   allows it, because the trial is still open.
4. `README.md:63` says that a single-skill run executes the specified skill only.
   The orchestrator does not compare the skill of the session it is given with
   the stage's; a prepare-skill of an earlier run, given up there and executed
   between this run's prepare-skill and begin-trial, changes the policy under it
   (`PlannedSkillServed`).
5. `docs/minimal_runtime.md:35-37` says that a failure on the edge aborts the trial
   and leaves the server reusable. A begin-trial that timed out on the edge and
   is executed after the abort leaves a trial nobody owns: `NothingLeftOnServer` does
   not hold when `LateCalls` is TRUE.

The first, second and fourth have a run of their own. Smaller ones met while modelling,
which no run is about:

- `docs/architecture.md:36` wants one policy parameter tree at a time;
  `prepare` builds the new policy before it lets go of the old one.
- S-016 wants no publisher before the operator's approval; `main` constructs the
  executor, and with it both publishers, before `run` asks.
- S-009 wants every step limited; the first row of a chunk is reached by interpolation
  from the last command, of any length.
- S-010 forbids one image standing in for another camera; `cam_low` is a copy of
  `cam_high` (`ros2_observation.py:94`).
- The hold of `stop` repeats joint states of any age.
- Two servers starting at once may both refuse: the loser of the lock while the winner
  then fails to bind. The ready file is never removed.
- A client that sends no frame is answered `SERVER_FAILED`, not as a decoding error.
- When `control.stop` raises, `runtime.close` is not called.
- `control_server.py:78` refuses to replace what is not a socket; a file that takes the
  socket's place between the `lstat` and the `unlink` is removed all the same.
  `UnlinksDeadSocket` says that it takes somebody other than a server to put it there.

## Proofs

Every invariant and action property of the passing runs is stated by a theorem, for
every value of the constants, and so are the refinements they check. Two of the
orchestrator's need that no call arrives late, see below.

Assumptions: those the modules state. The null values are not members of the sets they
complete (`NoTrial` is not a trial, `NoSession` neither a session id nor a lease); the
bounds are naturals, and there is at least one process and one stage; every skill has an
arm; age limits are below `Old`. The skills that have a joint gate are finitely many, as
the profiles are a dictionary: `joint_gate.py` takes the maximum of their windows. Sets of
workers, trials, sessions, runs and processes, and the numbers in a gate's profile, are
arbitrary.

### The server

`InvariantHolds` proves `Spec => []IInv`. The safety statements are not
inductive: that a session cannot be closed under a call needs that `_in_flight`
counts the calls, which needs that the execution lock admits one worker, which
needs where each thread stands relative to the lock. `IInv` adds exactly that:

- `LockDiscipline`: the lock belongs to whoever is between acquire and release;
- `InFlightCounts`: `_in_flight` is 1 when a worker is past validation, else 0;
- `LoopDiscipline`: LOADING is the state of a running `prepare_skill`, STOPPING
  that of an exited process;
- `TrialDiscipline`: a trial is open only in READY, FAILED or STOPPING;
- `LeaseDiscipline`: a worker in the policy call holds the very lease in
  `_session`, sequence number included, or the server has FAILED;
- typing, `SessionBound` and `TrialAuditCoupled`.

`InitIInv` is the base case; `PrepareStep`, `BeginTrialStep`, `SessionStep`,
`AbortStep`, `InferStep`, `SendStep` and `ProcessStep` are the step for one group of
actions each, with a step per action; `NextIInv` joins them. `TypeCorrect`,
`SessionAlwaysBound`, `InFlightAlwaysProtected`, `DrainNeverWaitsHolds`,
`PolicyAlwaysSerial` and `TrialAuditAlwaysCoupled` follow from `IInv`.
`AuditTypeCorrect` is the type correctness of the store alone. `FailedAlwaysFinal`,
`GenerationAlwaysChangesAlone` and `AlwaysConfirmedByLiveLease` are action properties,
which need `IInv`: what the loop may change under a policy call is a matter of who holds
the lock and what `_in_flight` says.

`EvidenceHolds` proves `EvidenceIInv` on top of `IInv`, with `GenerationKnown`; the four
statements about the evidence follow from it
(`EvidenceAlwaysFiledUnderItsTrial`, `EvidenceAlwaysInSequence`, `ResponsesAlwaysOnFile`,
`CommitAlwaysCountsResponses`). Its parts say where the evidence is ahead of what a
thread knows:

- `FiledUnderTrial`, `AdmittedForTrial`: a line is of the trial, skill and generation
  of its directory, because a request was admitted for the trial that is open;
- `NextLineNumbered`: the sequence number of the session is the number of its lines,
  but for the one line a worker has recorded and not yet confirmed;
- `AnswersOnFile`: what `Confirm` may turn into a response is on file already;
- `CountAhead`: the count of the open trial is at least the responses made, with the
  one about to be made; an `end` that failed after writing COMMITTED leaves a
  server that is no longer READY and makes no more of them.

The refinements: `StoreImplementsLedger` for the store on its own, and
`ServerImplementsLedger` for the server, whose steps are calls of the store or leave it
alone (`LedgerIInv`: typing, and a trial is open only once it has a directory).
`ServerImplementsService` proves `Spec => ImplementsService`, under the mapping
`Served`, `ServedTrials`: a verdict counts once the store has let go of the trial, and
LOADING shows as the state before it. `IInv` supplies what the commands of the service
take for granted, that the open trial is the one the store has open, and that a request
is answered with the session it was admitted under.

### The edge

`EdgeInvariantHolds` proves `EdgeSpec => []EdgeIInv` for the edge store, and
`StagesAlwaysInOrder` and `CompletedRunAlwaysWhole` follow. That stages complete
in order is not inductive: a stage may be started because the store's counter says
so, so the counter must be tied to the files. `HeldInOrder` does that for the run
the store holds: counted stages have their evidence, later ones have no directory,
and the manifest lags behind the counter. `RunInOrder` is the statement for one
directory, and adds that an unused one is empty. Four lemmas on single directories
(`ManifestInOrder`, `EvidenceInOrder`, `OtherFilesInOrder`, `WriteInOrder`) carry the
argument; each call of the store, with all its failures, is a step that cites them.
`EdgeStoreImplementsLedger` is its refinement.

`OrchestratorInvariantHolds` proves `OrchSpec => []OrchIInv`, whether calls arrive late
or not; `OrchAlwaysTyped`, `CompletedStageAlwaysTrue`, `EveryActionAlwaysAccountedFor`,
`FailedStageNeverCounted` and `ArmAlwaysHeldFirst` follow. The statements relate the files of
two machines; what keeps them together is where the edge is between its calls, so
that is what the invariant adds:

- `StoreFollows`: the store has this run open, and its counter is the stage of `edge`;
- `ServerKeeps`: a trial of a stage that was never started is unused, and a late call is
  about a stage that was started and, while a stage is underway, not about that one;
- `StageInStep`: per step of the stage, how far the server's lines, the chunks published
  and the edge's lines are apart, which gates have passed, and when the trial is
  COMMITTED;
- `OwnTrialOrNone`: between begin-trial and end-trial the server has this trial or
  none, and, if it could accept one, no begin-trial is on its way;
- `HeldInStep`: outside reset to stop the arm holds, or a stop is known to have failed;
- `NoFailureYet`: a run that goes on has no failed stage, a failed one has been started;
- `EdgeIInv`, typing, and three of the statements themselves.

Each call of the edge has a lemma of its own (`...Step`), which tells apart that it
answers, raises without effect, with part of it or with all of it, and whether it is
still on its way. `ServerStep` and the `...Serves` lemmas say what a command can do to the
trials, and `StageGoesOn`, `OutsideGoesOn` and `RaisedStep` what a step that touches
neither server nor files has to show.

`PromptInvariantHolds` has the hypothesis `~LateCalls`, as have `PlannedSkillAlwaysServed`
and `NothingEverLeftOnServer`: with late calls both statements are false (4. and 5.
above, and the run `planned_skill`). `PromptIInv` says that the policy is that of
the planned skill or none from prepare-skill on, that the trial of the stage underway has
that skill, and that as long as a trial of this run is open on the server, `_trial_started` is
set or a failed abort is noted.

`RunsImplementLedger` and `RunsInOrderAndWhole` carry the theorems on the edge store over to
the orchestrator: each of its steps is one call of the store or leaves the files alone
(`StepCallsStore`).

### The other components

`BackendImplementsRuntime` proves `BackedSpec => Spec`, step by step, so the theorems on
the runtime hold of the composition. `LinesAlwaysReproducible` needs an invariant that
says what the key is between two calls: while a trial is open and the service has not
failed, the key is the trial's seed, split once per line on file, and the policy is
that of the active skill; the typing and `IInv` tell whose lines those are.

`ServerAlwaysReachable` and `DeadSocketAlwaysUnlinked` rest on `HostIInv`
(`HostInvariantHolds`). `LockFollows` says by its step which process may hold the owner
lock: whoever is between acquire and unlock, or in the middle of a removal, does; who
listens is between bind and close; and an open connection belongs to the owner or to a
process about to exit. `PathFollows` says that once the owner is past the stale socket
the only socket at the path is its own, and that what was checked stays until somebody
other than a server changes it. That no server unlinks another's live socket needs both:
a check and its unlink lie between an acquire and its unlock, and the path of a process
that listens is guarded by the lock it holds.

`AlwaysOneDriver` and `AlwaysLeftHolding` rest on `DriverIInv`: the lock is held from its
acquisition to the end of `close`, and as long as the last command moved the arm and no
stop failed, some process knows that it has published and has a stop ahead of it.

`RestIsAlwaysARoundTrip` and `ArmAlwaysTyped` rest on `RoundTripIInv` (`RoundTripHolds`). That
the last window is of the target and follows a departure is decided in three sections,
between which samples arrive. `GateIInv` says that the deque holds consecutive samples up to
the last one (`SamplesInOrder`), and that the flags go back to a sample that was seen:
`ArmedBySample`, and `DepartedBefore`, by which no sample kept or viewed since the departure
is older than one that was away. `StageIInv` ties the view and the flags to the step of the
one process in its rollout (`ViewOfStage`, `RestAccepted`), and the rows to the budget
(`WithinStage`). `NearTheMedian` is the arithmetic: a window whose spread is bounded
and whose median is near a target is near it as a whole. That the median and the
extremes exist needs a least number in a set (`LeastNatural`, by well-foundedness).

`AlwaysDecidedOnFreshData` needs that the one time stamp bounds the age of every part from
the sampling on, whatever time passes (`SampleBounded`, `VerdictBounded`), and that the
oldest of the parts exists (`CapturedAtIsOldest`); `NothingEverMissing` needs that the
preflight asks for everything that is used later (`RequiredCoversNeeded`).

### What stays with TLC

Liveness: `EveryCallReturns`, `EveryRunEnds` and `StartAndStopEnd`. They need fairness
and `ENABLED`, which are out of the prover's reach. The three counterexamples.
Deadlock freedom of the edge store, the orchestrator and the hosts. No definition is
recursive, so no fact waits for an induction over data.

## Not modelled

Validation of the action array, the image classifier, image conversion, framing,
parsing, hashing and profiles: functions of one input without state, whose outcome
the models take as a choice or a constant. The tunnel's process and SSH: they show as
calls that answer, raise or arrive late. The console prompt. The contents of the ready
file. The poses commanded to the arm, and their limits. Time appears as choices, but
for the ages of messages in `Observation`.

## Plan

Done: every component that keeps state is modelled; every invariant, action property and
refinement of a passing run is proved. What is left:

1. The orchestrator is composed with `PolicyService`, the server is proved to implement it;
   that the composition of the two carries the orchestrator's theorems over to the
   detailed server is an argument of this text, not a theorem.
2. Further action properties of the edge: a verdict once on file is final through crashes;
   an effect of a late call is confined to one trial.
3. `ServerHost`: that an instance id belongs to one owner of the lock at a time, as a
   theorem that joins it with `PolicyRuntime`.
4. Shorter proofs: the lemmas of `OrchestratorProofs` for calls that may raise share a shape
   that one lemma per kind of call could carry.
