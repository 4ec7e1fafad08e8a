# Mo's runtime and its agent harness in TLA+

This directory models two parts of the Mo toolchain.

*The runtime* runs a program's processes: mailboxes, updates as transactions,
`ask` with deadlines and deferred replies, crashes and restarts
(`src/toolchain/src/sim.zig`), and the scheduler threads that hand processes
their turns (`src/toolchain/src/turns.zig`).

*The agent harness* (`src/toolchain/harness`) lets an agent write and run Mo
programs: a workspace on a machine with executions in containers, their owner,
their controller and the recovery after a crash (`executor/`), and the bridge
between the agent's client and the model provider, with its journal
(`provider/bridge/`).

TLC checks the models on small instances. TLAPS proves, for every value of their
constants, every safety property that the passing runs check, and that the
processes implement their abstract specification. What TLC alone checks is
liveness.

`PROJECT.json` lists the components, runs, mutants, findings, hazards and
theorems, and maps every definition that models code to its lines.

To repeat everything, in this directory:

    tlc -workers 2 -config MCProcsMixed.cfg MCProcs
    tlapm MoProcsProofs.tla; tlapm MoProcsAsks.tla
    tlapm MoProcsMessages.tla; tlapm MoProcsActors.tla
    tlapm MoTurnsProofs.tla; tlapm MoSweepProofs.tla
    tlapm MoWorkspaceProofs.tla; tlapm MoBridgeProofs.tla

(each `.cfg` with the `MC` module its name begins with).

## 1. The system

A Mo program declares processes, each with a state, a bounded mailbox and one arm
for each kind of message; supervisors with a restart policy; and a `main`. The
toolchain compiles it to bytecode and runs it with a VM. The compiler is
sequential. What is concurrent, and what fails and restarts, is the runtime; and
beside it the harness, which is a handful of programs on two machines that can
each die at any step.

### Components

| Component | State it keeps | Operations | Talks to | Modelled |
|---|---|---|---|---|
| Processes (`sim.zig`, `turns.zig`) | per process: `up`, `mailbox`, `busy`, `reply_seq`, `deferring`, `outbox`, `answers`, `kept`; per run: `later`, `awaiting`, `answers` | send, send with a delay, ask, reply, defer, answer, deliver, commit, crash | schedulers (who has the thread), supervision (what a crash becomes), memory (undo, compaction) | `MoProcs`, `MoActors`; starting them, `MoSweep` |
| Supervision (`sim.zig`) | restart times of each child in a window, the run's failure | crashed, giveUp | processes | in `MoProcs` |
| Scheduler threads (`turns.zig`) | the runtime's lock; per scheduler: `state`, `wake`, `resting`, `held_back`, `ready`, `parked`, `runnable`, `to_end`; `updating`, `sweeping`, `main_waits`, `stopping`, `failure` | loop, step, idle, stir, rouse, settle, stepAside, stopTurns, startTurns, stop | all of the runtime | `MoTurns` |
| Sweep (`turns.zig`) | `marks`; per process `ended`; per scheduler `to_end`, `free_ids` | place, mark, end, reuse | schedulers (stops them), processes (reads all they hold), each vm's `handle_frames`, sources | `MoSweep`; when it may run, `MoTurns` |
| Placement (`turns.zig`) | loads, who asks whom | place | schedulers | any placement (`Home`) |
| Runtime loops (`sources.zig`) | per source: paused, in flight, idle times | accept, read, deliver, pause, resume | processes' mailboxes | planned |
| Blocking pool (`blocking.zig`) | job queue, writer | run a job, write and sync, replace | processes that wait for a job | planned |
| Poller, fibers | descriptors, stacks | system interfaces | schedulers | no |
| Memory (`region.zig`, `vm.zig`) | regions, marks, parcels | undo, compact, move | processes | by its effect |
| Mo.Sim | seeded schedule, simulated clock, faults | a test's steps | processes | no: a subset of `MoProcs`' schedules |
| Event ring, crash store, surface | recent events; paused processes | record, show, pause | processes | pause is planned |
| Sockets, HTTP, TLS, files, commands | connections | I/O | sources, pool | no |
| Compiler, test runner, mutation, recipes, C runtime | - | batch | - | no |
| Executions (`executor/remote.py`, `adapter.py`) | per run: its directory with `manifest.json`, `registration.json`, `observation.json`, `reaped.json`, `cleanup-confirmed.json`; a container, a supervisor service, a deadline timer with its reaper | bootstrap, supervise, reap, finalize, dispose | Docker, systemd; the workspace's state | `MoExecutor` |
| Workspace (`executor/workspace.py`, `workspace_controller.py`) | on the host: the owner and `ownership.json`; on the machine: `state.json`, the mounts, the owner and retired records | create, reserve, authorize, complete, freeze, delete | executions, over calls that can be lost | `MoWorkspace` |
| Recovery (`executor/recovery`) | the terminal record | recover, as often as an operator likes | the two above, and whatever their owner left | `MoWorkspace` |
| Provider bridge (`provider/bridge`) | `state`, `active`, `terminal`, `stopping`; the journal's chain of writes and its file | a request, its turn with the provider, `end`, `stop`, timers, `write`, `invalidate` | a client, the provider, the file system | `MoBridge` |
| Provider turn, credential store | one request; one file with a lock | - | bridge, operator | no |
| HTTP front of a workspace, guard, live controls | - | calls of the workspace | workspace | no |

### How the parts interact

*One lock.* All rows of the runtime are executed under one lock
(`acquireLock`); a thread lets it go while it sleeps, while a region is compacted
and while it runs an update's own code without rows. So what a reader has to
think about is not words of memory but what changes between two points where a
thread lets the lock go.

*Handing over the thread.* A process belongs to one scheduler. An update runs on
a fiber; it has its scheduler's thread until it ends or parks. `ask` of a process
of the same scheduler runs the target's waiting messages at once, on top of the
caller's update; `ask` of another scheduler's process parks the caller's fiber,
and the thread goes on with other updates. So in the middle of one update, any
number of others begin and end.

*Transactions.* What an update sends, and what it answers, is held in the process
until the update commits; a crash throws it away and undoes the state. An `ask`
is the exception: its message goes out at once.

*Waiting.* A thread with nothing to do spins, then sleeps in its poller or on a
word; who gives it something pokes it. A sweep stops the world: it sets
`sweeping`, waits until no update has a thread, marks, and lets the others go on.
`main` is code on scheduler 0's thread that settles after each statement: it
waits until every scheduler rests.

*The harness.* The owner of a workspace, on the host, is one thread that sends one
call at a time to the machine. What it sends is served by a process of its own
there, under a lock that is not the same for all of them: bootstrap, finalize,
dispose and create take the machine's registration lock, the controller's other
calls the workspace's. The supervisor, the reaper and the container of an
execution take none. The recovery takes everything, and must make sense of
whatever the others were cut at. The bridge is one event loop; its journal writes
one after the other, each with several awaits, and whoever waits for one does not
wait longer than `closeMs`.

### What is hard, and what makes each part correct

The full list, with the line where each bites, is under `hazards` in
`PROJECT.json`. In short:

- *Asks.* An ask's message can be in three places (mailbox, running, kept),
  and each place has its own code that answers when the process crashes.
  Deadlines race answers. Correct: while an ask is unanswered somebody holds it;
  an answer is given once, to an asker that is still there, from an update that
  committed.
- *Transactions with other updates in the middle.* Correct: from outside each
  update happens at once or not at all.
- *Bounds looked at early and used late.* Room is checked at the send; the message
  arrives at the commit. Correct: the excess is bounded, order is kept, nothing is
  put in the mailbox of a process that stays down.
- *Wakes.* A parked update has several reasons to be woken, at times on another
  thread. Correct: each one wakes it, it is in one queue once.
- *Rings.* Updates that ask each other round a ring. Correct: found when the ring
  closes, and not waited out.
- *Sleep and poke, stop-the-world, settle, the end of the run.* Each is a
  decision on what other threads do, taken while they change. Correct: nobody
  sleeps on work, a sweep reads nothing that runs, `main` goes on only when
  everything is quiet, and every thread ends.
- *Ids that are used again.* A handle is an index. A process nobody can reach is
  ended and its index given to the next, so a handle the sweep does not see, in a
  frame, a state, a message, a delayed send or an answer under way, becomes a handle
  of a stranger. Correct: every handle and every message meets the process it was
  made for.
- *Processes that outlive who called them.* A container, its supervisor and its
  reaper go on when the owner is dead and the call that made them killed. Correct:
  no candidate runs with nobody left to end it, or on the wrong mounts; a proof of
  cleanup is true for ever; a success is published only for what really succeeded.
- *Recovery.* Any record may be missing, old or torn, any call may arrive late.
  Correct: a confirmed cleanup leaves nothing and nothing comes back; what keeps a
  recovery out is known.
- *A journal behind a time limit.* A write that was reported as failed may still
  land. Correct: the provider is called and the reply started only with their
  record on disk; the session's label is true and nothing late replaces it;
  everything ends though nobody ever answers.

## 2. The modules

    MoActors            what the processes promise: updates are atomic
      ^ implements
    MoProcs             processes, asks, supervision, who has which thread
      ^ EXTENDS
      MCProcs           instances          MCProcs*.cfg
      MoProcsProofs     type correctness; updates are transactions
      MoProcsAsks       asks are answered; turns, wakes and rings
      MoProcsMessages   messages: one place, in order, how many
      MoProcsActors     MoProcs implements MoActors
    MoTurns             threads: sleep and poke, sweep, settle, stop
      MCTurns           instance           MCTurns.cfg
      MoTurnsProofs     sleep and poke, sweep, settle

    MoSweep             starts, handles, the sweep, ids used again
      MCSweep           instances          MCSweep*.cfg
      MoSweepProofs     handles stay live, garbage stays garbage

    MoExecutor          one machine's executions: supervisor, reaper, finalize, dispose
      ^ EXTENDS
    MoWorkspace         their workspace: owner, controller, bootstrap, recovery
      MCWorkspace       instances          MCWorkspace*.cfg
      MoWorkspaceProofs executions, their records and the recovery
    MoBridge            the provider bridge and its journal
      MCBridge          instance           MCBridge.cfg
      MoBridgeProofs    journal and labels

### MoProcs

One action is what one thread does between two points where it lets the lock go
or hands over its thread.

| Action | Code |
|---|---|
| `Send`, `SendLater`, `MainSend`, `MainSendLater`, `MainOverflows` | `Sim.send`, `Sim.sendLater`, `Sim.roomFor`: held in the outbox by an update, at once from `main` |
| `Ask` | `Turns.ask` up to its loop: room, `awaiting`, the message into the mailbox |
| `AskReturns`, `AskGivesUp`, `AskDelivers`, `AskStepsAside`, `AskParks` | one pass of that loop: the answer, `Down` or `Timeout`, the target's turn on this thread, a step aside for a sweep of another scheduler (the update among the ready ones until the sweep ends), or park |
| `Expire` | a deadline passes: the `Timeout` of that pass, and the wake of a parked asker by `step` |
| `Defer`, `Answer` | a `reply_to` moved into the state; `reply.answer` |
| `Resume`, `Deliver` | `step`: the ready queue before the runnable bits |
| `DueLater` | a delayed send's time: into the mailbox or dropped |
| `Commit` | the end of `Sim.deliver`: sends out, answers out, `kept` updated, askers woken |
| `CrashStaysDown`, `CrashRestarts`, `CrashGivesUp` | `Sim.crashed` under each policy, `downKept`, `giveUp` |
| `Settle` | the region compacted with the lock let go (the process still busy), then the thread goes back |

Each thread is the stack `stack[s]` of the updates handed on top of each other,
the holder last; an empty stack is the scheduler's loop, or `main`'s code on
scheduler 0.

What is abstracted, each time towards more behaviours:

- A message is an identity and where it came from. A state is not represented:
  only whether the update that changes it commits.
- A deadline passes at any time after the ask began and a delay ends at any time
  after its commit; the restarts in the window that are forgotten by now are any
  number of them.
- A crash may come at any row: a failed contract, a full mailbox and a target that
  is down are all causes of the three crash actions.
- The ready queue is a set: which of several ready processes goes first is free.
- `main`'s settle between two statements is left to `MoTurns`; here `main`'s next
  row may come before the others are quiet.

The parameters: `Procs`, `Scheds`, `Home` (the placement), `Bound`, `Policy`,
`Supervisor`, `MaxRestarts` are the program's; `Knows` and `Calls` say which
handles each process holds and which rows its code has, so that an instance can be
a program with only asks, or only sends; `MaxMade` is the bound on messages.

### MoActors

The abstract specification: each process has a queue of messages, and an update
is one step that takes the oldest message of its process, puts any messages into
queues and timers, and either is done or is as if it had not been but for its
asks. `ImplementsActors` says that `MoProcs` is one, under the mapping: the
queue of a process is the message it runs (until it commits or crashes) followed
by its mailbox; timers are `later`; done is the history `committed`. This is
the statement that nesting, parking and threads do not show.

### MoTurns

Where `MoProcs` takes threads for granted (a thread whose loop has a turn hands
it out), `MoTurns` models them: each thread's place in `loop`, `step`,
`idle`, `settle`, `stopTurns` and `stop` is `pc[s]`. The lock is in the
`pc`: five places hold it (`Locked`), every other locked section is one action
with the guard `Free`. The word `Sched.state` and the wake descriptor are read and
written outside the lock, so `SpinEnds`, `FallsAsleep`, `FutexWaits`, `PollReports`
and `SaysRunning` are single accesses of them. `Rests`, `Settles` and `Waits` are
the part of `idle` and `settle` under the lock. A poke is the exchange and the wake
in one step of the poker: the sleeper looks at the word again before it sleeps and
after it wakes, so what lies between them cannot be told apart but by one wake too
many. Processes are counted, not named.

Not in it: the updates nested by an ask (one thread's nest is one "update"),
`main`'s waits inside an `ask` or a blocking call, the deadlines of sources and
delays on scheduler 0 (`hasWork`), `finish`'s condition on requests in flight, the
mode with a single scheduler, and what a sweep marks (`MoSweep`).

### MoSweep

What `MoProcs` takes as given, the processes, comes and goes here. The state is
every place of the runtime a handle can be in: start arguments, states, mailboxes,
outboxes, the answers an update has made, those nobody has taken, the targets of
sources, delayed sends, the locals of frames, and the operand stack. The code's
handle is an index of `Sim.procs`; the model's has beside it which of the index's
processes it was made for, and no action reads that: it is there so that a property
can tell two of them apart.

| Action | Code |
|---|---|
| `UpdateStarts`, `MainStarts` | `Sim.start`, `Sim.startSupervisor`, `Sim.startUnder`: a free id or a new one, a new `Proc` in it |
| `MainStartSettles`, `MainStartsThen` | the same from `main` when a sweep is due: turns first, the arguments off the stack by then |
| `MainSettles`, `MainGoesOn` | `Turns.settle` between two statements |
| `UpdateSends`, `MainSends`, `Due` | `Sim.send`, `Sim.sendLater`, `Sim.dueLater` |
| `Asks`, `AskReturns` | `Turns.ask`: the message at once; the answer, or `Timeout` or `Down` |
| `Serves`, `SourceGives`, `SourceEnds` | `sources.zig` `row`, `send`, `retire` |
| `Delivers`, `Answers`, `Commits`, `Crashes` | `Sim.deliver`, `Sim.answerReply`, the two ends of an update |
| `Sweep` | `Turns.sweep`, whole: roots, marks, and `Turns.end` of what is finished and not marked |
| `EndsOwn` | `Turns.endOwn`: the id may be used again |

A sweep happens in one step when every update is parked and `main` waits, which is
what `MoTurns` shows of it (`WorldIsStopped`), and at any such time: when one is due
(`sweep_at`, `sweep_retry_ms`) is left out. `Reached` is the least set closed under
what marked processes keep, where the code has a worklist. Order in mailboxes,
bounds and who has a thread are left out, being in `MoProcs`; a call to a process
that is down changes nothing here. A value is the set of the handles in it, at most
one.

The code that calls may have its handles anywhere. What it gets (`Gets`) is put in a
local or left on the operand stack; when it asks, the frames that wait may have lost
any of their locals, the target's and those in the answers it holds among them; and
what it sends, asks or answers takes its handles off the stack. So the handles fall
into two: `Seen` is where a sweep looks, and `Unseen` where none does: an operand
stack, the arguments `main`'s start has in hand, the answers an update holds for its
commit, and whom an ask that has no answer asked. The code does not keep a process
because of an `Unseen` handle alone, and the two runs `sweep_spills` and
`sweep_answers` show what that does (below). The history `lost` names those handles:
of a process a sweep ended while they were `Unseen` and, after it, in no place of
`Seen`. What the passing runs and the theorems say is that nothing else goes wrong: a
handle in use is live or lost, and there is no other way to lose one.

### MoExecutor

The part of one execution that is on the machine. One action is one effect that
others can see: a request to Docker or systemd with its outcome, or a file.

| Action | Code (`executor/remote.py`) |
|---|---|
| `CandidateEnds` | the program in the container ends by itself |
| `SupervisorCreates`, `Registers`, `Checks`, `Starts`, `Watches`, `Cleans`, `Observes` | `supervise`, in its order: `docker create`, `registration.json`, the policy and the deadline, `docker start`, the attach loop with its limits, `cleanup`, `observation.json` |
| `SupervisorKilled`, `SupervisorStopped` | `RuntimeMaxSec` or a fault; `ExecStopPost` |
| `TimerFires`, `ReaperKills`, `ReaperRemoves`, `ReaperDisarms` | the deadline timer and `reap`: kill, remove, record, another attempt, poweroff |
| `FinalizeStops`, `Removes`, `Proves`, `Disarms`, `Settles` | `finalize` under the registration lock |
| `DisposeRemoves`, `DisposeEnds` | `dispose`: `shutil.rmtree`, a file at a time, the directory last |

What is abstracted: a request to Docker that was cut is settled, done or not,
before the process that sent it is seen to be gone; a removal that fails leaves
the container as it was; the deadline passes when the timer fires or, seen from a
check, at any time before; the reaper is not killed (its service's
`TimeoutStartSec` is longer than the seconds it gives itself); after a reap
that confirms nothing the timer's unit is loaded or not. A cgroup in which processes are
seen to be left makes the reaper power the machine off; one that cannot be read does
not, and either may be the case when a container is left running. Left out: `cancel`,
executions without a workspace, the contents of policies and counters.

### MoWorkspace

The composition: the owner, the controller's calls, the bootstrap, the recovery and
the power of the machine, with the executions of `MoExecutor`.

| Action | Code |
|---|---|
| `HostCreates` ... `HostDisposed` | `workspace.py`: each call of the owner from the record it writes first to what it does with the answer; `HostLosesReply`, `HostDies` at any of them |
| `HandleCreate`, `HandleReserve`, `HandleComplete`, `HandleFreeze`, `HandleDelete` | `workspace_controller.py` `handle`, whole, under the workspace's lock |
| `Handle...Cut` | the same, cut by its alarm, an exception or a kill at any place of it, with what its `finally` writes |
| `TailRetires`, `TailRemoves`, `TailCut` | what `delete` does past its lock |
| `HandleAlarm` | the controller's alarm before a claimed call changed anything: the workspace is quarantined all the same |
| `BootBegins` ... `BootKilled` | the bootstrap of a run: directory, manifest, `authorize`, timer, service |
| `FinalizeBegins`, `DisposeBegins`, `CallKilled` | the owner's other two calls get the lock, or die |
| `RecoverBegins` | `recovery/machine.py`: everything that is validated before any effect, and the close of the workspace; before it, on the host, `recovery/__init__.py` `validate_supporting` reads the rows' own manifests (`SupportingReadable`), which the owner's death may have torn (`hostTorn`) |
| `RecoverUnstarted`, `Bare`, `Finalizes`, `Finalized`, `Disposed`, `Absent` | the reconciliation of one row |
| `RecoverUnmounts`, `RecoverRemoves`, `RecoverCut` | the end of it, and its interruption anywhere |
| `MachineStops` | the poweroff asked for earlier takes effect |

What is abstracted: a second `create` of a workspace is left out (its owner record
refuses it); there is one slot for the calls of each run, so that of a finalize
still waiting for its lock when a recovery finalizes the same run only the
recovery's is kept; a second `delete` is refused while the first one's tail runs;
the terminal record and the state that go together are written as one; a machine
that is busy with another workspace's candidate is one more way for a bootstrap to
refuse. Left out: the file operations, `cancel`, identities and selections (they
are always the workspace's own) and several workspaces on one machine.

### MoBridge

One action is what the event loop runs between two awaits.

| Action | Code (`provider/bridge/server.mjs`, `journal.mjs`) |
|---|---|
| `Arrives`, `ArrivesAmiss` | the first lines of the handler: the request is the active one, or ends the session |
| `BodyOpens`, `BodyContinues`, `BodyRefused` | the body is there: dispatch intent, continuation, refusal |
| `WrittenContinue`, `WrittenIntent`, `WrittenOffer`, `WrittenToolEnd`, `WriteFails` | after each `await log.write(state)` |
| `TurnOffers`, `TurnErrs`, `TurnRefused` | the provider's answer |
| `ReplyFinishes`, `Closed`, `TimesOut` | the reply, the answer to a request that ended the session, `bounded` |
| `Disconnects`, `ClientErrs`, `Stops`, `StopReturns` | the other ends of a session |
| `WriteGoesOn`, `WriteDropped`, `WriteLands`, `WriteExpires` | `journal.mjs` `write`: its checks and awaits, its rename, its timer |

`Ends` is the function `end`: the first caller decides the label, waiting
snapshots are invalidated, and the label is written. `delivered` holds the numbers of the
provider calls whose answer reached the client, so that `LabelIsTrue` speaks of the final
call's and not of an earlier tool reply's. A snapshot is taken when
`write` is called, with the generation of that moment. What a body, a transcript
or an answer says is one choice between accepted and refused; a journal line that
is too large is a write that is dropped; the write of the temporary file and the
look at the target are one await each.

## 3. What is checked

Runs that pass:

| Run | Instance | Distinct states | Properties | Shows |
|---|---|---|---|---|
| `procs_mixed` | 3 processes, 2 on `main`'s scheduler and 1 apart; one of them `restart: :never`; every row; 3 messages | 263,379 | `TypeOK`, `NoStrandedAsk`, `AnswerHasAsker`, `AtomicSends`, `OkIsCommitted`, `OnePlace`, `DownIsEmpty`, `OneTurn`, `ImplementsActors` | an ask is never forgotten and answered once, by a committed update; updates are transactions; the whole implements `MoActors` |
| `procs_ring` | 3 processes on 3 schedulers, asking round while `main` and one of them send; bounds 1 and 2; 5 messages | 624,127 | `NoRingAcross`, `NoLostWake`, `BacklogBounded`, `SendsInOrder` | a ring across schedulers is found by the ask that closes it; no one stays parked on a wait that is over; how far a mailbox passes its bound; order between two processes |
| `procs_live` | 3 processes, 2 on `main`'s scheduler and 1 apart, every row; 2 messages; fair | 12,618 | `AsksReturn`, `MailboxesDrain` | every ask returns, every mailbox drains, although an ask of a process of the same scheduler may step aside for a sweep at any pass of its loop |
| `turns` | 2 threads, 2 given, 2 sweeps; fair | 76,306 | `TypeOK`, `NoLostPoke`, `WorldIsStopped`, `SettledIsQuiet`, `WorkIsDone`, `MainSettles`, `RunEnds` | nobody sleeps on work; a sweep reads nothing that runs; `main` goes on when all is quiet; what is given is handed out with no help from a timeout; `main`'s statements end; the run ends |
| `sweep` | 2 ids (symmetric), 3 starts, 2 messages; `main` starts, sends and serves, updates start, delay sends, ask, answer and defer | 1,929,974 | `TypeOK`, `HandlesAreLive`, `MessagesReachTheirs`, `EndedOwesNothing`, `GarbageStays` | a handle in any place a sweep reads meets the process it was made for; a message meets the process it was sent to; no sweep ends who owes an answer to a caller with its handle in sight; what is garbage stays so |
| `workspace` | one candidate and one verification of its snapshot, 2 attempts of the reaper; every call may be lost or cut, everything may be killed | 1,062,154 | `TypeOK`, `StartedIsWatched`, `UnitsHaveFiles`, `ProofIsFinal`, `RunsOnItsMounts`, `VerdictIsEarned`, `ConfirmedIsClean`, `OnlyTheseBlock` | nothing runs unwatched or on the wrong mounts; proofs and verdicts are true; a confirmed cleanup stays one; what can keep a recovery out |
| `bridge` | 3 requests, 2 provider calls; fair | 109,586 | `TypeOK`, `RecordedFirst`, `LabelIsTrue`, `LateStaysOut`, `SessionEnds` | the journal is ahead of what it records; labels are true and final; everything ends |

Why the bounds are enough to be interesting. With three messages `procs_mixed`
has a message of `main`'s, an ask made in the update it started, and a message
made in the update of that ask or kept past it; this reaches every one of the
three places of an ask, a crash in each, an answer in a later update (a second
message to the process that kept the ask) and a delayed send to a process that
is down by then. A bound of one message makes every second send a full mailbox.
Five messages let three asks of a ring be open at once, started by `main`'s
sends, on three schedulers (the smallest ring in which a process waits on the
closing ask only through another's). For `SendsInOrder`, five messages and a bound of two give
two updates of one sender, each with sends held, with others between them. In
`MoTurns`, two messages or waits and two sweeps with two threads let either give
work to the other while a sweep on either holds the other back and `main` waits to
settle; each thread can sleep in both ways at any point. That more threads bring
nothing new to the four invariants is proved.

In `sweep` three starts on two ids make one id used again while a process with the
other may still hold the old handle. Two messages are enough for a handle to travel in one while the
other is an ask that is kept, answered by another update, or never; for a crash in
between; and for an answer that brings its asker a handle. `main` asks in `sweep_answers` only,
since its answers come as an update's do, and an update sends at once only in the
theorems: in the run it delays its sends, which reaches the outbox and one place more.

In `workspace` two executions are one of each kind: the candidate writes the
storage, the verification reads the snapshot that `freeze` makes of it, and their
calls, timers and supervisors overlap with each other and with `freeze` and
`delete`. A second attempt of the reaper is the difference between another try and
giving up. The owner's life is one pass (it does not come back); the recovery may
begin and be cut any number of times. There is no bound but these. TLC compares
states by `StillRead` of `MCWorkspace`: it leaves out what no step and no
property can read any more (how a call ended that nobody waits for, what was
observed for an owner that is dead), which changes no behaviour.

In `bridge` three requests are a first one, its continuation and one that comes in
between or too late; two provider calls let the budget run out. `MaxTurns` stands
for both budgets of a session, `LIMITS.steps` and `LIMITS.tokens`.

All other constants of the runs are named in the `MC` modules.

Deadlock is not looked for in any run: an instance stops when its messages or its
executions are used up, when a supervisor gives up or when the run or the session
has ended. That nobody waits for ever before that is what the properties under
fairness say.

### Fairness

`MoProcs`' `FairSpec` owes: an update that runs comes to its end, an asker that
has the thread goes round its loop, a deadline passes (each by itself: that an ask may go
round its loop, or step aside, any number of times does not keep its deadline from
coming), a delay ends, and a
scheduler whose loop has the thread hands out a turn it has. The code owes the
same: each is the next statement of a thread that is not waiting, or a clock.
It owes nothing to `main`'s next statement nor to an update's next row. Weak
fairness is enough because a run delivers finitely often, and an ask that steps aside
again and again ends at its deadline. That a scheduler asleep
is woken, which the fairness of `Turn` takes for granted, is what `MoTurns` checks.

`MoTurns`' `FairSpec` owes: a thread that has the lock, or is in `idle`, goes on
(weak fairness); a thread that waits for the lock gets it in the end (strong
fairness, since others take the lock and let it go in between; `acquireLock` tries
and then waits in the system). It owes no timeout: neither the one second no
sleep goes past, nor the 20 ms of a sweep's wait, nor that a socket reports. So
`WorkIsDone` says that the pokes alone are enough, and the one-second sleep is not
what makes the runtime go on.

`MoBridge`'s `FairSpec` owes: a wait on a client or the provider ends with its
timer, a handler whose write has been settled goes on, a write that lasts expires,
the session's timer stops it, and `stop` returns at its own timeout. All of these
are the event loop's. It owes nothing to a client, to the provider or to the file
system: a request may never come, an answer may never come, and a write may hang
for ever. `MoWorkspace` states no fairness: nothing in it is bound to happen once
the machine, its operator and the network may each fail for good.

### Where the code and its documents differ

Five runs state what a document or a comment says, and TLC finds the code does
otherwise. Neither of the first two breaks a promise above; each is one step of the
code that a reader of the document would not expect. The last three are faults: two
hand a program a handle of a process it never started; after the third an operator has
to repair the machine by hand.

| Run | Says | Does |
|---|---|---|
| `procs_bound` `MailboxBounded` | `03-semantics.md:34`: every mailbox is bounded | a commit does not look at the bound again: two updates that each hold a send that fitted overfill the mailbox (`sim.zig:1158`). `BacklogBounded` says by how much at most |
| `procs_cycle` `NoWaitCycle` | comment `turns.zig:1236`: `Timeout` at once when the target waits on this call | on one scheduler only a target that has the thread is looked at; one that is parked in an ask that leads back is not, and both wait for a deadline (`turns.zig:1268`). `NoRingAcross` says that rings of asks between schedulers are found |
| `sweep_spills` `AllAreLive` | `03-semantics.md:33`: a process ends once "no handle to it is held by `main`, by an update in progress, ..."; comment `turns.zig:599`: a sweep stops the updates so that no handle on an operand stack is missed | the sweep reads the locals of frames and no operand stack (`turns.zig:1087`, `1098`). `main`'s `start` may hand out turns, and so sweep, with its arguments already taken off the stack (`sim.zig:611`): in `Relay.start(Keeper.start())` (`examples/programs/ends/main.mo:80`) the keeper, idle and in no local, is ended and its id given to another. An update parked in an ask of a process it has only on its stack (`Idle.start().ask(...)`, `examples/programs/spread/main.mo:53`) is as exposed. It takes a sweep due at that very moment, when the keeper's start is the 64th start or finished update since the last |
| `sweep_answers` `AnswersAreLive` | comment `turns.zig:1060`: a process has finished when no handle to it is where anything could use it, "in a send an update holds, or in a reply not yet taken" among those places | of an update under way a sweep marks the frames and the outbox, but not the answers it holds for its commit (`Proc.answers`), only those that were given (`turns.zig:1104`). An update that answers with the handle of a process it just started, in no local, and then parks in an ask, has that process ended under it; its commit hands the asker a handle of whoever has the id by then |
| `workspace_disposal` `CompletedIsRecoverable` | `mo-workspace-recovery-v1.md:67`: a completed reservation with leftover execution storage is recoverable | a disposal cut after it removed `manifest.json` leaves a directory whose run is in `completed_executions` but in no terminal record, and the validation reads its missing manifest in every recovery (`recovery/machine.py:103`). `OnlyTheseBlock` says what else can keep one out: a record a kill tore, on the machine or on the host, and a reservation cut before its call's id was in it |

Three more that no run states. An ask whose asker's deadline has passed stays in `kept` until
the process answers it or crashes (`sim.zig:1168`), where the comment at `sim.zig:121`
says that the deadline takes it out. `03-semantics.md:67` says that a client waiting in
`ask` sees `Timeout` when a restart loses its message; it is answered `Down` at once
(`sim.zig:1472`). The comment at `sim.zig:494` says that the asks a process keeps go
Down when it is ended; `Turns.end` answers none, and `EndedOwesNothing` says that it
need not, as long as who waits has its handle where a sweep looks.

### Mutants

Every property of every passing run has a mutant that breaks it: a definition that
models code, changed the way a slip in that code would change it. They stand just
before the definition they vary and nothing in the specifications uses them:
`HasRoomToSpare`, `WakeNobody`, `WakeTwice`, `AnswerAtOnce`, `AcceptsDown`,
`ExpireUnseen`, `WaitsOnDirectly`, `StillAwaitedToo`, `KeepsHeld`, `FlushedToAll`,
`FlushedInFront`, `UnansweredWaiting`, `MayRestartAgain`, `SettleStillBusy` in
`MoProcs`; `PokedAsleep`, `StepsAsideCounted`, `RestTellsNobody`,
`OthersRestUnswept`, `StartsUnrested`, `StillButOne`, `StopsUnpoked` in `MoTurns`;
`KeepsArgsOnly`, `RootsButLater`, `RootsButFrames`, `AskReturnsKeepingIt`,
`FinishedThoughMailWaits` in `MoSweep`;
`RegisteringLate`, `SupervisorChecksPolicy`, `MoreAttemptsByOne`,
`FinalizeStopsAnyway` in `MoExecutor`; `SucceedsAsSeen`, `DeletableActive`,
`BootBeginsUnbarred`, `RecoverFinalizedUnrecorded` in `MoWorkspace`; `LeavesAll`,
`WrittenIntentAnyway`, `TurnOffersLate`, `TimesOutOnClient`, `StopsAsTerminal` in
`MoBridge`.
For instance, with `ExpireUnseen` a deadline does not wake a parked asker; with
`WaitsOnDirectly` an ask sees a ring of two and not of three; with `StartsUnrested`
a sweep does not wake whom it held back; with `FinalizeStopsAnyway` the container
is removed though its supervisor may still be there; with `TimesOutOnClient` only
the waits on the client have a timer.

## 4. What is proved

Those about `MoBridge` are for any set of requests and any positive `MaxTurns`;
those about `MoTurns` for any finite set of schedulers and any number of messages,
waits and sweeps; those about `MoSweep` for any finite set of ids, any number of
starts and messages and any choice of calls, with code that leaves its handles
wherever it likes; those about `MoWorkspace` for any finite set of executions, any
of them read-only, and any number of the reaper's attempts. Those about `MoProcs`
are for all values of its constants under the assumptions the module names:
processes are a finite set without `Main`, each is placed on a scheduler, bounds are
positive, policies are one of two, `Knows` and `Calls` are functions of the right
kind, `MaxRestarts` and `MaxMade` are natural numbers. `MaxMade` is in a guard only,
so a run of any length is one of some `MaxMade`.

| Theorem | Module | States |
|---|---|---|
| `TypeCorrect` | `MoProcsProofs` | `Spec => []TypeOK` |
| `AskInvariant` | `MoProcsAsks` | `Spec => []AskInv` |
| `NoAskStranded` | `MoProcsAsks` | `Spec => []NoStrandedAsk` |
| `AnswersHaveAskers` | `MoProcsAsks` | `Spec => []AnswerHasAsker` |
| `UpdateInvariant` | `MoProcsProofs` | `Spec => []UpdateInv` |
| `SendsAreAtomic` | `MoProcsProofs` | `Spec => []AtomicSends` |
| `RepliesAreCommitted` | `MoProcsProofs` | `Spec => []OkIsCommitted` |
| `UpdatesHaveOnePlace` | `MoProcsAsks` | `Spec => []OneTurn` |
| `ParkedAreWoken` | `MoProcsAsks` | `Spec => []NoLostWake` |
| `DownStaysEmpty` | `MoProcsAsks` | `Spec => []DownIsEmpty` |
| `RingsAreSeen` | `MoProcsAsks` | `Spec => []NoRingAcross` |
| `MessagesHaveOnePlace` | `MoProcsMessages` | `Spec => []OnePlace` |
| `SendsArriveInOrder` | `MoProcsMessages` | `Spec => []SendsInOrder` |
| `BacklogHasBound` | `MoProcsMessages` | `Spec => []BacklogBounded` |
| `UpdatesAreAtomic` | `MoProcsActors` | `Spec => ImplementsActors` |
| `BridgeTypes` | `MoBridgeProofs` | `Spec => []TypeOK` |
| `BridgeRecords` | `MoBridgeProofs` | `Spec => []RecordedFirst` |
| `BridgeLabels` | `MoBridgeProofs` | `Spec => []LabelIsTrue` |
| `BridgeLate` | `MoBridgeProofs` | `Spec => LateStaysOut` |
| `TurnsTypes` | `MoTurnsProofs` | `Spec => []TypeOK` |
| `TurnsStopped` | `MoTurnsProofs` | `Spec => []WorldIsStopped` |
| `TurnsSettled` | `MoTurnsProofs` | `Spec => []SettledIsQuiet` |
| `TurnsPoke` | `MoTurnsProofs` | `Spec => []NoLostPoke` |
| `SweepTypes` | `MoSweepProofs` | `Spec => []TypeOK` |
| `HandlesStayLive` | `MoSweepProofs` | `Spec => []HandlesAreLive` |
| `MessagesStayTheirs` | `MoSweepProofs` | `Spec => []MessagesReachTheirs` |
| `SweptOwesNothing` | `MoSweepProofs` | `Spec => []EndedOwesNothing` |
| `GarbageIsGarbage` | `MoSweepProofs` | `Spec => GarbageStays` |
| `WorkspaceInvariant` | `MoWorkspaceProofs` | `Spec => []IInv` |
| `WorkspaceTypes` | `MoWorkspaceProofs` | `Spec => []TypeOK` |
| `CandidatesAreWatched` | `MoWorkspaceProofs` | `Spec => []StartedIsWatched` |
| `DirectoriesStay` | `MoWorkspaceProofs` | `Spec => []UnitsHaveFiles` |
| `ProofsAreFinal` | `MoWorkspaceProofs` | `Spec => []ProofIsFinal` |
| `MountsStay` | `MoWorkspaceProofs` | `Spec => []RunsOnItsMounts` |
| `VerdictsAreEarned` | `MoWorkspaceProofs` | `Spec => []VerdictIsEarned` |
| `ConfirmedStaysClean` | `MoWorkspaceProofs` | `Spec => []ConfirmedIsClean` |
| `OthersAreReconciled` | `MoWorkspaceProofs` | `Spec => []OnlyTheseBlock` |

*Asks.* Neither `NoStrandedAsk` nor `AnswerHasAsker` is inductive alone: that an
answered ask is no longer awaited needs that who waits for it is known, and that a
returning asker leaves nothing behind needs that its answer, once given, is the
only trace of it. Together they need two more facts, and `AskInv` is all of it:
`SettlingBusy`, that a process being compacted is one whose update ended (so the
message it ran no longer counts as a place of an ask), and `AsksMade`, that
every ask open was made before (so the next message's identity is new to
everyone). `MoProcsAsks` proves, one lemma for each action, that a step keeps each
part.

*Updates.* `AtomicSends` looks at what left an update; that a commit lets out only
what this update made needs that what a process holds is from the update it is
running: `HeldIsOwn`. It holds because an update's end of either kind clears
what it held and a crash lets nothing out. `OkIsCommitted` needs only that an `"ok"` is
sent in the step that commits, and that a crash sends `"down"`; `committed` only
grows. `UpdateInv` is these three and `TypeOK`.

*Turns.* `OneTurn` is nearly inductive: what is pushed on a scheduler's stack is the
holder of a thread just taken, and it is not there already because it waits in an
ask or begins its update in this step. `NoLostWake` needs more of the
rest of the model: a wait ends by an answer, a deadline, a crash of either side or
a refusal, and that all of these reach the parked update needs that an ask in
progress has one caller (`AskersDiffer`, `AsksBegun`), that an ask not answered is
somewhere (`NoStrandedAsk`), and that the update is parked only once (`OneTurn`).
`DownIsEmpty` needs that a process that is down runs nothing except the end of its
last update (`RunningUp`). `TurnInv` is these with `AskInv`.

*Messages.* `OnePlace` speaks of mailboxes; a message comes there from an outbox, or
from what its sender holds back by way of `later`, so `PlaceInv` speaks of all four
kinds of place: each identity is in one, once, is not one an update runs or ran
(`Unspent`), and was given before (`Given`). `EveryStep` sorts the steps into eight
kinds by what they do to messages; each kind then puts one new identity in one
place (`MadeApart`), takes some away (`FewerApart`), or moves a place's content to
one other (`MovedApart`). `SendsInOrder` is about one mailbox; that a commit may
append an outbox without a look needs that the outbox is its owner's, in order, and
made after all of that owner's sends that wait there already (`OrderInv`).

*Rings.* `NoRingAcross` is inductive given `TurnInv`, but for the step that parks an
update `p`: it may be the last of a ring. `AskParks` happens only when `WaitsOn` found no
path of asks from the target back to `p`. Follow the asks from the target, then, through
the processes of the supposed ring: every process on the way is parked before this step,
and none asks `p`. `RingIsSeen` takes the set `R` of those a path of different
processes reaches. Such a path is no longer than there are processes
(`PathsAreShort`), so it is among those `WaitsOn` looked at, and `R` is closed under
asking: a ring, without `p`, that was there before.

*The backlog.* What is held for a target is counted as a set of pairs (`HeldFor`), so that
its size is additive where the step needs it. `BacklogInv` adds that nobody holds more
for a target than its bound, and only a process whose code sends to it holds
anything. A send, an ask or a delayed message gets in only where the mailbox itself is
within its bound, and then what is held is at most the senders' times the bound, whatever
it was before. Only a commit lets in more, and it takes from what is held what it
puts in the mailbox (`SlotsSplit`), so the sum does not grow.

*The refinement.* `MoActors` sees of a process the message it runs, until its update ends,
and those that wait behind it (`Letters`), and of the delayed sends whom they are for. Each
step of `MoProcs` is one of its steps or none: a take moves the head of the mailbox to the
update and is none, a commit is the whole update with all it sent, a crash one that
sent nothing. What the abstract step requires and the code does not look at comes from
the invariant (`RefineInv`): the identities a commit puts in mailboxes and in `later` are
met nowhere else (`PlaceInv`), the update of a process that ends is its own and the process
is up (`TurnInv`), and no update sends a target more at once than its bound (`OutboxFits`).

*Type correctness* is the base of both. It is not a formality in one place:
`restarts \in [Procs -> 0..MaxRestarts]` says that no run of crashes passes
`max_restarts` without the supervisor giving up.

*The bridge.* `RecordedFirst` speaks of the moment after a write; between the write
and that moment others may be appended, dropped, expire and land. `BridgeInv` adds
what holds meanwhile. `OneWrite`: of the writes on the chain at most one is the one
a handler waits for, and while there is one it is told of none. `Ahead`: that write
and every one behind it record the step the handler is about to take (a label that
comes in between keeps the number of calls and the offer), and once the handler is
told of it the file does too; so it does not matter which of them land. `InOrder`:
snapshots are numbered up along the chain, and the file's is below them all, which
is the second half of `LateStaysOut`. `Labelled` is what the states between two
awaits have in common, e.g. that a session that is not over and has a call of
unknown outcome is at its intent and has an active request, so that whoever ends it
calls it uncertain. The steps are first sorted into kinds (`Kinds`): a handler that
ends its session, one that goes on and waits, one that only moves, somebody else's
end, and the steps of the chain; each part of the invariant is then kept for one
reason per kind.

*The threads.* `NoLostPoke` speaks of a thread asleep; what is inductive is about a
thread from the moment it says it spins to the moment a poke reaches its word, and
`NothingMissed` is that: whoever is `Unpoked` has nothing to do. It enters that
stretch with the lock held and nothing to do (`idle`'s checks), and whoever gives it
something swaps `poked` in. Three facts carry it. `Words`: what `Sched.state` can
say at each place on the way to sleep, so that a thread asleep whose wake is not
written is unpoked. `RestsOnNothing`: `Sched.resting` is believed by main's
`othersRest`, so it must be false of whoever has something to hand out, unless a
sweep holds it back, and then the sweep's end pokes it. `Reasons`: main asleep has
said that it waits, and a thread that is gone has left a reason for main to go. For
the sweep, `OneLock` and `OneSweep` (whose sweep it is, and that a step past its
refusal saw none) are enough; that `updating` counts the threads with an update
(`OneMoves`, `CountKept`) is what makes `updating = 0` mean that the world stands.

*The sweep.* `HandlesAreLive` says what is true of places; a sweep keeps it because
it reads nearly all those of `Seen`, and the proof is about the ones it does not.
`IdleHasNothing`: a process between updates has no frame, no outbox and no answer held,
so a handle an idle process has is in its arguments or its state. `SweepLooks` is then: a
handle in a place of `Seen` is among the roots (`RootsAre`), or is kept by an idle
process, and such a process is either marked, and then so is what it keeps
(`ReachedIsClosed`), or it ends in this sweep and its place with it. What is `Unseen` and not
also `Seen` once the sweep is over is what `lost` takes. All other steps only move handles,
except a start, which takes an id at which nobody lives (`LivesOn`, `MadeLives`).
`EndedHasNothing` makes the next two properties follow: nothing reaches the mailbox of an
ended process, and whom an ask waits for is one of the `Unseen`, so live or lost. That all
the handles in places are of one set, but for those that some processes `E` keep
(`PlacesIn(S, E)`, of `SeenIn` and `UnseenIn`), is kept by every step but a start and a
sweep, whatever the set (`PlacesStep`), and is used twice. With the live handles and the
lost ones (`GoodHandles`) and no exception it is the above. For `GarbageStays` the set is
that of the handles of no garbage and `E` the garbage itself, where garbage is what a sweep
would end now and nothing in use, `Unseen` included, leads to: what is reached from
places that are all of the set is within it (`ReachedMisses`), and what would end now has
no frame, no mail and nothing under way, so it does nothing itself. A process somebody
has only in an `Unseen` place is no garbage, although a sweep ends it: its handle may
well come back into sight, and that is the fault of the runs above.

*The workspace.* None of its properties is inductive, and none of them can be
strengthened alone: that a proof of cleanup is final needs that no bootstrap comes
after it, which needs that the owner does not use a row twice and that a recovery
bars the workspace first; that a recovery's confirmation is true needs that what it found
no directory of was never begun, which needs what the owner had completed before it died.
`IInv` is one invariant of eleven parts. `LockInv`: the registration lock admits one
bootstrap, finalize or dispose, or a recovery's own. `BarInv`: a recovery is past the
owner's end, and no bootstrap is past the recovery's bar. `OwnerInv`: what the owner's
place in its code says of its call, its rows and its execution, e.g. that a
reserved execution was not dispatched before. `LifeInv`: how far an execution can be
when each of the three calls is at each of its steps. With these a call meets an
execution only as the call before it left it, and `ProofIsFinal` and `UnitsHaveFiles` are
kept. `WatchInv` carries the deadline from the timer's arming through the supervisor's steps
to the container's start, where `StartedIsWatched` begins. `MountInv` says that what may
still run is the active execution and which mounts that one needs; `StateInv` what the
record on disk says meanwhile, and that the tail of a delete runs with no active one.
`VerdictInv` is what was seen of a candidate and what it did. `AccountInv` is why a recovery
may trust what it does not find: a dispatched execution is completed, recorded, or the
active one, with its directory if it began; and `RecoveryInv` is the recovery's loop: the
rows it is done with are gone and recorded, until nothing is left to unmount. `ShapeInv` is the
types. TLC checked `IInv` on the run's instance first; the proof has one lemma for each part
and group of steps, and the parts that a group does not touch are kept together.

Only model-checked: liveness, that is `AsksReturn`, `MailboxesDrain`, `WorkIsDone`,
`MainSettles`, `RunEnds` and `SessionEnds`. They need fairness, and the prover has no rules
for `ENABLED`. The violations that the other runs show are TLC's too.

## 5. What is not modelled, and why

- The sweep of a test run (`Sim.sweepEnded`), which ends the same processes in one
  thread and reuses no id; what the runtime keeps of ended processes (regions, `kept_workers`);
  `exit`, which drops delayed sends.
- Waits of an update on a peer (`accept`, `read_line`), the updates they doom and
  the check of held sends before them: planned as an extension of `MoProcs`.
- The surface's pause of a process: planned with it.
- Sources, pool, credential store: planned, see below.
- The harness's file operations on a workspace, `cancel`, several workspaces on one
  machine, its HTTP front, guard and acceptance scripts: front ends over the calls
  that are modelled, or data.
- Placement: a heuristic for balance; any placement is allowed for.
- The single-scheduler mode of `turns.zig` and the simulated scheduler of tests:
  schedules of theirs are schedules of `MoProcs` with one scheduler.
- Memory, sockets, TLS, HTTP parsing, files, commands: data, or the operating
  system's state.
- The compiler, the checker, the test runner and the C runtime: sequential
  transformations, or a second copy of what is modelled.

## 6. Plan

In order, most important first. Done: 1 to 7, with the proofs of all their safety
properties and of the refinement.

1. `MoProcs` with its runs; its divergences from the documents.
2. `MoActors` and the refinement.
3. `MoTurns`: sleep and poke, sweep's stop, settle, stop; safety and liveness.
4. Proofs: types, asks, transactions, turns, rings and messages of `MoProcs`, and that it
   implements `MoActors`; the safety of `MoTurns`.
5. `MoExecutor` and `MoWorkspace`: executions, their workspace and its recovery, with
   their proofs.
6. `MoBridge`: the provider bridge and its journal, with its proofs.
7. `MoSweep`: processes start, idle and end, handles in every place, ids used again;
   with its proofs.
8. `MoSources`: several sources that feed one mailbox, with pausing at its bound,
   requests in flight and idle times. Properties: a pause has somebody to end it;
   the headroom is kept; every request in flight ends once. Abstract specification:
   a bounded channel.
9. `MoPool`: jobs that live on the caller's stack, the writer, replace with crash
   points. Properties: a write answered is a write synced; after a crash a replaced
   file is the old or the new; a job outlives its use.
10. `MoProcs` extended: waits on peers, doom and held sends, pause.
11. `MoStore`: the credential store's lock file, its stale locks and its renames.
12. Proofs for what is added: the pause of `MoSources` and its headroom; `MoProcs` with
    waits on peers keeps `TurnInv`, and that a doomed update commits nothing.
