# A verification project for Wendoo

TLA+ models of the concurrent and stateful core of the Wendoo language: the
cooperative fiber scheduler of its virtual machine, the brain runtime with its
pages and rules, the session relay that pairs an app with a tool and the client
that connects to it, the exchange of files between an app and the editor
extension, the assistant's sessions, and the projects that several browser tabs
share. TLC checks the models on small instances; TLAPS proves most of the
invariants, and one refinement, for every instance. `PROJECT.json` maps every
definition to the lines it models and lists the runs, the mutants that show each
property can fail, the hazards and the theorems.

## 1. Inventory of the system

| part | state it keeps | operations | what is hard about it |
|---|---|---|---|
| Handle table, `core/src/runtime/vm-types.ts` | handles (state, waiters, capped flag), running count of capped handles | create, resolve, reject, cancel, delete, gc | a handle may settle before anyone awaits it; capped and uncapped handles share the table |
| Fiber scheduler and fiber life cycle, `core/src/runtime/vm.ts` | fibers, run queue, spawn drain, the round of the tick | spawn, tick, resume, cancel, gc, one slice of bytecode | host bodies re-enter the scheduler in the middle of a slice; errors that leave a tick |
| Rule completion, `vm.ts`, `rule-services.ts`, `sensors/` | firing records, watcher slots, abandonment marks | WHEN gates, the settle walk, `then`, `otherwise` | a cluster of fibers ends one by one, in any order, over many thinks |
| Brain runtime, `core/src/runtime/brain-runtime.ts` | current and desired page, tracked root fibers | think, page change, restart, hooks, respawn | page changes come from hooks, Systems, host code and rules, in the middle of a slice |
| Brain compiler, `core/src/brain/compiler` | none | tiles to bytecode | a pure translation; the code of a rule is part of the model |
| Session relay, `bridge-session/src/relay.ts` | connections, pairings, join codes, quarantine, timers, awaited replies | hello, leave, goodbye, rotate, forward | six kinds of timer race with connections that come, go and come back |
| Websocket client, `bridge-client/src/ws-client.ts` | socket, queue, pending requests, timers | connect, send, request, close | reconnection, re-entrant listeners, time-outs |
| Bridge session, `bridge-client/src/project/session.ts` | status, join code, binding token | start, stop, end, hello, welcome | hello has to be said on every connection, ahead of what is queued |
| File exchange, `bridge-client/src/project/project.ts`, and in `apps/vscode-extension` the project manager and `BridgePairing` | file trees, sequence numbers, requests, pending changes | change, synchronise, retry, flush what is pending | changes of both peers cross; a request fails long after it was made, in another pairing |
| Project manager, `app-host/src/project-manager.ts` with its lock, broadcasts and store | open project, lock, unsaved changes, automatic save | open, close, delete, save, recover from a deletion | several tabs share a store; every operation awaits several transactions |
| Assistant sessions, `assistant-panel/src/session/machine.ts` | channel, handshake, quiet reopen loop, turn and queue of every brain | send, stop, cancel, hurry, add a library, show, close | handshakes that are superseded, sessions that go in the middle of a turn |
| Assistant bridges, UI, CLI, TypeScript compiler, schemas, apps | view state, trees | | sequential or third party to the core; not planned |

**How the parts interact.** The host calls `think`, which is synchronous: page
change, System functions, one scheduler tick, gc. A slice of bytecode calls host
bodies, which may settle handles, request pages and so cancel fibers, the
running one included. A terminal transition of a fiber settles the handle it
owes and walks the rules it ran for, which may answer the trigger handle of a
waiting `then` rule, which re-enters the run queue. Outside `think` the host
settles handles from its own callbacks. On the network side the websocket client
opens a connection and says hello, the relay binds it into a pairing and
forwards messages between the two members verbatim. Over it the app tells its
changes, and the extension asks for the app's tree and for its own changes to be
applied, and keeps those that fail for the next pairing. Tabs meet in the store of
projects, in the browser's lock manager and in a broadcast channel. The
assistant's machine talks to its service over one socket for each brain.

**What makes each part correct.** *Scheduler:* no lost wake-up, no fiber queued
twice, one slice per fiber and tick in queue order, children in the think that
spawned them, every action call answered once, no starvation. *Handle table:*
the count behind backpressure is exact. *Rules:* one firing in flight per rule,
rules of one page only, every `then` answered, once, about a completed firing;
one branch of a ladder fires. *Relay:* the two records of membership agree, a
code is in service exactly while a role is vacant and opens one session, timers
run exactly when they should, members know what holds, replies are not confused.
*Client:* hello first, messages in order and never dropped by a reconnection,
one timer or one socket. *File exchange:* the trees agree once nothing is under
way, and an edit is applied, asked for or pending. *Projects:* a tab saves only what
it holds the lock of, no lock is left behind, deletions are heard of, changes
are somewhere until they are stored. *Assistant:* one session for a brain and
none leaked, a true status, an ask that is asked once and not forgotten.

## 2. Modules

| module | models | state and actions against the code |
|---|---|---|
| `Fibers` | names of fibers and life-cycle states | `FiberState`; "absent" is an identifier the table lacks |
| `HandleTable` | class `HandleTable` | `hstate`, `waiters`, `capped`, `cappedCount` are its fields; `CreatePending`, `SettleHandle`, `SweepHandles` its methods. `SettleHandle` includes the completion callback's deletion |
| `RunQueue` | the queues of class `FiberScheduler`, the loop of `tick` | cut between slices; the recursion of `drainSpawnedSubtrees` is the stack `cascade`, `round` is the snapshot of the queue length |
| `FiberScheduler` | the scheduler over the handle table, and the instructions that touch either | one action per scheduler method and per instruction; a host body is an action that is enabled while a fiber that could be calling it runs |
| `FiberRounds` | history of one tick on `FiberScheduler` | `due` and `slices`: only observed |
| `RuleProgram` | a linked program: nesting, children in order, pages, how each rule is armed | constants with what the compiler's numbering makes of them, and the functions derived from them; nesting is a least closed set (`Within`), not a recursion, so that it can be proved about |
| `BrainRuntime` | pages, rules, firings, triggers over `RunQueue` | `fiber[f].pc` follows the code the compiler emits for a rule; `EndFibers` is the settle walk of every terminal transition: `Kin` is what the walk visits, `Emptied` the slots it answers, `Askers` and `Callers` whom it wakes. `threw` says which hooks of the current page have thrown out of `think` or `startup`: `EnterThrows`, `LeaveThrows` and `ThinkThrows` are the ends of a think by an error |
| `RuleHistory` | history of firings on `BrainRuntime` | which firings were claimed, spoiled, begun in this think |
| `Relay` | class `Relay` | one action per message, timer and close; `bound`, `pairing`, `told` are `Member.pairing`, the pairings, and the last news sent |
| `AskQueue` | what the assistant promises about the person's words, without sessions | abstract: for each brain, whether a turn runs, what waits and what was asked; whether the machine was closed, which alone drops what waits |
| `AssistantSessions` | class `AssistantMachine` over the channels of `websocket-channel.ts` | the methods are operators from the record of a brain to the record after the call; an action is a call, a socket event or a timer with all the continuations it sets off |
| `BridgeClient` | `ProjectSession` on `WsClient` | one action per call, socket event and timer, with the callbacks it runs; a listener may send or stop from within one. `left` is what a client that was closed has left behind; `begun` and `accepted` are history: what the session was begun with, and the token of the last welcome |
| `FileExchange` | `Project` on both sides, the extension's project manager and `BridgePairing`, and the bridge's routes | one file; the number of an edit is its etag. `asks` are the promises that wait, with what each goes on to do; the step of a client is taken with what the bridge does then |
| `ProjectManager` | class `ProjectManager` in several tabs, with the lock, the broadcasts and the transactions of the store | `task[k].at` is the transaction the call awaits; the actions between two awaits carry the code's names, and those for an await that rejects end in `Fails` |
| `MC*` | instances for TLC | programs, connections, symmetry |
| `FiberSchedulerProofs`, `BrainRuntimeProofs`, `RuleHistoryProofs`, `BridgeClientProofs`, `ProjectManagerProofs`, `RelayProofs`, `AssistantSessionsProofs`, `FileExchangeProofs` | theorems | see section 6 |

`FiberScheduler` composes `HandleTable` and `RunQueue`; `BrainRuntime` composes
`RunQueue` and `RuleProgram` and abstracts the handle table to who waits for
what, which the scheduler's invariants justify: a fiber is waiting exactly while
its handle is pending, and settling resumes every waiter at once
(`NoLostWakeup`). `BridgeClient` composes the session with its client;
`AssistantSessions` is shown to implement `AskQueue`, by TLC with fairness on one
brain and by proof, step by step, for any brains.

Abstractions, all in the direction of more behaviour unless said otherwise:

- What bytecode computes is abstracted. A running fiber may perform any
  instruction that touches the scheduler, in any order (`FiberScheduler`), or
  any that its place in the rule's code allows (`BrainRuntime`). The WHEN of a
  rule may turn out either way.
- The instruction budget is abstracted: a slice may end after any instruction.
- Identifiers of handles, fibers, connections and sessions, which the code never
  repeats, are taken again once nothing refers to them.
- The hooks of a page are one step: they go through, or the first that throws
  ends the think. What hooks request is requested before.
- A spawn at the fiber cap, which faults the spawning fiber or throws out of
  `spawn`, is not taken: `FiberScheduler` has the fault as `Fault`; the throw
  out of `thinkPage` is not modelled (less behaviour, see section 7).
- `FiberScheduler` has no rule triggers; their handles are in `BrainRuntime`.
- `FiberId` bounds the fibers of `BrainRuntime`: a think or an instruction that
  needs new ones waits until as many are free (`HasFresh`; less behaviour, see
  section 3).
- In `BrainRuntime` an asynchronous call is dispatched and awaited in one step;
  the interval in between is in `FiberScheduler`.
- In `Relay` a timer that is set may fire at any moment, the attempts of
  `mintJoinCode` may all meet codes that are not free, a quarantine ends at any
  moment, and a refused hello carries any reason.
- In `AssistantSessions` promise continuations run with the event that sets them
  off, as they do in the code: nothing else is run in between. A batch of tool
  calls is one interval; what a turn says is left out. In the run one brain
  stands for all (brains share only which of them is shown), `Elsewhere` for the
  others; the proofs are of any brains. An
  attempt needs a free socket: with two, a superseded handshake and the current
  one coexist, and no more (a bound, less behaviour).
- In `BridgeClient` delays are abstracted: a timer that is set may fire. A
  listener sends or stops at most once in a callback of `onOpen`, and in the one
  that is told a connection is lost it stops (or overflows the queue) before the
  code goes on; else it does so as a step that follows. Serialisation never throws.
- In `FileExchange` one file stands for the tree, and delays are abstracted: the
  time of a request may run out at any moment, the oldest first, since all have
  one time-out. What a client writes reaches the bridge at once; what the bridge sends is
  under way, and is lost with the connection. The relay, the client and the
  handshake are reduced to who is bound and to the welcome both are sent.
- In `ProjectManager` the files of a project are the set of changes they hold;
  there is one collection, and never a PIN. The project that is created when no
  other can be opened is left out (less behaviour).

## 3. Runs

| run | instance | shows |
|---|---|---|
| `FiberScheduler` | 2 fibers, 2 handles (host, action), cap of 1 handle and 2 fibers | `TypeOK`, `NoLostWakeup`, `QueuedOnce`, `CapAccounting`, `ActionOwed`, `SameThinkCascade`, `RoundIsFair`, `EveryRunnableRuns`, `WaitsEnd` |
| `BrainRules` | a `then` after a rule with a child on one of 2 pages | `TypeOK`, `OneFiringInFlight`, `InitialRecordUnread`, `FiresOncePerCompletion` |
| `BrainTriggers` | a `then` rule on one of 2 pages, 1 action fiber | `TriggerWillBeAnswered` |
| `BrainLive` | a root rule without a condition, with a child and a `then` after it nested in it, on one of 2 pages | `WaitingThenEnds`, `RootFiresAgain`, `RequestedPageEntered` |
| `RuleLadder` | a ladder of 3 rules | `OneBranchFires` |
| `Relay` | 2 connections of one role and 1 of the other, 2 pairings, 2 bindings, 3 triplets and 1 suffixed code, 1 message id | `TypeOK`, `MembershipAgrees`, `VacanciesKept`, `MembersInformed` |
| `AssistantSessions` | 1 brain, 2 sockets, 2 asks, 1 library | `TypeOK`, `OneSession`, `StatusTruthful`, `QueuePromise` (the refinement of `AskQueue`), `WaitingIsAsked` |
| `BridgeClient` | 4 messages, a queue of 2, 2 missed heartbeats, 2 tokens | `TypeOK`, `InOrder`, `OneWayForward`, `QueueIsKept`, `QueueIsSent`, `SilenceIsNoticed` |
| `ProjectManager` | 2 tabs, 2 projects, 2 changes (1 once a project is deleted, an open has failed or both tabs are in use), 2 operations under way at once, 1 open that fails | `TypeOK`, `LocksFollowProjects`, `ToldOfDeletion`, `EditsKept` |
| `FileExchange` | 1 file, which the app has or not, 3 edits in all, 2 requests told apart, 2 messages under way, 2 attempts, 1 upset | `TypeOK`, `TreesAgree`, `EditsAccounted` |

**Why the bounds are enough for what they ask.** Two fibers give a running
fiber and one that waits, is queued or is spawned by it, and an identifier is
taken again while an entry of the fiber that had it is still queued; the safety
invariants are proved for any number of fibers and handles, so the run has to
show only that they can be met and what liveness asks. The cap of two fibers
and one handle makes both limits bite. Two retries reach starvation (`StarveRounds = 2` stands for
the code's constant). A brain of three
rules has a subject, a rule nested in it or between, and an observer; the
identifiers of fibers (five or six) cover a firing of every rule while cancelled
fibers of the firing before are still in a queue; the guard on free ones is
never what stops a step there, since without it TLC finds the same states. In the relay two connections
of one role supersede each other and the third is the counterpart that has to be
told; two pairings let codes and bindings collide; with three triplets a
rotation can find them all taken. Two message ids would not interact: the code
looks each up by itself. With two asks and a library a turn runs on one while
one of each waits in either order, and an ask that is hurried has one to
overtake; two sockets are a handshake that was given up and the one that
followed it, or a session and the one that replaces it. Four messages overflow a
queue of two and leave one to be said from a listener; more connections than the
code can tell apart make no new case, so their number is not bounded. Two tabs
and two projects give a tab that deletes, saves or locks what the other has
open, and something else to go to; two changes are one that a save carries and one
that is made meanwhile, in a tab that has the store to itself. In `FileExchange` three edits are a
creation and a deletion by the app that cross a creation by the extension, or two
on one side, the first of which fails late, and one on the other; two requests are a
synchronisation and the flush behind it; two attempts have one sleep between
them; one upset is a loss on either connection, a restart, or a synchronisation
the user asks for. Two larger instances were tried by hand and held: two upsets
(16 million states) and four edits (15 million).

In `FileExchange`, `MaxEdits`, `MaxAsks` and `MaxWire` bound the edits, the
requests that are told apart at once and the messages under way, `MaxUpsets`
the losses, restarts and synchronisations asked for by the user, and
`MaxAttempts` is the code's `maxAttempts`, which is larger there.
`MaxActions` bounds the action fibers alive (one, in `BrainTriggers`; the other
brains call no bytecode action), `StarveRounds` the retries; `MaxHandles` and
`MaxFibers` are the code's caps. `MaxMessages` bounds the messages that are
sent and `MaxQueueSize` and `MaxMissed` are the code's. In `ProjectManager` each
change is made once, `Flush` bounds the automatic saves a tab has under way, and
the state constraint `Bound` explores states with at most `MaxUnderWay` calls,
recoveries and automatic saves at once, nothing after one of the situations
`crossed` and `late` set apart nor after a second open that fails, one change
only once a project is deleted, an open has failed or both tabs are in use, and
none together with two broadcasts on their way; tabs and
projects are symmetric, and so are changes, of which `First` is the first made.
None of these bounds is in the proofs. In `AssistantSessions` each ask is typed once and a
library waits once. Nothing else is bounded by a guard.

**Deadlock** is checked for the scheduler, the brain, the relay and the client:
the host can always think, a connection can always be opened or closed. It is
not for `AssistantSessions`, which is over after `close()`, for
`ProjectManager`, where every change may have been made and every project
deleted, and for `FileExchange`, which rests when both sides are connected and
every edit was made.

### Runs that end in a violation

Each checks one sentence of the repository against the model.

| run | the sentence | what the code does |
|---|---|---|
| `ProjectChanges` | a write that fails "keeps its changes pending for the next save" (project-manager.ts:1047) | the changes are pending whatever project is active by then, and the next save writes them into that one |
| `ThenAfterElse` | "a `then` fires only when its subject fired and completed" (rule-triggers.md:231; :75-76 for a `then` after an `otherwise`) | the record of an `otherwise` rule that did not fire is that of the rule above it (`chainedFiringState`), and the trigger of the `then` rule reads it as that rule's own: in `WHEN a`, `OTHERWISE`, `THEN`, the `THEN` is told true when `a` fired |

### Limits of the positive properties

Some properties are stated as strongly as the code allows, and no more:

- `OneBranchFires` asks that every `otherwise` rule up to the one that fires
  began its check in this think, and that no error has left one. An `otherwise`
  rule whose WHEN spans thinks copies the record of the rule above at its gate
  (`chainedFiringState`), by when that record may be of a later evaluation; the
  ladder of rule-triggers.md:146-149 ("fires iff none of the above fired") then
  has two branches fire. It is proved for the programs in which no chain of child
  rules has a `then` rule at its head (`WaitingHeadsAreRoots`), and the hypothesis
  is needed. The trigger of a `then` rule writes `DID_NOT_FIRE` when it starts to
  wait, and the `otherwise` rule below reads that in a later think
  (rule-triggers.md:71-73, the "while waiting" branch). Of two child rules, the
  budget of the parent may end its slice between their `SPAWN_RULE`s, and that of
  the `then` rule between its trigger and its `AWAIT`. In the next round the parent
  comes first and its `otherwise` child fires in the drain; then the subject
  completes, and the `then` rule, still queued, fires in the same think. TLC finds
  these 31 states on a root rule with the children `when`, `then`, `otherwise`.
- `FiresOncePerCompletion` is checked on a brain, and proved for every brain, in
  which no `then` rule follows an `otherwise` rule (`SubjectsRecordThemselves`);
  the run `ThenAfterElse` shows what happens where one does. It says what those
  who are told true are told, not that they are: the fiber of an action survives
  a restart of its page, and an abandonment mark it leaves then makes a `then`
  rule skip a firing the action did not belong to.
- `TriggerWillBeAnswered` speaks of the trigger of a fiber that is alive. The
  slot of a trigger whose fiber was cancelled reads `Stale`, and when an action
  fiber keeps the cluster in flight over a restart the next `then` takes the
  slot over.
- No property says that a tick always completes its round: `ErrorEscapes` ends
  it early, when a fiber cancelled by its own host call goes on to fail. What
  remains queued and spawned then is covered by `QueuedOnce` and
  `SameThinkCascade`.
- `BrainRuntime` has no property on what a restart leads to: a request of the
  current page "triggers a restart instead" (brain-runtime.ts:629-630), but when
  another page was requested before in the same think `desiredPageIndex` keeps
  naming it, and the brain changes to it.
- A hook that throws (`runBytecodeHook`, brain-runtime.ts:552-557) ends the
  `think` it runs in. An entry hook does so when `activeRuleFiberIds` is empty and
  before the root rules are spawned (754-803): the page is current, and none of
  its rules runs until it is left and entered again; `startup` ends the same way.
  An exit hook does so before anything else of the page change (828-831, 734): as
  long as it throws, the page is not left, `thinkPage` is not reached, and neither
  the old page nor the requested one runs. No text of the repository says what
  should happen. `RootFiresAgain` lets go of both, `RequestedPageEntered` and
  `WaitingThenEnds` of the second (`threw`); the safety properties hold
  throughout. A System whose think faults ends the `think` before `gc` (939-945
  against 894): what the next one sweeps is all that differs.
- A reply that the relay forwards goes to whoever holds the role of the asker by
  then, which after a supersession is a connection that did not ask (relay.ts:328-329
  says "the peer that sent the original"). No property rests on it.
- The run `Relay` has no third role, so `HasRoom` always holds there; a third
  role that presents a code or a token is refused without effect.
- `close()` of the relay leaves the activity check of a closing connection set;
  `ActivityTimeout` may fire on it, and the invariants hold all the same.
- `AssistantSessions`: `openSession` while a turn still serves tool calls on a
  session that was lost may give the brain a new session, which the old turn's
  `catch` then drops (`TurnLost` closes whatever channel the brain holds). An
  ask sent when no turn runs is asked at once, ahead of what a lost session left
  waiting (`AskQueue!Begin`), so the order of asks is promised only while a turn
  runs. After `close()` with a turn waiting for its session, the turn finishes
  when its handshake ends and its brain is dialed for again; the class says
  "Close every session and stand the machine down" (machine.ts:442). The
  properties hold `~stood` apart for this.
- A handle that settles while its dispatcher runs, before the AWAIT, "must
  survive for that AWAIT to read" (vm.ts:2673-2676). The comment guards against
  deletion on completion; gc at the end of the think still sweeps the handle if
  the dispatcher yields first, and the AWAIT faults (`SweepHandles`, `Fault`). No
  property rests on it.
- `BridgeClient`: a request whose time ran out while it was queued is still
  sent. What is written on a closing or silent connection is lost, so
  `QueueIsKept` speaks of the queue and not of delivery. `start()` called from
  within the session's error listener and the callbacks that still run after a
  `close()` in a listener (ws-client.ts:236 against 91-96) are not in the model.
  A session that is begun with a join code and a saved token puts both in its
  hello (session.ts:83-84), up to the first welcome; the editor extension begins
  one so. A listener that stops the session when it is told that a connection was
  lost leaves the timer `scheduleReconnect` arms after it (ws-client.ts:246-247),
  of a client that is closed; its callback looks at the state and does nothing, so
  `OneWayForward` asks that no socket comes of it. A message said when the status
  becomes `connecting` is dropped, since the client is idle still, and a stop
  then makes `start()` throw.
- `FileExchange`, `TreesAgree`: `synced` keeps apart what the code leaves to the
  next synchronisation. A welcome while the extension is paired changes nothing
  (bridge-pairing.ts:61), though the relay asks both ends to "restart the
  handshake" (relay.ts:305-307); when the app has restarted its sequence number
  behind it, its first changes are dropped as duplicates, though
  project.ts:36-39 speaks of "duplicate deliveries after reconnection" only. An
  edit made while a tree is on its way is overwritten on the side that made it.
  A change with no etag, or against a file that is gone, is applied whatever was
  there. A creation by the extension expects no file, and is applied by an app
  that has created and deleted the file meanwhile; the extension then applies
  that creation and deletion to its own file, and ends with none where the app
  has one. A flush that fails in part synchronises nothing, so that what it did
  apply may have been overwritten on the extension by the tree before it. After
  the last attempt of a synchronisation, or a failed one behind a flush, nothing
  is asked until the next pairing.
- `FileExchange`, `EditsAccounted`: an edit that is pending may be refused for
  ever. A queued change whose time ran out is sent all the same, and once it
  was applied its retry no longer finds the etag it expects. Pending changes
  are to be such that "only the latest write/delete is sent after reconnect"
  (project-manager.ts:23-25), but the latest to fail takes the place of the
  other (246-254), and an older edit may fail later. The property lets go of
  the edit that was replaced, whichever it is.
- `ProjectManager`: the history variables `crossed`, `stuck` and `late` keep
  three situations apart in which the code lets go of what the properties say.
  A recovery from a deletion that crosses an open or a close of the same tab
  releases the lock that the open has just been granted, and the project can
  then be opened in a second tab. An open that could not save the project it was
  to replace keeps the lock of the new one for ever. So does one that could not
  load the new project when no other was open: the handle is set before
  (project-manager.ts:361-362), and the next open overwrites it. When another was
  open, it has been closed by then and stays `currentActive`, without its lock and
  with automatic save stopped; closing it, or replacing it, saves it once more
  and releases the lock of the project that failed to load. `stuck` holds the
  pairs of a tab and such a lock. A project that is
  tombstoned while a tab opens it stays active there. `forgone` holds the
  changes whose loss is accounted for: those discarded with a deleted project,
  made while the project is being closed or after an open that closed it and then
  failed, of a project that is saved, closed already, by a tab that no longer
  listens to it, or in a project two saves of which
  overlapped (the one that read first may write last). An automatic save that
  fails after its project was closed or replaced puts its changes back on whatever
  the tab has open then, which is what the run `ProjectChanges` shows.
- Three steps of the models are coarser than the code. The check that a project
  is live and the write of its files are one (idb-project-store.ts:452-454); a
  tombstone between them only leaves the files of a deleted project changed, and
  the save then fails at `updateProject`, as `SaveFails` lets it. Results of tool calls that cannot be sent end a turn as the
  closed socket does that made the sending throw (machine.ts:821-829). And a
  tombstone is put and told in one step, so that `ToldOfDeletion` does not speak
  of a tab killed in between.

## 4. Fairness

`FiberScheduler`: weak fairness of the tick, of the next slice and of gc, since
the host keeps calling `think` and `think` runs to its end; weak fairness of a
fiber's instructions and of those that move its slice on, since the budget of a
slice is finite; strong fairness of the settlement of each host handle, the duty
the VM contract gives to host bodies. Nothing is assumed of the choices a
program makes.

`BrainRuntime`: weak fairness of `Thinking`, the next step of the think or the
next think, since it is one synchronous call, and, per rule, strong fairness
of the instructions that carry a rule forward and of the host operations it
waits for: a rule that yields, or calls the host, over and over in place of
going on is a program that does not terminate, and then nothing waiting for it
should run. Page changes, cancellations and faults are never assumed, nor that a
page is left whose exit hook has thrown.

`AssistantSessions`: weak fairness of the quiet loop's timer (the browser tab
stays in view), of the time-out of a handshake, of the end of a batch of tool
calls and of the close of a socket that was closed; strong fairness of the end
of a turn, and of a handshake the machine still expects opening its socket and
being accepted: a service that is asked again and again is there one day.
Refusal, loss of a session and everything the person does are never assumed.

`BridgeClient`: weak fairness of the heartbeat and of the close of a socket
the heartbeat has closed; strong fairness of a
reconnection whose constructor does not throw and of a connection that opens.
Nothing is assumed of the embedding or of the bridge's answers.

`Relay`, `FileExchange` and `ProjectManager` are checked for safety only: the
relay promises nothing that does not come from a timer of its own, a
synchronisation gives up after its attempts, and a call of the project manager
may always fail.

## 5. Mutants

Every property of every passing run has a mutant: a definition of the same
module, marked "Mutant" in its comment, that is what a plausible bug would make
of the code (a terminal transition that forgets the waiters, a sweep that counts
uncapped handles, a round that takes from the queue until it is empty, a child
that does not count for its root, a superseded connection that stays bound).
Replacing the definition by it makes TLC find the property violated.

## 6. Proofs

Each theorem is `Spec => []P` for a property P that a run checks, or an action
property or a refinement of the same specification, for every value of the
constants. The assumptions are those the modules state of their constants and
nothing else: finite sets, a null value outside each, caps and bounds that are
natural numbers. Every invariant named below was checked by TLC on the run's
instance before it was proved.

**Scheduler.** `FiberSchedulerProofs` first proves that each operation of the
handle table keeps `HandleInv`, the types and `CapAccounting`. The only real
argument is on the count: the capped live handles lose or gain exactly the
handle, or the swept set, that the counter is moved by. On top of it come

- `TypeCorrect` and `CapAccounted`, which are inductive together: the counter is
  a natural number because it is a cardinality;
- `WakeupsKept` (`NoLostWakeup`), inductive given the types. The settlement of a
  handle and the terminal transition of a fiber share the operator `Complete`,
  which starts from a `Moment`: the waiters as they are, or as they are after
  the ending fiber has left. `Parked` states the invariant of a moment, and one
  lemma carries it over a completion;
- `ActionsOwed` (`ActionOwed`). What is needed beyond the statement is that no
  fiber waits for the handle it owes itself, and that a terminal transition
  clears `result` whether or not the handle was pending.

The module goes on with `QueuedOnceHolds` (`QueuedOnce`) and `CascadeDrained`
(`SameThinkCascade`). `QueuedOnce` speaks of positions; its invariant
`QueueSets` says the same of the sets of entries of the three queues, so that a
concatenation or a tail is one lemma. A think can end early only when the
running fiber was cancelled by its own host call. That no child is left behind
then is no accident of the loop: the drain holds only child rules, the call that
cancelled one of them cancelled all, and nothing can spawn after it in the
slice. `QueueInv` says so with `Drained`, in the idle state and under a running
fiber that is cancelled.

Last comes `RoundsFair` (`RoundIsFair` of `FiberRounds`). What is left of the
round is a prefix of the run queue, and it is a suffix of `due`: `Lined` says so
by places, and places are all that the enqueues of a round leave alone, since
they only extend the queue. From it follow who may still get a slice
(`SlicedFirst`: a fiber that had one is in the queue behind the round only), in
what order (`InDueOrder`), and that whoever of `due` is before the place reached
had a slice or is over (`ServedOrOver`).

**Brain.** `BrainRuntimeProofs` proves `TypeCorrect`, `OneFiringHolds`
(`OneFiringInFlight`) and `AnswersHold` (`TriggerWillBeAnswered`), for any rules,
nesting, pages and modes, of an inductive invariant `BrainInv` that adds to the
three

- `Settled`: a fiber that is over has nothing left (what is answered or resumed
  at a terminal transition is therefore alive, and no fiber comes back);
- `Called`: an action fiber runs for a live rule fiber;
- `Watched`: a slot that names a fiber names one that is alive and asks about
  the rule of the slot, and a pending trigger is in a slot;
- `Unspawned`: of the child rules a fiber has still to spawn nothing is in
  flight, in any depth. This is why a child is never spawned twice, and what a
  root rule that fires again must wait for its children for
  (`HasLiveDescendantOfRoot`).

What the program contributes is proved first, from the assumption on it: a rule
is nested in one root, which is on one page; a rule is directly above one rule at
most (`OneBelow`), so that no two fibers ask about the same one; a rule nested in
another has it on its settle walk. `EndedAre` says what the end of any set of
fibers makes of every other fiber, for page requests and single ends alike.

`InitialRecordHolds` (`InitialRecordUnread`) is about the order in which the rules
of a page begin, which no place in the code states: it comes from the page that
starts rules in order, from SPAWN_RULE that follows the children in order, from
the drain that goes before the round and from a run queue that is only extended.
`OrderInv` says, of the fibers that have not begun (`AtStart`), that a rule whose
subject has not begun has not begun either and has the fiber of its subject in
front of it in every queue (`SubjectsAhead`). Around it stand where these fibers
are: the roots in the run queue (`RootsQueued`); the children that a fiber has
spawned in the drain, unless they have begun (`KidsAhead`), which holds such
fibers only and each once (`DrainAtStart`); and a rule in flight is nested in
rules that have begun (`OuterBegun`), so that a subject that is skipped by a think
because its children are in flight is no subject that has not begun. The steps in
which no rule starts share one lemma (`SteadyKeeps`); the others are the ends by a
page request or an escaping error, after which no rule is in flight
(`NoRulesLeft`), the loop of the tick, SPAWN_RULE and the start of a think.

`RuleHistoryProofs` proves `ThenOncePerFiring` (the action property
`FiresOncePerCompletion`) under `SubjectsRecordThemselves`. A rule whose record
says that it fired, whose cluster is empty and which is not marked must have a
firing nobody was told of. That alone is not inductive, because a `then` rule is
answered in one step and acts on it later. `Owing` therefore says it of three
moments: of a firing whose cluster is empty, as long as no rule was told; of one
whose cluster is in flight, with its `then` in the slot; and of one whose `then`
was told true and is about to fire, which is not told again. `AskInv` says where
a trigger can be while it is asked. The well-founded order it needs is that of
`Within`: a rule is in one root, which the smallest set that holds it names
(`RootOfWithin`), so that a page request spoils whole clusters.

`OneBranchPerThink` (`OneBranchFires`, in the same module) holds under
`WaitingHeadsAreRoots`. What it needs of a think is that the rules of a level take
their turns in order, once each. `TurnInv` says so of the queues: a root rule
begins in the round of the think that starts it (`FirstThink`, `StartsInRound`);
of two rules that have still to begin the upper gets there first (`StartOrder`); a
root rule does not begin before the round is past the fiber of the rule above
(`RootsInOrder`), even when that one began in an earlier think and is still at
work; and child rules begin in the drain only (`ChildrenDrain`). `ThinkInv` says it
of the history: a rule that has still to be decided has not fired in this think,
nor have the children still to be spawned, with all that is nested in them
(`OncePerThink`); rules begin in order (`BegunInOrder`); and once a root rule has
begun, the one above it gets no slice before the think is over (`SliceSpent`).
`Recorded` relates this to the records, so that an `otherwise` rule that reads
`DID_NOT_FIRE` reads of this think, or of a `then` rule that waits. `Ladder` is
the induction along the chain: when an `otherwise` rule is armed, has fired or
has handed down that nothing fired, every rule above it in the chain was decided
against or waits for a trigger, and one that waits is a root rule whose slice is
spent. The last is what fails for child rules, which get their slices from the
drain and from the round. `Chain` is defined as the least set closed under going
up, so that this needs no recursive function: a chain is its last rule and the
chain of the rule above (`ChainStep`).

**Bridge client.** `BridgeClientProofs` proves `TypeCorrect`, `InOrderHolds`
(`InOrder`), `ForwardHolds` (`OneWayForward`) and the action property
`QueueKept` (`QueueIsKept`). Order is kept by the invariant that the messages
written, followed by those that wait, are in the order they were sent; that an
open connection has said hello and has an empty queue; and that the token and
the join code the session holds are what a hello is to present after the
welcomes it has accepted (`Presented`). Nothing bounds how many timers clients
that were closed have left; that none opens a socket is the test in its callback.

**Relay.** `RelayProofs` proves `TypeCorrect`, `MembershipHolds`,
`VacanciesHold` and `InformedHolds`, from one invariant of each live pairing
(who sits in it is bound to it, they are two at most, its code and linger timer
follow from its vacancies, its members were told so), one of each connection,
that no two pairings share a code or a binding (`Apart`), and that the shared
timers follow from the pairings. `Apart` is what makes a code in service open one
pairing, and what a hello that presents a code or a token rests on.

**Assistant.** `AssistantSessionsProofs` proves `TypeCorrect`,
`OneSessionHolds` (`OneSession`), `StatusHolds` (`StatusTruthful`) and
`PromiseHolds`: under `Spec` every step takes each brain along a step of
`AskQueue` or leaves its words alone, for any set of brains, and what waits is
dropped by `close()` alone (`OthersStand`). The methods of the
machine are functions from the record of a brain to the record after the call,
so the lemmas say of each what it keeps of a record (`Whole`, `Shows`,
`Sought`). What the record alone cannot say is who the sockets belong to
(`Referred`, `Held`): an outcome that comes late is told by it from one that is
expected. What `AskQueue` says under fairness is checked by TLC.

**Project manager.** `ProjectManagerProofs` proves `TypeCorrect`, `LocksFollow`
(`LocksFollowProjects`), `Told` (`ToldOfDeletion`) and `EditsHold`
(`EditsKept`). `LockInv` has eight parts, one for each way a call that is
between two transactions may have come by a lock or be about to let it go; a tab
between two calls has the lock of its project and saves it, or saves nothing and
has the lock an open that failed has left it (`Settled`). For a
change, `EditInv` says where it is kept, that a tab which listens to its project
sees it, that a save under way does not write it away, and that of two saves
under way neither knows it; the last is what `forgone` is needed for.

**File exchange.** `FileExchangeProofs` proves `TypeCorrect`,
`EditsAccountedHolds` (`EditsAccounted`) and `TreesAgreeHolds` (`TreesAgree`).
An answer may come long after the request, when another has been made and the
first given up. `Matched` says that a request on its way, and an answer on its
way, is of the kind of what still waits under its identifier, and that a change
whose answer is on its way is not owed any more; identifiers are free only when
nothing under way has them. What follows the end of a request (`Continuation`)
is then one lemma: nothing the request carried is let go of but a change that
was answered.

For the trees, `TreeInv` says what the messages under way will make of the two
files. A `Trail` is the course of a file along a sequence of messages: each
change among them expects what the one before left (one of the app may expect
nothing), and makes a content that was not there before or deletes the file, so
that the content of a file, once changed, is not come back to. A sequence only ever grows at
one end and shrinks at the other, so the lemmas about it (`TrailAdds`,
`TrailShifts`) need no induction. `Course` then has three cases, while both
sides are connected and no welcome is on its way: only the extension's changes
are under way, and make of the app's file that of the extension (`ExtAhead`);
only the app's are, with numbers the extension takes for new (`AppAhead`); or
edits of both have crossed, and one of the extension is going to be refused
(`Refused`), so that it is pending or asked for in the end and the exchange not
quiet. A tree that is received brings the second one about anew, and what it
needs for that is `Pulls`: behind a request for the tree that is still clean no
change was sent, and what follows the tree on its way, if no welcome does, makes
of it the file the app has by now. The exceptions `synced` keeps apart are the
steps after which `Course` or `Pulls` would not hold.

**Only model-checked.**

All liveness, which is out of the prover's reach with fairness and ENABLED:
`EveryRunnableRuns`, `WaitsEnd`, `WaitingThenEnds`, `RootFiresAgain`,
`RequestedPageEntered`, `QueueIsSent`, `SilenceIsNoticed`, `WaitingIsAsked`.

## 7. Not modelled

- Arithmetic, values, variables and structures of the virtual machine: no effect
  on the scheduler beyond fault or no fault.
- `scheduler.spawn` that throws at the fiber cap in the middle of `thinkPage`,
  `shutdown`, and what System Init functions do (a `startup` one of them leaves
  with an error has no root rules, as after an entry hook that throws).
- The parser, type inference and code generation of the tile language and of
  TypeScript: pure translations of large trees.
- Of the file exchange: renames, directories, imports, read-only files, the
  cap on their size, and the workspace folder of the extension. Renames and
  directories are planned.
- Bridges, tool serving and panels of the assistant, the user interface, the command line, the schemas
  and the example applications.
- Of the project manager: collections, their switches and PINs, app data,
  creation, duplication and import of projects, and `updateActive`
  (project-manager.ts:430-456), which replaces the manifest of the active project
  across awaits; the name a project without one is given when it is opened; two
  calls of the user at once in a tab; a tab that is closed or killed.

## 8. Plan

Done: handle table, scheduler, rounds, rules and pages, relay, bridge client and
session, file exchange, assistant sessions with their abstract queue, project
manager. Proved: their safety properties, and the step simulation of `AskQueue`.

Next, in this order:

1. Renames and directories in `FileExchange`; `BridgeClient` composed with
   `Relay`.
2. `Sessions`, an abstract specification of pairing (who may talk to whom, under
   which code), with `Relay` shown to implement it; `Rounds`, an abstract
   round-robin with `FiberScheduler` shown to implement it.
