# Verification of Resonant Sidecar

TLA+ models of the parts of Resonant Sidecar (`src/`) that are hard to test:
the activation journal that swaps one reviewed bundle for another, the review
machinery around it, the panel's conversation and card, and the installer. TLC
checks them on small instances; TLAPS proves the results that matter most for
every instance. `PROJECT.json` maps each definition to the lines it models and
lists the runs, one per module and one that finds the code at odds with a
document. A handful of configurations beside them, named where they belong,
reproduce the other disagreements of section 15 (`tlc -config X.cfg MCM.tla`
stops at a violation) or check one more thing on another instance.

## 1. Inventory

A Chrome side panel talks over native messaging to a *bootstrap host*, one
process per open panel. The bootstrap starts the pinned *native host* (the
child) and forwards the conversation to it. A review compares a candidate
bundle with the active one, collects evidence, asks the human, and replaces the
running child. Everything durable lives in two trees shared by all panels:
`runtime/` (journal, pins, bundles) and `review-receipts/` (hash chain).

| Component | State it keeps | Operations | Hard behaviour | What makes it correct |
|---|---|---|---|---|
| Version store `bootstrap/version-store.js`, `recovery-state.js`, `runtime-lock*.js` | pins, journal, versions, installations, consumed decisions, completion witnesses; per process `#pending`, `#recovered` | install, activate, rollback, recover, resume, complete, resolve host | several processes, crash between any two durable writes, lock timeout, unreadable ledger | pins always fit the journal; a receipted version is never lost; nothing unreviewed is kept; one decision, one trial |
| Chrome review bridge and journal `review/chrome-review-bridge.js`, `bootstrap/chrome-review-journal.js` | one outstanding invocation; pending file, used ids, receipt flag | begin, result, cancel, close, finish, mark, recover | cancel against result against timer; a second panel's recovery; crash anywhere | a failure never becomes a completion; ids are not reused; every request ends |
| Receipt ledger `review/receipt-store.js` | append lock, staging directory, head, receipts, broken marker | finalizeEvent, verifyChain, resolveLatestFailure, commit guard | crash between head and directory rename; a guard that fails late | the chain grows by one link or not at all |
| Review coordinator `review/review-coordinator.js` | state, review, tail, halted, chrome grant | checkAvailability, run, decide, accept, recover | chain check and append are separate; two panels; partial failure of activation | every receipt sequence is a legal history; a decision needs a live eligible review |
| Decision nonces `review/decision-nonce.js` | issued and used files, session digest | issue, consume, recover | two consumers, expiry, restart | at most one consumption, in the issuing session |
| Bootstrap host `bootstrap/host.js`, `native-proxy.js` | child, refreshed flag, queue, close promise | start, refresh, stop, close, dispatch | close against refresh, readiness timeout, session identity | one child; recovery after it is reaped |
| Lifecycle router and panel `native-host/sidecar-protocol.js`, `extension/sidepanel-controller.js` | busy flag, generation, subscriptions | command, fail, reconnect, revoke | stale replies, reentrancy | no effect of an old generation; one command at a time |
| Native host and agent clients `native-host/*.js` | session, turn, pending requests | send, interrupt, respond | late responses after an interrupt | one completion per turn |
| Chrome adapter `extension/chrome-review-adapter.js` | one invocation, session, timers | ready, cancel, settle, dispose | timer, cancel and model answer race | one settlement |
| Native framing `bootstrap/native-proxy.js`, `native-host/native-framing.js` | buffer | push, encode | lengths split over chunks, limits | a sequential loop, not modelled |
| Codex verifier `review/codex-verifier.js` | child process, its output, parser, flags; the coordinator's sample and attestation | run, sample, parse, finalize, clean | sample, exit, deadline and limits in any order; a sample that outlives its child | a review passes only on a clean run of a sampled child |
| Installer `scripts/install-macos.js`, `verify-install-plan.js` | journal, prepared files, registration | `--migrate`, `--switch-registration` | a process that dies between two files, two at once, a registration that changes | the old registration can always be taken back |
| Candidate source, other verifiers, evidence, redaction `review/*.js` | none between calls | pure functions, child processes, Git reads | — | values are inputs of the models |
| Dialogs, bundle builder, fixtures | none | — | — | — |

Interactions: the coordinator calls the store (`activate`, `rollback`,
`completeReviewedActivation`) and passes it a finalizer; the store calls the
ledger (`verifyChain`, `withCommitGuard`) and asks the bootstrap through
`bindRuntimeGuard` whether it still owns the candidate; the bootstrap asks the
store which version it may launch and calls `recover` when it starts and after
it has closed; the bridge writes its journal and answers a request of the
coordinator, which publishes the result in the ledger and marks the journal. The
router in the child relays the panel's commands to the coordinator and its
events back; the adapter in the panel answers the bridge through both.

## 2. Plan

Built, in this order:

1. `VersionStore`, with `ActivationContract` (what it promises).
2. `ChromeInvocation`: bridge, journal and the coordinator's use of them.
3. `ReceiptLedger`, with `ReceiptChain` (what it promises to a reader).
4. `DecisionNonces`.
5. `AgentTurns`: one connection of the conversation, with either agent client.
6. `ChromeAdapter`.
7. `LifecyclePanel`: router and card over pipes that can be cut.
8. `BootstrapHost`: queue, refresh, readiness timer, lease of an activation, close.
9. `ReviewCoordinator`: the transition relation over a chain shared by panels,
   with the check and the append of every receipt as separate steps.
10. `Installation`, `CodexReview`.

Proofs: `VersionStoreProofs`, `ReceiptLedgerProofs`, `InstallationProofs`,
`BootstrapHostProofs`, `ChromeInvocationProofs`, `LifecyclePanelProofs`,
`AgentTurnsProofs`, and `ReviewCoordinatorProofs` for the coordinator and three
parts of a review: `CodexReview`, `DecisionNonces` and `ChromeAdapter`. What those
three promise is in a small module each (`CodexPromises`, `NoncePromises`,
`AdapterPromises`), which says it of the state a caller sees; the component
extends it, and the proofs state their theorems with it.

How the modules meet: each takes its neighbours by what they promise. The store
sees the ledger as the set of activated reviews and an answer of `verifyChain`;
`ReviewCoordinator` sees an append as one step (which `ChainContract` allows),
an activation as a pin that becomes pending and then current or former (which
`ContractKept` allows) and a Chrome review as an artifact that is favorable or
not; `BootstrapHost` sees the store as what its calls answer, with the steps of
other panels between them, and the coordinator as what it does with its lease; `LifecyclePanel` sees the coordinator as some answer to
every call and the adapter as open, completed, failed or stopped.

What would come next: the staging directory of `candidate-source.js`.

## 3. VersionStore

**State.** The files under `runtime/` (`active`, `previous`, `rec`, `versions`,
`installed`, `decisions`, `witness`), what the store reads of the ledger
(`activated`: reviews with an `activated` receipt; `custody`: the answer of
`verifyChain`), the memory of each process (`pending`, `recovered`, `mode`,
`serving`, `refreshed`, an answer of `resolve*Host` not yet spawned as
`resolved`), what the coordinator's one transition lease is doing (`lease`) and
whose tail another panel's receipt has passed (`stale`), the kernel lock
(`holder`, `step`, `call`). A review stands for its pin, its decision and the hash of its nonce, since each review
stages one bundle and is issued one accept nonce; policy digests, bundle bytes,
archive copies and the expiry of a decision between its consumption and the
completion are left out (a call refused by it is an `OperationFails` or a
cancelled completion). Every launcher binds the receipt store, and
`completeActivation`, the completion without a receipt, then throws, so it is
not an action.

**Actions.** One per operation or durable write, in the code's order. A call
that writes several files takes `holder` and walks `step`; every `step` is a
point at which the process can die (`Crash`) or a write can fail
(`OperationFails`). Operations that write at most one file are one action.

| Code | Actions |
|---|---|
| `installVersion` | `Install`, `RecordInstallation` |
| `activate` | `BeginActivate`, `ConsumeDecision`, `RefuseDecision`, `Prepare`, `WritePrevious`, `MarkPrevious`, `WriteActive`, `MarkActive`, `MarkPending` |
| `rollback`, `#rollback` | `BeginRollback`, `RestorePrevious`, `RestoreActive`, `MarkRolledBack` |
| `recover` | `RecoverCommitted`, `RecoverSettled`, `RecoverInterrupted`, `RecoverRefused` (the 15 s of the lock too) |
| `resumePendingActivation` | `ResumePending`, `ResumeRefused` |
| `resolveActiveHost`, `resolvePendingHost`, `resolveRecoveredHost` | `ResolveActiveHost`, `ResolvePendingHost`, `ResolveRecoveredHost`: the answer, under the lock |
| `startProxy` | `Launch`: the spawn of that answer, after the lock is given back |
| `acceptReview`'s lease: its failure, its one rollback, its one recover | `Undertake`, `TrialFails`, `GivingUpHalts`, `RollbackRefused`, `FallbackRefused` |
| `#completeReviewed`, `withCommitGuard` | `BeginComplete`, `PublishReceipt`, `CompletionCancelled`, `MarkComplete`, `CompletionUnread` |
| `runBootstrap`, `close`, child exit | `Start`, `Close`, `StopRuntime` |
| environment | `Crash`, `OperationFails`, `LedgerBusy`, `LedgerFree`, `LedgerBreaks` |

**Abstraction.** `ActivationContract` knows a good version, a trial, and
authorisations that are spent once. The mapping (`Contract` in `VersionStore`)
takes the good version from the journal and the published receipt, so a
receipt published before the journal is marked is already the commit, and
locks, files and crashes are stuttering.

### Run

`vs_life`: two panels, a baseline and one review, one fault (about 400,000
states). `CommittedIsKept` and `StableIsReceipted` say what survives a crash;
`PublishedByOwner` and `LaunchIsAuthorised` what a panel may do although another
one recovered meanwhile; `ContractKept` is the refinement; `PendingIsDecided` is
liveness. The type invariant and the invariant behind these, `Inductive`, are
proved (section 14). `vs_broken_chain.cfg` reproduces a disagreement (section 15).

Between the answer of `resolve*Host` and the spawn no lock is held
(`bootstrap/host.js:125-127`, `225-226`), and another panel's recovery can roll
the candidate back there. TLC finds it when `LaunchIsCurrent`, that the version is
authorised at the spawn itself, is put in place of the properties of
`vs_life.cfg`. What does hold of every
launch is `LaunchIsAuthorised`: the version is the baseline or has its receipt, or
it is the candidate this very panel activated or adopted, by a consumed decision.
That such a candidate gets no receipt is `PublishedByOwner`, and that its process
ends is `CandidateEnds` of `BootstrapHost`.

`PendingIsDecided` says what the code's one attempt gives: an activation under way
is completed, or given up by the one rollback and, if that throws, the one recover
of its lease, or else the coordinator halts (`review/review-coordinator.js:78`,
`96`, `468`, `485-506`) or the panel is gone.

**Bounds.** Two processes are enough for every conflict over the lock and the
journal, as one holds the lock and the other starts, closes or times out. Two
reviews give a baseline and a candidate, which can be tried, rolled back and
asked for again. `MaxFaults` counts crashes, failed writes and ledger trouble
together; one may come at every point of every operation, with the other
panel's recovery after it. Of more reviews and faults the proofs speak. The run
has liveness and therefore no symmetry.

**Fairness.** All of it weak. A call that holds the lock goes on (JavaScript runs
to the end of an `await` chain), and an answer is spawned. `runBootstrap` awaits
its recovery and `close` reaps the child and recovers; a lock that others keep
taking ends the wait after 15 seconds (`withRuntimeLock`), so no strong fairness
is needed. A lease that has not completed its review fails by its deadlines
(`TrialFails`), stops its candidate and goes through its rollback once: it
succeeds, or falls back on `recover`, or halts. Nothing is retried. No fairness is
assumed of opening or closing a panel, of the human, of the ledger becoming
readable, or of faults.

## 4. ChromeInvocation

**State.** Shared by the panels: `ledger` (receipts; of each its review, event
and, if it gives the review its semantic artifact, the invocation and reason),
`record` (`runtime/chrome-review-pending.json`) and its id list `used`. Per
panel, lost in a crash: where the coordinator's operation stands (`stage`), its
`#tail` as a length (`tail`), the review, invocation and reason in hand
(`review`, `inv`, `why`), whether it holds live nonces (`granted`), the bridge's
pending invocation (`bridge`) and the journal object's copy of the file
(`cached`). `gone` collects what has befallen the current binding: port closed,
generation moved, deadline passed, bytes drifted. A panel is one process from
start to death, with one `restartId`.

The receipts before the Chrome stage are one receipt `opened`; what follows a
consumed decision is one receipt `decided`. Packets, digests and the contents of
answers are left out: the binder either accepts a result or not, and the
analysis is favorable or not.

**Actions.** Each operation on the pending file runs under its kernel lock and
ends in one rename, so it is one action. `#move` is two: `Integrity` verifies
that the tail is one's own, and the publishing action appends, after which the
predecessor is compared and the panel may halt with its receipt published.

| Code | Actions |
|---|---|
| `runBootstrap`, `#initialize`, `#recoverChrome`, `recover` | `Start`, `Initialize`, `RecoverChrome`, `Repair`, `Mark` |
| `startReview` | `OpenReview`, `Opened`, `Prepare`, `FailEarly`, `Dropped`, `Omitted`, `Broken` |
| `#runChrome` | `Enter`, `Answered`, `Pass`, `Supersede`, `Fail`, `Mark`, `Conclude`, `Withdraw`, `Retired` |
| bridge `request`, `handleSettlement`, `#settle`, `cancelPending`, `complete` | `Request`, `Issue`, `Result`, `Timeout`, `Resolve`, `Cancel`, `Retire` |
| journal `begin`, `finish`, `markReceipted` | `Begin`, `Finish` and `Supersede`, `Mark` |
| `acceptReview`, `rejectReview` | `Decide`, `Decided` |
| environment | `Disconnect`, `Drift`, `Expire`, `Crash`, `JournalFails`, `CustodyFails` |

`resumePendingActivation`, which could end a review of an earlier process, is
called by nothing outside the tests and is in `ReviewCoordinator`.

### Run

`chrome_safety`: two panels, two reviews, two ids, one fault. `OneArtifact` and
`NothingForgotten` relate the ledger to the pending file; `FailureIsFinal` and
`EligibleIsLive` say what a late result, a second callback or another panel's
recovery may never do. Two further configurations: `chrome_live.cfg` (two
panels, one review, two faults) checks `TypeOK` and `ReviewEnds`, whose check
does not finish in reasonable time on two reviews; `chrome_outstanding.cfg`
reproduces a disagreement. The run `chrome_interrupted` expects
`InterruptionWithholdsOnlyItself` to be violated: it allows no I/O fault in the
recovery it speaks of, and the trace is a crash between the entry receipt and the
journal's `begin`, and the next start (section 15). That nonces are issued only
over a review still eligible and live is the guard of the turn that issues them
(`review/review-coordinator.js:278`), modelled in `Conclude` and not stated again.

**Bounds.** `MaxReviews` and the ids: a second review is needed for a record
that replaces another, for a mark that could hit the wrong record and for an id
minted twice. `MaxTrouble` counts crashes, cancels, losses, drifts and I/O
errors together; passing deadlines are free. One trouble at every point of two
reviews covers each race of the bridge with one event. Panels and ids are
symmetric; symmetry is used only without liveness. Deadlock is not checked:
panels may all be dead or halted, which is how the code ends.

**Fairness** (`chrome_live.cfg` only). A panel's own `await` chains go on
(`Coordinate`, `Bridging`, with the bridge's timer), and the ten minutes of a
binding pass (`Expire`). The browser need not answer and nobody need decide.

## 5. ReceiptLedger

**State.** The files under `review-receipts/`: `lock` (`.append-lock`), `staged`
and `pendingDir` (`.pending` and what is in it), `temps` (`.head-next-`), `head`
(`.custody-head`), `receipts` (the sealed directories), `marker`
(`.custody-broken`), `pointer` (`latest-failure.json`). Per process: where its
call stands (`pc`), which call it is (`task`), the chain it last read (`chain`),
the receipt it appends (`mine`), and its commit guard (`guarded`, `live`).
`acked` remembers which appends were answered. A receipt is its name, its
predecessor's name, whether it records a failure and whether it is sealed;
contents, schemas, redaction and hashes are left out, and with them the
evidence of tampering from outside. `.failure-next-` files are ignored by the
code and absent here. The root directory exists.

**Actions.** `finalizeEvent` is cut wherever an error or a crash leaves
different files behind, in the code's order:

| Code | Actions |
|---|---|
| `#locked` | `Take`, `Release`, `ReleaseFails` |
| `verifyChain`, `#chain` | `Read`, `ReadFails` |
| `finalizeEvent` up to the staged directory | `Refuse`, `Stage`, `PendingFails`, `StageFails` |
| head, directory and seal | `WriteHead`, `RenameHead`, `RenameReceipt`, `Seal`, `WriteFails`, `SealedFails` |
| `commitGuard() !== true` | `Cancel`, `CancelFails` |
| `#markBroken` in the catch | `MarkBroken`, `MarkFails` |
| `#pointer`, `resolveLatestFailure` | `Point`, `PointFails` |
| environment | `Close` (the guard falls), `Crash` |

The two renames of a guarded append run in one turn, so the guard cannot fall
between them (`Close`), but a crash or an error can. A guard is used only for
`eligible` and `activated`, which never open a ledger. The lock is a directory:
a dead owner leaves it for ever, and all later calls are refused, which
`review-receipts/README.md` states ("A stale lock is never automatically
removed") and `OrphanIsFrozen` says.

**Abstraction.** `ReceiptChain` is a list that grows by one at a time while it
is open, and can be closed once. The mapping (`Contract`) takes the names of the
directories for the list and calls the ledger open while an append is between
its staging and its seal, or the files are intact and a taken lock has a living
owner. That a broken ledger never looks intact again, although the marker may
fail to be written, is the point of the refinement.

**Run.** `ledger_safety`: two processes, three receipts, two faults. Checked are
`OneChain`, `AnswerIsKept`, the action property `CancelOrCommit` and the
refinement `ChainContract`; `TypeOK`, `Inductive` and `OrphanIsFrozen` are
proved. Three receipts give a first, a middle and
a last one; two faults an error whose marker fails too, or an error followed by
a crash of the next reader. A second process is whoever finds what the first one
left. Deadlock is not checked: a ledger whose lock was orphaned stops for good.

## 6. DecisionNonces

**State.** The directory: `record` (`<hash>.json`, with binding, expiry and the
session it was issued in) and `used` (`<hash>.used.json`: absent, created and
not written, or whole). Per session, one `DecisionNonces` object in one process:
where `consume` stands (`at`, `call`), whether it lives (`alive`). `now` is the
wall clock, which may be set back. `granted` and `recovered` remember what was
answered.

**Actions.** `Issue`; `consume` cut at each file operation: `Present` (record,
session, binding, expiry), `Create` (the exclusive creation), `Write`,
`WriteFails`, `Answer`; `Recover`; `Crash`; `Clock`. A session's calls are
synchronous, so its own never interleave; other sessions' do at every step.

**Run.** `nonce_safety`: two sessions, nonces and bindings, a lifetime of one
tick on a clock of three. `ConsumedOnce` and `SpentForGood`; that an answer is
bound to what was issued (`GrantIsBound`) and a recovery to what was written
(`RecoveredWasWritten`) is proved with them. Two of each give every conflict:
another session's nonce, another action's, another's file.

## 7. ReviewCoordinator

**State.** `chain` (receipts: review, event, artifact and the process that wrote
it), `spent` (consumed decisions), `pin` and `pending` (the store's current
version and the one its journal holds), `proc` per panel: the process's number,
operation, the check or append it stands at, its `#state`, review, artifact, tail
and grants. A process that dies is started again under a new number.

**Actions.** `Initialize` (`#initialize` with `#recoverChrome`), `Call` (the four
commands), and under `Works` what an operation does in the code's order:
`Integrity` and `Fetch`, `Stages`, `Chrome`, `Grant`, `Decide`, `Activate`,
`Rollback`, `Resume`. What `versionStore.recover()` does to the pin, in `Boot` and in
`Rollback` where the store's rollback refuses (`review/review-coordinator.js:491-492`),
is `Recovered`. Every receipt is `Check` (the chain is intact and ends at
one's own tail) and then `AppendReceipt` or `Cancelled`; another panel's append
may come between. `Fault` is an I/O error, `Die` a death at any point.

**Run.** `coord`: two panels, two reviews, two processes, one fault, under both
launchers. `resumes` says whether the launcher calls
`resumePendingActivation`. The installed one does not, and its panels run side
by side over one chain, racing between the check and the append of each receipt:
`HistoryLegal` says that the next `#initialize` will accept what they leave,
`PinAgrees` that the store and the chain do not part: the last activation the
chain records, never an earlier one, is the pin's or still in the journal that
will make it so, and a review that ended otherwise has no hold on the pin;
`AcceptedByUser` that no
acceptance appears that the user did not make. A launcher that resumes is taken
to run one panel at a time, since a resumption ends the review it finds,
whoever's it is; there `ResumedIsClosed` says that every review a dead process
left, in whatever state, has ended before a command is taken. Two reviews let
one follow the end of the other; a process and its successor, or two at once,
are what a race or a resumption needs. The panels are symmetric.
`coord_launcher.cfg` shows `RestartEnds` violated by the installed launcher
(section 15).

**Fairness** (used by `RestartEnds` alone). What a process has begun goes on, a
new one is started while the bound lasts, and the user tries again to start a
review (strong: a coordinator may be busy at times). Nobody need decide or die.

**Left out.** A ledger whose lock is taken at the moment of a check (`busy`)
halts a coordinator as broken custody does; it is the `Fault` of a check.
Policy 1, whose reviews go from Codex straight to eligible, is only the default
of a coordinator built without a policy; the launcher loads policy 2
(`scripts/install-macos.js:107`), and that table is the model's.

## 8. BootstrapHost

**State.** The flags of `runBootstrap` (`host`: stopped, closed, refreshing,
lazy start, thread, generation, the child refreshed, the child proxied and those
owned), `runtimeState` (`rt`), the child processes (`child`) and the ready lines
they wrote (`says`), the transition queue (`tasks`) and the task that owns it
(`cur`), the conversation frames not dispatched (`frames`), how the activation
ended (`verdict`), and the store as its callers see it (`store`: the active
version, the candidate pending verification, the versions with an `activated`
receipt). A is the version active at the start, B this panel's candidate, C
another panel's.

**Actions.** `Receive`, `FrameQueues`, `LeaseQueues` and `InputEnds` put tasks on
the queue; `TaskStep` is the step the owner takes: `TaskBegins`, `StopOwned`,
`Stopped`, `Dispatch`, `LeaseActivates`, `LeaseCompletes`, `LeaseUnpins`,
`Recover`, and a start in two: `RefreshResolves` and `LazyResolves` take the
store's answer, `RefreshStarts` and `LazyStart` spawn it, whatever has happened to
the store in between. Around them `Hear` (a ready line), `ReadyTimeout`,
`HostSeesExit`, `LeaseHalts`, of the children `ChildAnswers`, `ChildDies`,
`ChildEnds`, and `Other`: another panel over the same store activates its own
candidate, completes it, or recovers at its start or end and so gives up whichever
candidate is pending, ours too. `Recover`, at the end, may throw (a ledger busy or
broken, a lock not to be had); `bootstrap/host.js:92` ends the panel all the same,
and the candidate stays pending (`closed = "failed"`).

**Run.** `host_life`: a lazy start, an activation and its rollback with three
children and three frames, another panel, and a receipt chain that may break on
the way (about 600,000 states). `OneChild`. `ServedIsActivated`: outside an
activation the child that serves is of a version with a receipt, the active one
unless the other panel activated its own (a panel that is up keeps serving the
version it started with); ordinary traffic launches no pending candidate, whosever
it is. `CandidateEnds`: a candidate's process, also one whose activation another
panel's recovery has undone, does not run on: the version is activated or the
process ends. `CloseEnds`: the end comes, nothing runs then, and no candidate of
this panel is pending unless the recovery itself failed. `ServedIsActivated` and
`CandidateEnds` except a coordinator halted by a broken chain, where the code
leaves the candidate running (`host_halt.cfg`, section 15). Three children are the
running one, the candidate and the one after a rollback; three frames let one
wait behind a lease and one open another session. That this host itself gives its
candidate up only when its process is gone (`UnpinnedIsStopped`) is proved.

**Fairness.** The queue runs, frames are queued, the readiness timer fires and a
signalled child ends (SIGTERM, then SIGKILL). Nothing is assumed of the panel,
of a child's answer or exit, or of another panel.

Observed while modelling: `lifecycleFailure` (`bootstrap/host.js:224`) sends
`review.failed` without the `reviewId` the panel requires, so a frame dropped
after a failed rollback is dropped silently.

## 9. LifecyclePanel

**State.** `panel` (port, generation, card state, the review it shows, whether a
decision is open), `attempts` (connections whose storage read has not returned),
`chrome` (the adapter's owner, its end, finalized, revoked), and per connection:
`up`, both pipes (`toHost`, `toPanel`), `router`, `stage` (the coordinator's
Chrome stage), `readies`, `silent`.

**Actions.** Of the page: `Reconnect`, `ConnectDone`, `ConnectFails`, `PageHides`,
`PortDisconnects`, the buttons (`StartReview`, `Choose`, `OpenReview`, `Dismiss`,
`Stop`), the adapter's ends, and `Deliver` (a message of a connection, which the
handler takes or drops). Of the host: `RouterHandles` (the gate and the command),
the returns of the coordinator's calls, `HostReady`, `HostExits`. A message that
the gate refuses is dropped without an answer, as in the code.

**Run.** `panel_card`: three generations; `NoClickLost`, `OnlyThisConnection`,
`StopWithdraws`; `ReviewSettles`. Three connections are an old one whose
messages are late, the current one and one that replaces it. `panel_stop.cfg`
shows `StopAborts` violated (section 15).

**Fairness.** The page's tasks run, the router reads its pipe and each call of
the coordinator returns. None for the user, the model or a host's end.

## 10. AgentTurns

**State.** `panel` (turn believed active, composer, status, the card text goes
to), both pipes between page and host, the host's serial handler (`call`), the
client (`thread`, `turn`, `answered`, `waiters`, `stored`, for ACP `prompts`),
its pipes to the agent (`inbox`, `lines`, `exited`), and of the agent what it
works on (`running`, `owes`). `acp` says which client the connection has.

**Actions.** `Send`, `Stop`, `PanelReads`; `Handle` (start, interrupt, refuse or
resume an await) and `ReadLine` (answers, notifications, requests, exit), which
interleave as the event loop does; of the agent `AgentReads`, `AgentStreams`,
`AgentResponds`, `AgentFinishes`, `AgentAsks`, `AgentDies`; `HostDies`.

**Run.** `turns`, with either client: `NoPhantomTurn`, `OwnEndOnly`;
`PanelFollows` and `TurnSettles` for the app-server client, `StopEndsTurn` for
the ACP client. Two texts, two presses of Stop and one request of the agent: a
second turn is what a late answer about the first could hit, and a second Stop
what could hit the wrong one. `turns_stop.cfg`, `turns_late.cfg` and
`turns_exit.cfg` reproduce disagreements (section 15).

**Fairness.** The handler, the line reader and the panel's reader run. An
app-server agent, while it lives, also does what it is asked, which `TurnSettles`
needs; nothing is assumed of an ACP agent, since that client answers a Stop
itself.

## 11. ChromeAdapter

**State.** The invocation (`inv`: phase, terminal, result sent, finalized,
prompted, availability), prepare's and run's operation with its model session
(`ops`), where inspection stands, the `destroyed` flag, the clock, the one timer,
and the messages sent. A unit of time is the 60 s the adapter allows an
inspection or a run.

**Actions.** `Inspect`, `Verified`, `Available`, `InspectFails`; per operation
`Execute`, `Created`, `CreateFails`, `Prompted`, `PromptFails`, `CleanedUp`,
`Finish`; `Cancel`, `Destroy`, `Finalize`, `TimerFires`, `Tick`. The model may
never answer, answer after an abort, or throw.

**Run.** `adapter_one_shot`: a deadline of three units on a clock of four, so
that every operation can start in time, run out of its minute and meet the
deadline. `SettledOnce`, `NoSessionLeft`, `Ends`.

**Fairness.** Time passes and a due timer fires.

## 12. CodexReview

**State.** The review and where the coordinator's call stands (`review`,
`stage`); the child (`life`, `code`), its lines (`said`, those read, whether the
last is cut) and its result file; `parser` and `flags` (what `boundedRun` noted);
per review its `sample`; of the coordinator `os` and `attestation`; the result,
whether it was finalized; per review the evidence its receipt holds and its end.

**Actions.** `Start`, `Sampled`, `Refused`, `Say`, `WriteFile`, `Exit`, `Read`,
`Timeout`, `Close`, `Finalize`, `Clean`, `Return`. The sample of one review may
come, or fail, at any later time. A kill and an exit race: what had exited stays
as it exited.

**Run.** `codex_flow`: two reviews, one item, five lines against a limit of four
and one unread line in the pipe; `ReviewEnds`; `PassedIsEarned`: a review passes
only by a sampled child that ended by itself within its limits, whose lines are one
whole turn (`WholeTurn`, which reads the lines without the parser: thread, turn,
items each completed, one message, the end) and whose one message is the file it
wrote. So neither the grammar's end (`parser.finish()`, `codex-verifier.js:246`)
nor the comparison with the file (line 255) can be missing; the run's mutant drops
the comparison. Five lines are
one more than the limit, and the shortest accepted stream is four. A longer pipe
changes only when a line is read. That only a sampled child is given its prompt
(`SampledFirst`) is proved. `codex_evidence.cfg` shows `EvidenceIsOwn` violated
(section 15).

**Fairness.** The deadline comes, lines are read, a group that has exited closes
its pipes, and the coordinator's own steps return. The child and the sample need
never move. A descendant that left the process group would hold the pipe open
and the close back; the code does not wait for a close with a timer of its own,
and the model assumes there is none.

## 13. Installation

**State.** `journal` (`migration-journal.json`), `files` (what preparation
leaves: a place, the plan that wrote it, whole or spoiled), the registration
(`launcher`, `manifest`), the source's commit (`head`), and per run of the
command where it stands (`pc`, `step` in `Order`), the plan it was given and the
registration as it last read it (`current`).

**Actions.** `Start`, `Clear` (the absence checks), `Journal` (exclusive), `Make`
(the next artifact of `Order`), `Verify`, `RemoveJournal`, `Finish`, `SyncFails`
(the directory's sync after the removal fails, and the catch writes the journal
again), `Fail` (the catch), `Reread` (the registration, `install-macos.js:412-413`),
`Check` (what the preparation left, 414-431), `SetLauncher`, `SetManifest`, `Die`; around the command `Commit`, `Reregister`
and `Drift`. What is created exclusively refuses what exists, what `atomicFile`
writes replaces.

**Run.** `install_life`: three runs by two processes over two commits;
`PreparedStays`; `Recoverable`, in two parts: whatever is half switched can be
taken back (`WayBack`), and a switch that has passed its checks stands over a
whole preparation of the registration it read last (`SwitchesPrepared`), though the
old installer may have registered again since the plan was reviewed; the mutant
drops the comparison of line 413. Three runs are a preparation, one that races it
or comes after, and a switch. `OneAtWork` and `HalfIsLeft` are proved beside them. `install_journal.cfg` shows `JournalMeansOld` violated
(section 15). No liveness: a
command that fails or dies is run again by hand, or never.

**Assumed.** A write that returned is on the disk (of the syncs only the last one's
failure is modelled). The old installer registers again at any time before the
launcher is replaced, while a run works too; prepared files change only between
runs. A registration that changes behind line 413 is replaced unseen: the code
does not look again, and no property claims it does. A half-switched registration
is left as it is: the code has no repair.

## 14. Proofs

`VersionStoreProofs` proves, for any set of processes, reviews, digests and any
number of faults, from `ConstantsAssumption` alone:

| Theorem | Statement |
|---|---|
| `TypeCorrect` | `Spec => []TypeOK` |
| `JournalInvariant` | `Spec => []Inductive` |
| `PinsAlwaysAgree`, `CommittedStays`, `StableAlwaysReceipted`, `ReceiptsAlwaysBacked` | the four safety invariants |
| `PublicationIsOwned` | `Spec => PublishedByOwner` |
| `LaunchesAreAuthorised` | `Spec => LaunchIsAuthorised` |
| `ImplementsContract` | `Spec => ContractKept` |

`PinsAgree` alone is not inductive: whether writing a pin is right depends on
what the call in progress has written before. `StepsFit` states, for each point
of a multi-file call, what journal, pins and decision hold there;
`UndecidedHasNoReceipt` says that a candidate not yet pinned or being given up
carries no receipt, which is why a rollback never discards a committed version;
`InstalledHasBytes` supports the receipts. `Inductive` is their conjunction with
the four invariants. The argument has a lemma per durable effect
(`MarkEffect` to `ForgetEffect`), one for steps that touch nothing durable
(`Frame`), one for the activation walk (`ActivationJournal`), and one step per
action in `InductiveStep`. The refinement proof maps each action to a contract
step or a stutter under the invariant (`ContractStepOfNext`). For
`LaunchIsAuthorised` two more invariants are needed: the decision of a candidate on
trial has been consumed (`TrialIsConsumed`), and an answer not yet spawned is of a
receipted version or of this panel's own candidate (`ResolvedInv`), which stays
so whatever another panel does to the journal in between.

`ReceiptLedgerProofs` proves, for any processes, receipts and faults:

| Theorem | Statement |
|---|---|
| `TypeCorrect` | `Spec => []TypeOK` |
| `LedgerInvariant` | `Spec => []Inductive` |
| `ChainIsOne` | `Spec => [](OneChain /\ ReadersAgree)` |
| `AnswersStand` | `Spec => [](AnswerIsKept /\ HeadLeads)` |
| `GuardedCommit` | `Spec => CancelOrCommit` |
| `OrphanStays` | `Spec => OrphanIsFrozen` |
| `ImplementsChain` | `Spec => ChainContract` |

That the receipts are one chain rests on `Exclusive` (who works holds the lock,
alone) and on `AsLeft`, which states for each point of an append what files it
left: that what it read is still the chain, that its receipt is newer than every
directory, that the head counts one more from one rename to the other. `Alone`
and `OthersIdle` reduce each step to the entry of the process that takes it,
`Undisturbed` disposes of the steps that touch neither head nor directories,
and each remaining action has a lemma. For the refinement, only
`RenameReceipt` adds to the list (`QuietKeepsNames`, `RenameGrows`) and no other
step reopens the ledger (`QuietOpens`).

`InstallationProofs`, for any number of processes, commits and runs, from
`InstallationAssumption`:

| Theorem | Statement |
|---|---|
| `TypeCorrect` | `Spec => []TypeOK` |
| `OneMigration` | `Spec => []OneAtWork` |
| `AlwaysRecoverable` | `Spec => []Recoverable` |
| `FinishedStays` | `Spec => PreparedStays` |
| `SwitchIsPrepared` | `Spec => []SwitchesPrepared` |
| `HalfStays` | `Spec => []HalfIsLeft` |

`Recoverable` needs the whole history of a preparation. Each file is of a plan
over an old registration (`FilesOfPlans`, from `MakesOverOld`: the absence of the
trusted tree implies that nothing has been switched); the last receipt stands
over all others (`SealedIsWhole`, from `HasMade`); custody and receipts are never
removed (`FilesStay`); a run behind its trusted tree knows that no preparation is
finished (`NoneSealed`), so nothing it replaces belongs to one; and a switch
still stands on what it checked, of the registration it had read (`ChecksHold`).

`ReviewCoordinatorProofs` proves the coordinator, for any panels, any number of
reviews, processes and faults and under either launcher, from
`CoordinatorAssumption` (the bounds are naturals, with one review and one
process at least):

| Theorem | Statement |
|---|---|
| `InvariantHolds` | `Spec => []Inductive` |
| `TypeCorrect` | `Spec => []TypeOK` |
| `HistoriesAreLegal` | `Spec => []HistoryLegal` |
| `AcceptanceIsTheUsers` | `Spec => []AcceptedByUser` |
| `PinIsTheChains` | `Spec => []PinAgrees` |
| `ResumeCloses` | `Spec => []ResumedIsClosed` |

`#move` verifies the chain and appends in separate steps, and the append does not
look at the tail again: a panel may publish on a chain that another one has moved
on. The histories stay legal because of who can be there. A process that may
still publish a receipt of its review (`Acts`) knows the last one (`Current`), or
it comes with a Chrome artifact where another process has published one
(`Beaten`), and `finalizeEvent` refuses that (`Refused`). Two processes act on
one review only while one of them waits in the Chrome stage (`Apart`), where an
initializing process may have failed the review under its owner. `Moves` says
what a process is about to publish (a step of the table from the state it knows,
with the artifact and the nonce that go with it), `Ops` where it can stand with
what it knows. Of the chain, `Paths` says that what `Latest` chooses exists and
every history is a path of the table; `Story` what a review's last receipt says
of the earlier ones and of its nonces, from which `AcceptedByUser` follows;
`Pinned` that what the store's journal holds is an accepted review whose
activation is not settled, and that the last activation of the chain is the pin's
or that one, from which `PinAgrees` does: a recovery that finds the receipt
published makes the candidate the pin, and one that does not finds no activation
to lose. `Alone` is about a
launcher that resumes: every review but the last has ended, and a process past
its resumption works only on what it began, what has ended or what it is about
to end. There is a lemma for each kind of append (`AppendLast`, `AppendPaths`
and those of the stories), one for steps that leave the chain alone, and one per
operation.

Three parts of a review are proved beside it as instances, `Codex!`, `Nonces!`
and `Adapter!`. `CodexConstants` and `NonceConstants` are the assumptions of
`CodexReview` and `DecisionNonces` said of the instances' constants; each theorem
about them assumes its own and nothing else.

| Part | Theorem | Statement |
|---|---|---|
| `CodexReview` | `CodexTypeCorrect` | `Codex!Spec => []Codex!TypeOK` |
| | `PromptIsGated` | `Codex!Spec => []Codex!SampledFirst` |
| | `PassIsEarned` | `Codex!Spec => PassedIsEarned` |
| `DecisionNonces` | `NoncesAreKept` | `Nonces!Spec => []Nonces!Inductive` |
| | `SingleConsumption` | `Nonces!Spec => []ConsumedOnce` |
| | `ConsumptionIsBound` | `Nonces!Spec => []Nonces!GrantIsBound` |
| | `RecoveryIsWritten` | `Nonces!Spec => []Nonces!RecoveredWasWritten` |
| | `SpendingIsFinal` | `Nonces!Spec => SpentForGood` |
| `ChromeAdapter` | `SettlementIsKept` | `Adapter!Spec => []AdapterInductive` |
| | `SettlesOnce` | `Adapter!Spec => []SettledOnce` |
| | `SessionsEnd` | `Adapter!Spec => []NoSessionLeft` |

The Codex run, for any number of reviews, items and lines: a child lives only
while `boundedRun` watches it, reading over the limit is noted, and a verdict
stands on a clean run of a sampled child; none of it can change until the review
has returned. That its lines are one whole turn is the parser's doing: its state is
what the lines read so far amount to (`ParserFollows`, with `Knew` for each of its
states), for any number of them. The nonces, for any sessions, nonces, bindings, lifetime and clock:
a consumption in progress belongs to the session that issued the nonce, so there
is one of it and the used file is the one it made. The adapter, for any deadline
and clock: what makes `SettledOnce` inductive is that a terminal invocation has
its timer off and that a result is sent only from a live one.

`BootstrapHostProofs`, for any number of children and frames, from
`HostAssumption`:

| Theorem | Statement |
|---|---|
| `TypeCorrect` | `Spec => []TypeOK` |
| `OneChildLives` | `Spec => []OneChild` |
| `ServesTheActivated` | `Spec => []ServedIsActivated` |
| `UnpinsTheStopped` | `Spec => UnpinnedIsStopped` |

None of the three is inductive: whether a start is right depends on which task
owns the transition queue, how far it has come, and what the store answered it
some steps ago. `Queue` says that frames and leases wait at most once, so no two
tasks of a kind meet; `Stage` where a task of each kind can stand; `Owner` that no
child is owned wherever one may be started, unpinned or recovered; `Serving` that
an answer in hand is of an activated version unless it is the lease's candidate,
and that a task which leaves a candidate pending leaves the lazy start off. Another
panel's steps (`Other`) only add receipts or give a candidate up, which keeps both.
There is a lemma per action; `CloseKeeps` covers the three steps that latch the
end, `QuietKeeps` the steps that move no task, `RefreshEnds` the four ways a
refresh ends.

`ChromeInvocationProofs`, for any panels and ids, any number of reviews and any
trouble, from `ConstantsAssumption` and `NoneAssumption` (null is no event, no
reason code and no record):

| Theorem | Statement |
|---|---|
| `TypeCorrect` | `Spec => []TypeOK` |
| `Invariant` | `Spec => []Inductive` |
| `ArtifactIsSingle` | `Spec => []OneArtifact` |
| `AccountsAgree` | `Spec => []NothingForgotten` |
| `FailureStays` | `Spec => FailureIsFinal` |
| `EligibleWhileLive` | `Spec => EligibleIsLive` |

The difficulty is that any panel may be behind: it checks the chain in one step
and appends in a later one, and only then compares. The ledger's own rule
(`Accepts`) refuses a second artifact, but not every receipt that a panel
could append out of turn. `Inductive` therefore says of the ledger that a review
is opened once, at the place that names it (`Origins`), that an entered review
which has ended has its artifact (`Settled`), and that at most one review is
live: not ended, and entered or in a living panel's hand (`Alone`). What a
panel knows from its last receipt (`Knows`) then makes its review the live one
whenever it may still publish something that ends it. Of the pending file it says
that every copy, in the file or in a panel's memory, is backed by the ledger
(`Records`), that an id bound to a request that has not begun is nobody else's
(`Fresh`), and that a panel whose request has begun has the file's record until
the artifact is published (`Holds`); `EligibleIsLive` follows from the last, since
`Pass` needs a review without an artifact. `FailureIsFinal` needs `Records` too:
an id that begins is unused, so it is never that of a finished record.
Steps fall into three kinds (`Steps`): those that publish (`Publishes`; what
they append is `Due`, or refused), those that write the pending file (`Files`),
and those that do neither (`Quiet`). TLC checks `Inductive` on the instance of
`chrome_safety`.

`LifecyclePanelProofs`, for any number of connections:

| Theorem | Statement |
|---|---|
| `PanelAndRoutersAgree` | `Spec => []Inductive` |
| `TypeCorrect` | `Spec => []TypeOK` |
| `ClicksAreTaken` | `Spec => []NoClickLost` |
| `OwnConnection` | `Spec => []OnlyThisConnection` |
| `StopIsFinal` | `Spec => []StopWithdraws` |

No lock orders panel and router, and a click that the router's gate refuses is
dropped in silence. That none is rests on where the turn to move is: in one
place, a click in the pipe to the host, a command under way at the router, an
offer in the pipe to the panel, or a card that can be clicked (`OneClick`,
`OneOffer`, `ClickOrOffer`, `CardAgrees`); and wherever it is, the router still
accepts what it leads to (`Open`). `PipesAgree` says this of each connection's
pipes, `PanelAgrees` that attempts, port and review are of the current
generation. Most steps only take something out of a pipe or add what is neither
a click nor an offer: `Left` says so of a pipe, and `PipesLeft` and `CardLeft`
dispose of them. What remains is one lemma per click, per command the router
handles and per answer of the coordinator.

`AgentTurnsProofs`, for any number of texts, presses of Stop and requests of the
agent, and with either client:

| Theorem | Statement |
|---|---|
| `TurnsAgree` | `Spec => []Inductive` |
| `TypeCorrect` | `Spec => []TypeOK` |
| `NoPhantom` | `Spec => []NoPhantomTurn` |
| `PanelAgrees` | `Spec => []PanelFollows` |
| `OwnEnd` | `Spec => OwnEndOnly` |

With an app-server, the answer to `turn/start` and the notifications of the turn
come in any order, and the turn may be over when its answer is read. `Inductive`
says that a text that waits for the host is later than every turn there is
(`TextsAreNew`), that one request at a time is unanswered (`OneAnswer`), and that
when the client takes a text nothing of an earlier turn is left to be said or
read (`Phases`); so at most one turn is live (`OneLive`), it starts once, before
it ends once (`Ordered`), and what has ended is not heard of again (`Over`). An
answer still owed is of a turn whose start has been read or is about to be
(`OwedTurn`): that is what keeps `NoPhantomTurn` when the answer comes last.
`PanelFollows` needs what the panel is going to believe when it has read the
events still on the way to it (`Believes`). With the ACP client the host itself
ends a turn, and types, `TextsAreNew` and `NoPhantomTurn` are inductive by
themselves; there the panel need not follow (`turns_late`, section 15).

Every safety and action property that a run checks is stated by a theorem. Only
model-checked is the liveness of every module (`PendingIsDecided`, `ReviewSettles`,
`TurnSettles`, `StopEndsTurn`, `CloseEnds`, `ReviewEnds`, `Ends`): fairness and
`ENABLED` are out of the prover's reach.

## 15. Where code and documents disagree

Each paragraph is named after the configuration that shows it. `PROJECT.json`
lists `chrome_interrupted` as a run; the others are started by hand, `turns_late`
for instance with `tlc -config turns_late.cfg MCAgentTurns.tla`.

`vs_broken_chain`: the design document of the review refresh
(`docs/superpowers/specs/2026-09-14-visible-review-refresh-design.md:334`) says
that a chain break blocks future refreshes "while allowing the currently pinned
version to keep operating". At startup `runBootstrap` awaits `store.recover()`
(`bootstrap/host.js:41`), which asks `#committedCompletion` and throws whenever a
journal exists and the chain is not intact, even when the journal is settled.
Every later panel then fails to start. A panel that is already up keeps
serving, as the document says.

`chrome_interrupted`: the plan of the Chrome review
(`docs/superpowers/plans/2026-09-14-chrome-native-semantic-review.md:30`) says
that an interrupted result "withholds only the current candidate". `#runChrome`
publishes the entry receipt (`review/review-coordinator.js:222`) before the
bridge writes the pending file (`review/chrome-review-bridge.js:103`). After a
crash in between, every later `#recoverChrome` throws "Missing Chrome journal"
(line 315); if an older receipted record exists, recovery succeeds but the
review stays in `chrome-semantic-review` and no other can be started. The trace
is that crash and the start after it, with no fault of the disk or of the ledger.

`chrome_outstanding`: the policy allows one outstanding invocation
(`policy/review-policy.v2.json:192`). `recover` takes any pending record of
another `restartId` for interrupted, also when its panel lives
(`bootstrap/chrome-review-journal.js:93`); the second panel may then open its
own request while the first one's is still before the browser. The first
panel's answer cannot be used: it halts, and no second artifact appears
(`OneArtifact`).

`turns_stop`: `docs/design.md:76` says that Stop sends an interrupt and that the
panel stays stopped. `emergencyStop` sends one only after `turn.started`
(`extension/sidepanel-controller.js:95`), while the composer offers Stop from
Send on. A Stop in between sends nothing, and the status goes from Stopped to
Thinking when the turn starts.

`turns_late`: `README.md:35` of the repository says that Stop maps to interrupt
for the active turn. `interruptTurn` of the Grok client completes the turn at
once and leaves its `session/prompt` pending
(`native-host/grok-agent-client.js:146`); the late answer completes it again, and
the panel, which does not compare turn ids, marks the next turn as ended: Stop is
disabled while that turn runs.

`turns_exit`: `docs/browser-session-continuity.md:173` says that error states
report Unavailable. The agent's exit is handled while lines of its output are
still unread (`native-host/app-server-client.js:63`); they follow
`process.error`, and the panel shows Thinking or Ready for a dead agent.

`panel_stop`: the amendment
(`docs/superpowers/specs/2026-09-14-chrome-native-semantic-review-amendment-design.md:325`)
says that the emergency stop aborts the review transaction. A stop after the
native side finalized the review sends nothing
(`extension/sidepanel-controller.js:114`), and one sent while `review.eligible`
is in the pipe is refused: the card shows Review stopped while the coordinator's
chain stays eligible and its grants live.

`host_halt`: the refresh design (line 227) says, of a failed verification after
the activation, "Stop the failed candidate runtime." When the check of the chain
after `refreshPending` fails, the coordinator halts and rethrows instead of
rolling back (`review/review-coordinator.js:468`); the unverified candidate
serves the panel under a pending pin until the channel closes.

`coord_launcher`: the amendment (line 235) says that a restart ends the current
review. The launcher that the installer writes (`scripts/install-macos.js:147`)
never calls `resumePendingActivation`, the only operation that ends a review
interrupted before its Chrome stage: `startReview` then throws "Review state
requires a fresh review" for ever.

`install_journal`: `docs/migration-runbook.md:229` says that a remaining
`migration-journal.json` means an interrupted migration with the old registration
unchanged. A preparation that dies after its last receipt leaves the journal, and
`switchRegistration` (`scripts/install-macos.js:395`) never looks at it.

`codex_evidence`: the refresh design (line 242) gives each review its own
evidence. `#evidence` stores what its collector returns as soon as it returns
(`review/review-coordinator.js:126`), and `boundedRun` does not wait for the
sample: evidence of one review may be stored, unverified, as the next one's.

## 16. Not modelled

- `candidate-source.js`, `git-runner.js`, `bundle-manifest.js`: reads of a Git
  remote, digests and copies, without state between calls. What they return is
  an input: a candidate is available or not, staged or refused.
- The remaining verifiers, evidence collectors, redaction and contract checks
  (`chrome-review-contract.js`, `chrome-review-packet.js`, `os-evidence.js` and
  so on): functions of their arguments or child processes that run once. Their
  verdict is a choice of the models.
- Presentation: AppleScript dialogs, rendering and focus of the side panel.
- `build-initial-bundle.js`, `verify-receipt-chain.js`: run by hand over a tree
  that nothing else changes. The verification of the chain is in `ReceiptLedger`.
- Native framing (`BoundedDecoder`, `NativeMessageDecoder`): a loop over the
  buffer of one stream, which a unit test reaches. Read closely, the child's
  decoder differs from the bootstrap's after invalid JSON: it keeps whole frames
  behind that one until the next chunk comes.
- In modelled components: `completeActivation` without a receipt store, which no
  launcher reaches; policy 1 of the coordinator; the limit of `writeFrame`; the byte limits of the bootstrap's queue; the 1024
  retained ids of the Chrome journal; the agent choice of the conversation
  controller, which the page never makes; message shapes, digests and file modes.
- The archive, fixtures, sketches and documents; tests and documents are read as
  statements about the program.
