---------------------------- MODULE BootstrapHost ----------------------------
(***************************************************************************)
(* bootstrap/host.js with the child processes of native-proxy.js: the      *)
(* transition queue, which one task owns at a time, the child it owns, the *)
(* session's identity, an activation inside withTransition and the end.    *)
(* The store is what its calls answer (VersionStore has the journal) and   *)
(* is shared: another open panel activates, gives up or recovers between   *)
(* any two steps of this host.  The coordinator is what it asks of its     *)
(* lease (ReviewCoordinator has the rest).  A is the version pinned at the *)
(* start, B this panel's candidate and C the other panel's.                *)
(***************************************************************************)
EXTENDS Naturals, Sequences, FiniteSets

CONSTANTS MaxChild, MaxFrame  \* bounds: children started, frames received
ASSUME HostAssumption == MaxChild \in Nat \ {0} /\ MaxFrame \in Nat

VARIABLES
  host,    \* the flags of runBootstrap: see TypeOK
  rt,      \* runtimeState
  child,   \* child[k]: the processes it spawned
  says,    \* says[k]: session.ready lines of child k not read yet
  tasks,   \* transitions: tasks not begun
  cur,     \* the task that owns the queue, and where it stands
  frames, received,   \* queue: conversation frames not dispatched; how many came
  store,   \* the shared journal: the version recovery would keep, the candidate
           \* pending verification, the versions with an 'activated' receipt
  verdict  \* how the activation ended

vars == <<host, rt, child, says, tasks, cur, frames, received, store, verdict>>

Kid    == 1 .. MaxChild
Thread == {"none", "t1", "t2"}
Digest == {"A", "B", "C"}
NoRt   == [pid |-> 0, digest |-> "A", thread |-> "none"]
Idle   == [kind |-> "none", pc |-> "idle", doing |-> "none", answer |-> "none"]

TypeOK ==
  /\ host \in [stopped : BOOLEAN, closed : {"no", "recovered", "failed"},
               refreshing : BOOLEAN, lazy : BOOLEAN, asked : BOOLEAN, thread : Thread, gen : Nat, refreshed : {0} \cup Kid,
               proxy : {0} \cup Kid, owned : SUBSET Kid]
  /\ rt \in [pid : {0} \cup Kid, digest : Digest, thread : Thread]
  /\ child \in [Kid -> [state : {"none", "running", "dead", "ending", "gone"},
                        digest : Digest, gen : Nat, opened : Thread \cup {"no"}]]
  /\ says \in [Kid -> Seq(Thread)]
  /\ tasks \in Seq({"frame", "lease", "close"})
  /\ cur \in [kind : {"none", "frame", "lease", "close"},
              pc : {"idle", "begin", "resolve", "spawn", "stop", "stopping", "waiting", "complete",
                    "unpin", "recover"},
              doing : {"none", "pending", "candidate", "previous"},
              answer : {"none"} \cup Digest]
  /\ frames \in Seq([open : BOOLEAN, thread : Thread]) /\ received \in 0 .. MaxFrame
  /\ store \in [active : Digest, trial : {"none", "B", "C"}, activated : SUBSET Digest]
  /\ verdict \in {"none", "activated", "rolled-back", "custody-broken", "halted"}

Alive(k)   == child[k].state \in {"running", "dead", "ending"}
\* resolvePendingHost answers this panel's candidate alone, resolveActiveHost
\* that or the settled version; neither answers while another's is pending
Resolves   == IF cur.doing = "pending" THEN {store.trial} \cap {"B"}
              ELSE IF store.trial = "none" THEN {store.active} ELSE {store.trial} \cap {"B"}
At(pc)     == cur.kind # "none" /\ cur.pc = pc
Goto(pc)   == cur' = [cur EXCEPT !.pc = pc]
Ends       == cur' = Idle
Untold     == UNCHANGED <<says, frames, received>>

-----------------------------------------------------------------------------
(* close and failure: latch at once, reap in the queue's turn.              *)
\* a failed refresh that ends the lease as it is
FailedRefreshEnds == Idle
\* a refresh that waits for readiness is rejected
AfterFailedRefresh ==
  IF cur.doing = "pending" THEN [Idle EXCEPT !.kind = "lease", !.pc = "stop", !.doing = "candidate"]
  ELSE Idle
Verdict(v) == verdict' = IF cur.kind = "lease" /\ cur.doing = "previous" THEN v ELSE verdict

Close ==
  IF host.stopped THEN UNCHANGED <<host, tasks, cur, verdict>>
  ELSE /\ tasks' = Append(tasks, "close")
       /\ IF At("waiting")
          THEN /\ host' = [host EXCEPT !.stopped = TRUE, !.refreshed = 0, !.refreshing = FALSE]
               /\ cur' = AfterFailedRefresh /\ Verdict("custody-broken")
          ELSE /\ host' = [host EXCEPT !.stopped = TRUE, !.refreshed = 0]
               /\ UNCHANGED <<cur, verdict>>

InputEnds == Close /\ ~host.stopped /\ UNCHANGED <<rt, child, says, frames, received, store>>

-----------------------------------------------------------------------------
Init ==
  /\ host = [stopped |-> FALSE, closed |-> "no", refreshing |-> FALSE, lazy |-> TRUE,
             asked |-> FALSE, thread |-> "none", gen |-> 0, refreshed |-> 0, proxy |-> 0,
             owned |-> {}]
  /\ rt = NoRt
  /\ child = [k \in Kid |-> [state |-> "none", digest |-> "A", gen |-> 0, opened |-> "no"]]
  /\ says = [k \in Kid |-> <<>>] /\ tasks = <<>> /\ cur = Idle
  /\ frames = <<>> /\ received = 0 /\ verdict = "none"
  /\ store = [active |-> "A", trial |-> "none", activated |-> {"A"}]

\* a conversation frame; session.open binds the session before it queues
Receive ==
  /\ ~host.stopped /\ received < MaxFrame /\ received' = received + 1
  /\ UNCHANGED <<rt, child, says, store>>
  /\ \/ /\ host.asked /\ frames' = Append(frames, [open |-> FALSE, thread |-> "none"])
        /\ UNCHANGED <<host, tasks, cur, verdict>>
     \/ \E t \in Thread :
          IF t # "none" /\ ((host.thread # "none" /\ host.thread # t)
                            \/ (host.asked /\ host.thread = "none"))
          THEN Close /\ UNCHANGED frames
          ELSE LET bound == IF t = "none" THEN host.thread ELSE t IN
               /\ host' = [host EXCEPT !.asked = TRUE, !.thread = bound]
               /\ frames' = Append(frames, [open |-> TRUE, thread |-> bound])
               /\ UNCHANGED <<tasks, cur, verdict>>

\* the frame at the head asks for the transition queue
FrameQueues ==
  /\ frames # <<>> /\ cur.kind # "frame"
  /\ \A i \in DOMAIN tasks : tasks[i] # "frame"
  /\ UNCHANGED <<host, rt, child, says, cur, received, store, verdict>>
  /\ IF host.stopped THEN frames' = Tail(frames) /\ UNCHANGED tasks
     ELSE tasks' = Append(tasks, "frame") /\ UNCHANGED frames

\* an accepted decision asks for its lease; what it was reviewed against is active
LeaseQueues ==
  /\ ~host.stopped /\ verdict = "none" /\ rt.thread # "none"
  /\ store.trial = "none" /\ store.active = "A"
  /\ cur.kind # "lease" /\ \A i \in DOMAIN tasks : tasks[i] # "lease"
  /\ tasks' = Append(tasks, "lease")
  /\ UNCHANGED <<host, rt, child, cur, store, verdict>> /\ Untold

\* serialize: one task at a time, in order; a lease is refused after the end
TaskBegins ==
  /\ cur = Idle /\ tasks # <<>> /\ tasks' = Tail(tasks)
  /\ UNCHANGED <<host, rt, child, store>> /\ Untold
  /\ cur' = (IF Head(tasks) = "lease" /\ host.stopped THEN Idle
             ELSE [Idle EXCEPT !.kind = Head(tasks),
                               !.pc = IF Head(tasks) = "close" THEN "stop" ELSE "begin"])
  /\ verdict' = (IF Head(tasks) = "lease" /\ host.stopped THEN "custody-broken" ELSE verdict)

-----------------------------------------------------------------------------
(* The child.                                                               *)
\* startProxy, with the session.open that follows it in a refresh
Start(k, digest, opened) ==
  /\ child[k].state = "none" /\ \A j \in Kid : j < k => child[j].state # "none"
  /\ child' = [child EXCEPT ![k] = [state |-> "running", digest |-> digest,
                                    gen |-> host.gen + 1, opened |-> opened]]
  /\ rt' = [pid |-> k, digest |-> digest, thread |-> "none"]
  /\ host' = [host EXCEPT !.gen = @ + 1, !.proxy = k, !.owned = {k}, !.lazy = TRUE]

ChildAnswers(k) ==
  /\ child[k].state = "running" /\ child[k].opened # "no"
  /\ \E t \in Thread \ {"none"} : says' = [says EXCEPT ![k] = Append(@, t)]
  /\ child' = [child EXCEPT ![k].opened = "no"]
  /\ UNCHANGED <<host, rt, tasks, cur, frames, received, store, verdict>>

ChildDies(k) ==
  /\ child[k].state = "running" /\ child' = [child EXCEPT ![k].state = "dead"]
  /\ UNCHANGED <<host, rt, tasks, cur, store, verdict>> /\ Untold

\* fail() of the proxy: an exit nobody asked for ends the host
HostSeesExit(k) ==
  /\ child[k].state = "dead" /\ child' = [child EXCEPT ![k].state = "gone"] /\ Close
  /\ UNCHANGED <<rt, store>> /\ Untold

\* SIGTERM, 200 ms, SIGKILL, and the streams have closed
ChildEnds(k) ==
  /\ child[k].state = "ending" /\ child' = [child EXCEPT ![k].state = "gone"]
  /\ says' = [says EXCEPT ![k] = <<>>]
  /\ UNCHANGED <<host, rt, tasks, cur, frames, received, store, verdict>>

\* The refresh that waited is done: the candidate is refreshed, the previous
\* version serves again.
Refreshed ==
  /\ cur' = (IF cur.doing = "pending" THEN [cur EXCEPT !.pc = "complete"] ELSE Idle)
  /\ \E v \in {"rolled-back", "custody-broken"} : Verdict(v)   \* as its evidence says

\* session.ready of the current child; another session than the host's is fatal
Hear(k) ==
  /\ says[k] # <<>> /\ says' = [says EXCEPT ![k] = Tail(@)]
  /\ UNCHANGED <<child, frames, received, store>>
  /\ LET t == Head(says[k]) IN
     IF host.stopped \/ child[k].gen # host.gen THEN UNCHANGED <<host, rt, tasks, cur, verdict>>
     ELSE IF ~host.asked \/ (host.thread # "none" /\ t # host.thread)
     THEN Close /\ UNCHANGED rt
     ELSE /\ rt' = [rt EXCEPT !.thread = t] /\ UNCHANGED tasks
          /\ IF At("waiting")
             THEN /\ host' = [host EXCEPT !.thread = t, !.refreshing = FALSE,
                                !.refreshed = IF cur.doing = "pending" THEN host.proxy ELSE 0]
                  /\ Refreshed
             ELSE host' = [host EXCEPT !.thread = t] /\ UNCHANGED <<cur, verdict>>

ReadyTimeout ==
  /\ At("waiting") /\ host' = [host EXCEPT !.refreshing = FALSE]
  /\ cur' = AfterFailedRefresh /\ Verdict("custody-broken")
  /\ UNCHANGED <<rt, child, tasks, store>> /\ Untold

-----------------------------------------------------------------------------
(* stopOwned, shared by close and the lease.                                *)
StopOwned ==
  /\ At("stop") /\ Goto("stopping")
  /\ host' = [host EXCEPT !.gen = @ + 1, !.lazy = FALSE, !.refreshed = 0]
  /\ child' = [k \in Kid |-> IF k \notin host.owned THEN child[k]
                 ELSE IF child[k].state = "running" THEN [child[k] EXCEPT !.state = "ending"]
                 ELSE IF child[k].state = "dead" THEN [child[k] EXCEPT !.state = "gone"]
                 ELSE child[k]]
  /\ UNCHANGED <<rt, tasks, store, verdict>> /\ Untold

AfterStop == IF cur.kind = "close" THEN "recover"
             ELSE IF cur.doing = "candidate" THEN "unpin" ELSE "resolve"

\* the next step does not wait for the exit
StoppedAtOnce ==
  /\ At("stopping") /\ Goto(AfterStop)
  /\ host' = [host EXCEPT !.owned = {}, !.proxy = 0] /\ rt' = NoRt
  /\ UNCHANGED <<child, tasks, store, verdict>> /\ Untold
Stopped ==
  /\ At("stopping") /\ (\A k \in host.owned : child[k].state = "gone") /\ Goto(AfterStop)
  /\ host' = [host EXCEPT !.owned = {}, !.proxy = 0] /\ rt' = NoRt
  /\ UNCHANGED <<child, tasks, store, verdict>> /\ Untold

RefreshFails ==
  /\ cur' = AfterFailedRefresh /\ Verdict("custody-broken")
  /\ host' = [host EXCEPT !.refreshing = FALSE] /\ UNCHANGED <<rt, child>>

\* refresh after its stop: not when stopped or without a session to resume, nor
\* when the store refuses
RefreshResolves ==
  /\ cur.kind = "lease" /\ At("resolve") /\ UNCHANGED <<tasks, store>> /\ Untold
  /\ \/ /\ ~host.stopped /\ UNCHANGED <<host, rt, child, verdict>>
        /\ \E d \in Resolves : cur' = [cur EXCEPT !.pc = "spawn", !.answer = d]
     \/ RefreshFails

\* the store may have moved since it answered
RefreshStarts ==
  /\ cur.kind = "lease" /\ At("spawn") /\ UNCHANGED <<tasks, store>> /\ Untold
  /\ \/ /\ ~host.stopped /\ UNCHANGED verdict
        /\ cur' = [cur EXCEPT !.pc = "waiting", !.answer = "none"]
        /\ \E k \in Kid : Start(k, cur.answer, host.thread)
     \/ host.stopped /\ RefreshFails

\* close: the journal is recovered when the child is gone.  recover throws on a
\* broken or busy ledger, or a lock it waits for too long; the end comes all the same.
RecoverNothing ==
  /\ At("recover") /\ Ends /\ host' = [host EXCEPT !.closed = "recovered"]
  /\ UNCHANGED <<rt, child, tasks, store, verdict>> /\ Untold
Recover ==
  /\ At("recover") /\ Ends /\ UNCHANGED <<rt, child, tasks, verdict>> /\ Untold
  /\ \/ /\ store' = [store EXCEPT !.trial = "none"]
        /\ host' = [host EXCEPT !.closed = "recovered"]
     \/ UNCHANGED store /\ host' = [host EXCEPT !.closed = "failed"]

-----------------------------------------------------------------------------
(* One frame, dispatched.                                                   *)
FrameDone == frames' = Tail(frames) /\ UNCHANGED <<says, received>>

Dispatch ==
  /\ cur.kind = "frame" /\ At("begin") /\ UNCHANGED <<rt, store>>
  /\ IF host.proxy = 0 /\ host.lazy /\ ~host.stopped
     THEN Goto("resolve") /\ UNCHANGED <<host, child, tasks, verdict>> /\ Untold
     ELSE /\ Ends /\ FrameDone /\ UNCHANGED <<host, tasks, verdict>>
          /\ child' = (IF host.proxy # 0 /\ ~host.stopped /\ Head(frames).open
                       THEN [child EXCEPT ![host.proxy].opened = host.thread] ELSE child)

\* a child for the first frame; the store may refuse, which is fatal
LazyResolves ==
  /\ cur.kind = "frame" /\ At("resolve") /\ UNCHANGED <<rt, child, store, verdict>>
  /\ \/ /\ \E d \in Resolves : cur' = [cur EXCEPT !.pc = "spawn", !.answer = d]
        /\ UNCHANGED <<host, tasks>> /\ Untold
     \/ /\ host.stopped /\ Ends /\ FrameDone /\ UNCHANGED <<host, tasks>>
     \/ /\ ~host.stopped /\ Ends /\ FrameDone /\ tasks' = Append(tasks, "close")
        /\ host' = [host EXCEPT !.stopped = TRUE, !.refreshed = 0]

LazyStart ==
  /\ cur.kind = "frame" /\ At("spawn") /\ Ends /\ FrameDone /\ UNCHANGED <<tasks, store, verdict>>
  /\ \/ host.stopped /\ UNCHANGED <<host, rt, child>>
     \/ /\ ~host.stopped
        /\ \E k \in Kid :
             Start(k, cur.answer, IF Head(frames).open THEN Head(frames).thread ELSE "no")

-----------------------------------------------------------------------------
(* The lease of acceptReview: activate, refreshPending, complete; or stop,  *)
(* unpin, restartPrevious.                                                  *)
Lease(pc) == cur.kind = "lease" /\ At(pc) /\ UNCHANGED <<child, tasks>> /\ Untold

\* a broken chain: the coordinator throws and the lease is released as it is
LeaseHalts ==
  /\ cur.kind = "lease"
  /\ cur.pc \in {"begin", "complete", "unpin"} \/ (cur.pc = "stop" /\ cur.doing # "pending")
  /\ Ends /\ verdict' = "halted"
  /\ host' = [host EXCEPT !.refreshing = FALSE]
  /\ UNCHANGED <<rt, child, tasks, store>> /\ Untold

\* installVersion and activate, which another's pending candidate refuses, then
\* refreshPending, which a stopped host refuses.  An activate that throws may have
\* written the journal.
LeaseActivates ==
  /\ Lease("begin") /\ UNCHANGED <<rt, verdict>>
  /\ \/ /\ ~host.stopped /\ store.trial = "none" /\ store' = [store EXCEPT !.trial = "B"]
        /\ cur' = [cur EXCEPT !.pc = "stop", !.doing = "pending"]
        /\ host' = [host EXCEPT !.refreshing = TRUE, !.refreshed = 0]
     \/ /\ \/ UNCHANGED store
           \/ store.trial = "none" /\ store' = [store EXCEPT !.trial = "B"]
        /\ cur' = [cur EXCEPT !.pc = "stop", !.doing = "candidate"] /\ host' = host

\* the guard of bindRuntimeGuard, asked inside the lease
Guard == /\ ~host.stopped /\ ~host.refreshing /\ host.owned = {host.proxy}
         /\ host.refreshed = host.proxy /\ rt.digest = "B" /\ rt.thread = host.thread
LeaseSucceeds ==
  /\ Guard /\ store.trial = "B" /\ verdict' = "activated" /\ Ends
  /\ store' = [active |-> "B", trial |-> "none", activated |-> store.activated \cup {"B"}]
\* a failed check that ends the lease as it is
LeaseCompletesAnyway ==
  Lease("complete") /\ UNCHANGED <<host, rt>> /\ (LeaseSucceeds \/ (Ends /\ UNCHANGED <<store, verdict>>))
LeaseCompletes ==
  /\ Lease("complete") /\ UNCHANGED <<host, rt>>
  /\ \/ LeaseSucceeds
     \/ /\ cur' = [cur EXCEPT !.pc = "stop", !.doing = "candidate"]
        /\ UNCHANGED <<store, verdict>>

\* rollback or else recover of the store, which may fail both; then restartPrevious,
\* if the version the review replaced is the active one
LeaseUnpins ==
  /\ Lease("unpin") /\ UNCHANGED rt
  /\ \/ /\ ~host.stopped /\ store.active = "A" /\ store' = [store EXCEPT !.trial = "none"]
        /\ cur' = [cur EXCEPT !.pc = "stop", !.doing = "previous"]
        /\ host' = [host EXCEPT !.refreshing = TRUE] /\ UNCHANGED verdict
     \/ /\ UNCHANGED store \/ store' = [store EXCEPT !.trial = "none"]
        /\ Ends /\ verdict' = "custody-broken" /\ host' = host

-----------------------------------------------------------------------------
(* Another panel, over the same store.                                      *)
Other ==
  /\ UNCHANGED <<host, rt, child, tasks, cur, verdict>> /\ Untold
  /\ \/ /\ store.trial = "none" /\ "C" \notin store.activated      \* activate
        /\ store' = [store EXCEPT !.trial = "C"]
     \/ /\ store.trial = "C"                                      \* completion
        /\ store' = [active |-> "C", trial |-> "none", activated |-> store.activated \cup {"C"}]
     \/ /\ store.trial # "none"              \* rollback; recover when it starts or closes
        /\ store' = [store EXCEPT !.trial = "none"]

-----------------------------------------------------------------------------
TaskStep == \/ TaskBegins \/ StopOwned \/ Stopped \/ RefreshResolves \/ RefreshStarts \/ Recover
            \/ Dispatch \/ LazyResolves \/ LazyStart \/ LeaseActivates \/ LeaseCompletes \/ LeaseUnpins

Next ==
  \/ Receive \/ FrameQueues \/ LeaseQueues \/ InputEnds \/ ReadyTimeout \/ TaskStep \/ LeaseHalts \/ Other
  \/ \E k \in Kid : ChildAnswers(k) \/ ChildDies(k) \/ HostSeesExit(k) \/ ChildEnds(k) \/ Hear(k)

\* The queue runs, a signalled child ends, the timer fires; nothing is assumed
\* of the panel, of an answer or of an exit.
Spec == /\ Init /\ [][Next]_vars
        /\ WF_vars(TaskStep) /\ WF_vars(FrameQueues) /\ WF_vars(ReadyTimeout)
        /\ \A k \in Kid : WF_vars(ChildEnds(k))

-----------------------------------------------------------------------------
\* At most one child is alive, and the host owns it: also when a lazy start, a
\* refresh, a death and the end cross.
OneChild ==
  /\ \A k \in Kid : Alive(k) => k \in host.owned
  /\ Cardinality({k \in Kid : Alive(k)}) <= 1

\* Another panel's recovery may give this panel's candidate up while its process
\* runs; this host gives it up only when that process is gone.
UnpinnedIsStopped ==
  [][store.trial = "B" /\ store'.trial # "B" /\ "B" \notin store'.activated /\ cur' # cur
       => \A k \in Kid : Alive(k) => child[k].digest # "B"]_vars

\* A candidate's process does not run on undecided: the candidate is activated or
\* the process ends, whoever gives the candidate up and whatever fails or comes
\* too late; unless a broken chain halted the activation half way.
CandidateEnds ==
  \A k \in Kid : (Alive(k) /\ child[k].digest = "B")
    ~> (~Alive(k) \/ "B" \in store.activated \/ verdict = "halted")

\* The end comes: with tasks queued, a refresh waiting, a child that ignores
\* SIGTERM; then nothing runs, and the candidate is not left pending unless the
\* recovery itself failed.
CloseEnds ==
  host.stopped ~> /\ host.closed = "failed" \/ (host.closed = "recovered" /\ store.trial # "B")
                  /\ \A k \in Kid : ~Alive(k)

\* d is no candidate that is undecided or was given up, and it is the active
\* version unless another panel activated its own.
Current(d) == d \in store.activated /\ (d = store.active \/ "C" \in store.activated)

\* Outside an activation the child that serves is of such a version: ordinary
\* traffic never launches a pending candidate, this panel's or another's, and no
\* failed activation or rollback leaves one serving; unless a broken chain halted
\* the activation half way.
ServedIsActivated ==
  host.proxy # 0 /\ ~host.stopped /\ cur.kind # "lease" /\ verdict # "halted"
    => Current(child[host.proxy].digest)

\* Rollback of the review design (line 227): "Stop the failed candidate
\* runtime."
CandidateStopped ==
  ~host.stopped /\ verdict \in {"halted", "custody-broken", "rolled-back"}
    => \A k \in Kid : child[k].digest = "B" => child[k].state # "running"
=============================================================================
