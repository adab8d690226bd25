---------------------------- MODULE VersionStore ----------------------------
(***************************************************************************)
(* bootstrap/version-store.js: the durable activation journal.  Several    *)
(* bootstrap processes (one per open panel) share runtime/ and serialise   *)
(* their operations on one kernel lock; each file write is atomic (write,  *)
(* fsync, rename), a process may die between any two of them, and the      *)
(* kernel then frees the lock.  The receipt ledger appears only as far as  *)
(* the store reads it.  Around each store stands its panel: the host that  *)
(* spawns, after the lock is given back, what a resolve*Host call answered,*)
(* and the coordinator's transition lease, which tries a review once and   *)
(* gives it up once.                                                       *)
(*                                                                         *)
(* A review stages one bundle and is issued one accept nonce, so a review  *)
(* stands for its pin [digest, reviewId], its decision and the hash of     *)
(* its nonce.  The policy digest, bundle bytes and history/ are left out.  *)
(* Every launcher binds the receipt store; completeActivation, the older   *)
(* completion without receipts, then throws before it writes anything.     *)
(***************************************************************************)
EXTENDS Naturals, FiniteSets

CONSTANTS Proc,           \* bootstrap processes
          Review,         \* reviews, each standing for its pin
          Digest,         \* bundle digests
          DigestOf,       \* the bundle a review stages
          Baseline,       \* the review id the installer pins ('migration-v1')
          None,           \* JavaScript's null, or no process
          MaxFaults       \* bound: crashes, write errors, ledger breaks, busy spells

Version ==  Review \cup {None}
Phase   == {"prepared", "previous-written", "active-written",
            "pending-verification", "complete", "rolling-back", "rolled-back"}
State   == [phase : Phase, candidate : Review, previous : Version, prior : Version]

ASSUME ConstantsAssumption ==
  /\ None \notin Proc
  /\ None \notin Review
  /\ None \notin State
  /\ DigestOf \in [Review -> Digest]
  /\ Baseline \in Review
  /\ MaxFaults \in Nat

VARIABLES
  \* durable, under runtime/
  active, previous,       \* active/pin.json, previous/pin.json
  rec,                    \* recovery-state.json, None when absent
  versions,               \* versions/<digest>
  installed,              \* installations/<reviewId>.json
  decisions,              \* decisions/<hash>.json, created O_EXCL
  witness,                \* completions/<hash>.json
  \* durable, under review-receipts/
  activated,              \* reviews with a published 'activated' receipt
  custody,                \* what verifyChain answers
  \* volatile, one store object per process
  pending, recovered,     \* #pending, #recovered
  mode,                   \* the process around the store
  serving, refreshed,     \* the child it owns; 'refreshed' of host.js
  resolved,               \* a resolve*Host answer not yet spawned
  lease,                  \* what the coordinator's transition lease is doing
  stale,                  \* panels whose #tail another panel's receipt has passed
  \* the kernel lock and the call that holds it
  holder, step, call,
  faults

durable  == <<active, previous, rec, versions, installed, decisions, witness>>
ledger   == <<activated, custody>>
panel    == <<resolved, lease, stale>>
memory   == <<pending, recovered, mode, serving, refreshed, panel>>
lock     == <<holder, step, call>>
outside  == <<faults>>
vars     == <<durable, ledger, memory, lock, outside>>

\* "recover" is the host's own recovery, when it starts or closes
Op       == {"none", "install", "activate", "rollback", "recover", "complete"}
Step     == {"idle", "record", "consume", "prepare", "write-previous",
             "mark-previous", "write-active", "mark-active", "mark-pending",
             "restore-previous", "restore-active", "mark-rolled-back",
             "publish", "mark-complete"}
Call     == [op : Op, review : Version, base : Version, prior : Version]
NoCall   == [op |-> "none", review |-> None, base |-> None, prior |-> None]
\* A lease tries a review ("tried" once it has refreshed the runtime); giving
\* up is one rollback and, if that throws, one recover; a coordinator that
\* halted does neither.
Lease    == [review : Version,
             at : {"none", "trial", "tried", "giving-up", "fallback", "halted"}]
NoLease  == [review |-> None, at |-> "none"]

TypeOK ==
  /\ active \in Version /\ previous \in Version
  /\ rec \in State \cup {None}
  /\ versions \subseteq Digest
  /\ installed \subseteq Review /\ decisions \subseteq Review
  /\ witness \subseteq Review /\ activated \subseteq Review
  /\ custody \in {"intact", "busy", "broken"}
  /\ pending \in [Proc -> Version] /\ recovered \in [Proc -> Version]
  /\ mode \in [Proc -> {"down", "starting", "up", "closing"}]
  /\ serving \in [Proc -> Version] /\ refreshed \in [Proc -> BOOLEAN]
  /\ resolved \in [Proc -> Version] /\ lease \in [Proc -> Lease] /\ stale \subseteq Proc
  /\ holder \in Proc \cup {None} /\ step \in Step /\ call \in Call
  /\ faults \in 0 .. MaxFaults

(***************************************************************************)
(* What the code computes from the files.                                  *)
(***************************************************************************)
\* recoverInterruptedActivation(state).action === 'none'
Settled == rec # None => rec.phase \in {"complete", "rolled-back"}
\* A journal that names r as its pending candidate
PendingOn(r) == rec # None /\ rec.phase = "pending-verification" /\ rec.candidate = r
\* #assertActiveState
Expected == IF rec = None THEN None
            ELSE IF rec.phase = "rolled-back" THEN rec.previous ELSE rec.candidate
\* #committedCompletion answers only from an intact chain
CustodyReadable == custody = "intact"
\* #committedCompletion found the canonical receipt of the journal's candidate
Committed == rec.candidate \in activated
WitnessHeld == rec.candidate \in witness /\ rec.candidate \in decisions
\* #recoveryBinding: the decision still binds the pending journal and its pins.
\* Its clock is left out: a decision that expired is a call that fails.
BindingHolds(r) ==
  /\ PendingOn(r)
  /\ active = r /\ previous = rec.previous
  /\ r \in installed /\ r \in decisions
\* What rollback asks of the journal before it restores the pins
MayRollback(r) ==
  rec # None /\ rec.phase # "rolled-back" /\ rec.candidate = r /\ CustodyReadable /\ ~Committed
\* recover throws: no answer from the ledger, or a commit it cannot reconcile
RecoverThrows ==
  rec # None /\ (CustodyReadable => Committed /\ ~(WitnessHeld /\ active = rec.candidate))
\* bindRuntimeGuard (host.js): this live process owns the refreshed candidate
OwnsRuntime(p, r) == mode[p] = "up" /\ serving[p] = r /\ refreshed[p]

Free     == holder = None
Running(p) == mode[p] \in {"up", "closing"}
\* The lease's calls follow one another
Trying(p, r, at) == Running(p) /\ lease[p] = [review |-> r, at |-> at] /\ resolved[p] = None
\* A lease that goes on, or ends: with nothing to do, or halted
Now(p, at) == lease' = [lease EXCEPT ![p] =
                 [review |-> IF at \in {"none", "halted"} THEN None ELSE @.review, at |-> at]]
\* #integrity would halt this coordinator
Broken(p) == custody # "intact" \/ p \in stale
\* A receipt of p passes the tail the other panels remember; one halted stays so
Appends(p) == stale' = stale \cup {q \in Proc \ {p} : mode[q] # "down" /\ lease[q].at # "halted"}
Over(p) == lease[p].at \in {"none", "halted"}
\* A call of the lease throws.  The coordinator records the failure and gives the
\* activation up, unless its own receipts can no longer be written: it halts.
Fails(p) == IF Broken(p) THEN Now(p, "halted") /\ UNCHANGED stale
                         ELSE Now(p, "giving-up") /\ Appends(p)
Take(p, op, r, s) ==
  /\ holder' = p /\ step' = s
  /\ call' = [NoCall EXCEPT !.op = op, !.review = r]
Release  == holder' = None /\ step' = "idle" /\ call' = NoCall
Goto(s)  == step' = s /\ UNCHANGED <<holder, call>>
Mark(ph) == rec' = [rec EXCEPT !.phase = ph]
\* A process that ends forgets its coordinator
EndOfPanel(p) ==
  /\ mode' = [mode EXCEPT ![p] = "down"]
  /\ resolved' = [resolved EXCEPT ![p] = None]
  /\ lease' = [lease EXCEPT ![p] = NoLease]
  /\ stale' = stale \ {p}
\* What the caller does once store.recover has returned: runBootstrap goes on,
\* close is done, a lease that fell back on it ends.
AfterRecovery(p) ==
  IF ~Over(p) THEN Now(p, "none") /\ UNCHANGED <<mode, resolved, stale>>
  ELSE IF mode[p] = "closing" THEN EndOfPanel(p)
  ELSE mode' = [mode EXCEPT ![p] = "up"] /\ UNCHANGED panel
Forget(p) ==
  /\ pending' = [pending EXCEPT ![p] = None]
  /\ recovered' = [recovered EXCEPT ![p] = None]

-----------------------------------------------------------------------------
(***************************************************************************)
(* Mistakes the code could have made, each a variant of the action it      *)
(* names; the specification uses none of them.                             *)
(***************************************************************************)
\* RecoverInterrupted not asking for a published receipt first
RecoverInterruptedBlind(p) ==
  /\ Free /\ mode[p] # "down" /\ ~Settled /\ CustodyReadable
  /\ Mark("rolling-back")
  /\ Take(p, IF mode[p] = "up" THEN "rollback" ELSE "recover", rec.candidate, "restore-previous")
  /\ UNCHANGED <<active, previous, versions, installed, decisions, witness, ledger, memory, outside>>

\* CompletionCancelled going on to mark the journal
CompletionCancelledMarks(p) ==
  /\ holder = p /\ step = "publish"
  /\ Mark("complete") /\ Release
  /\ UNCHANGED <<active, previous, versions, installed, decisions, witness, ledger, memory, outside>>

\* ResolvePendingHost trusting the journal alone
ResolvePendingOfAnyone(p, r) ==
  /\ Trying(p, r, "trial")
  /\ PendingOn(r) /\ active = r
  /\ mode[p] = "up" /\ Free /\ serving[p] = None
  /\ resolved' = [resolved EXCEPT ![p] = r]
  /\ Now(p, "tried")
  /\ UNCHANGED <<durable, ledger, pending, recovered, mode, serving, refreshed, stale, lock, outside>>

\* PublishReceipt without the commit guard
PublishUnguarded(p) ==
  /\ holder = p /\ step = "publish" /\ custody = "intact"
  /\ activated' = activated \cup {call.review}
  /\ Goto("mark-complete")
  /\ UNCHANGED <<custody, durable, memory, outside>>

\* ConsumeDecision overwriting instead of creating exclusively
ConsumeAgain(p) ==
  /\ holder = p /\ step = "consume"
  /\ decisions' = decisions \cup {call.review}
  /\ Goto("prepare")
  /\ UNCHANGED <<active, previous, rec, versions, installed, witness, ledger, memory, outside>>

\* TrialFails rethrowing the error without giving the activation up
TrialFailsQuietly(p) ==
  /\ lease[p].at \in {"trial", "tried"} /\ resolved[p] = None /\ holder # p
  /\ Now(p, "none")
  /\ UNCHANGED <<durable, ledger, pending, recovered, mode, serving, refreshed, resolved, stale, lock, outside>>

-----------------------------------------------------------------------------
\* The installer writes one completed baseline.
Init ==
  /\ active = Baseline
  /\ rec = [phase |-> "complete", candidate |-> Baseline, previous |-> None, prior |-> None]
  /\ versions = {DigestOf[Baseline]} /\ installed = {Baseline}
  /\ previous = None /\ decisions = {} /\ witness = {} /\ activated = {} /\ custody = "intact"
  /\ pending = [p \in Proc |-> None] /\ recovered = [p \in Proc |-> None]
  /\ mode = [p \in Proc |-> "down"]
  /\ serving = [p \in Proc |-> None] /\ refreshed = [p \in Proc |-> FALSE]
  /\ resolved = [p \in Proc |-> None] /\ lease = [p \in Proc |-> NoLease] /\ stale = {}
  /\ holder = None /\ step = "idle" /\ call = NoCall
  /\ faults = 0

-----------------------------------------------------------------------------
(***************************************************************************)
(* The coordinator's transition lease.  acceptReview, or a restarted       *)
(* panel's resumePendingActivation, takes it for one review, after its own *)
(* receipts; the host's queue lets nothing else move the runtime meanwhile.*)
(***************************************************************************)
Undertake(p, r) ==
  /\ mode[p] = "up" /\ lease[p].at = "none" /\ resolved[p] = None
  /\ r \notin activated /\ r # Baseline
  /\ ~Broken(p)
  /\ lease' = [lease EXCEPT ![p] = [review |-> r, at |-> "trial"]]
  /\ Appends(p)
  /\ UNCHANGED <<durable, ledger, pending, recovered, mode, serving, refreshed, resolved, lock, outside>>

\* A deadline, the candidate's runtime, or evidence that does not hold.
TrialFails(p) ==
  /\ lease[p].at \in {"trial", "tried"} /\ resolved[p] = None /\ holder # p
  /\ Fails(p)
  /\ UNCHANGED <<durable, ledger, pending, recovered, mode, serving, refreshed, resolved, lock, outside>>

\* #rollback asks for integrity before it stops the candidate, and again after.
GivingUpHalts(p) ==
  /\ lease[p].at = "giving-up" /\ holder # p /\ Broken(p)
  /\ Now(p, "halted")
  /\ UNCHANGED <<durable, ledger, pending, recovered, mode, serving, refreshed, resolved, stale, lock, outside>>

\* rollback threw: the journal is of another review or settled, the ledger not
\* readable, or the lock held for 15 s.  The lease falls back on recover.
RollbackRefused(p) ==
  /\ lease[p].at = "giving-up" /\ serving[p] = None
  /\ \/ holder \notin {None, p}
     \/ Free /\ ~MayRollback(lease[p].review)
  /\ Now(p, "fallback")
  /\ UNCHANGED <<durable, ledger, pending, recovered, mode, serving, refreshed, resolved, stale, lock, outside>>

\* recover threw as well: custody-broken.
FallbackRefused(p) ==
  /\ lease[p].at = "fallback"
  /\ holder \notin {None, p} \/ (Free /\ RecoverThrows)
  /\ Now(p, "halted")
  /\ UNCHANGED <<durable, ledger, pending, recovered, mode, serving, refreshed, resolved, stale, lock, outside>>

-----------------------------------------------------------------------------
(* installVersion: verified bytes first, then the installation record. *)
Install(p, r) ==
  /\ Trying(p, r, "trial") /\ Free /\ r \notin installed
  /\ versions' = versions \cup {DigestOf[r]}
  /\ Take(p, "install", r, "record")
  /\ UNCHANGED <<active, previous, rec, installed, decisions, witness>>
  /\ UNCHANGED <<ledger, memory, outside>>

RecordInstallation(p) ==
  /\ holder = p /\ step = "record"
  /\ installed' = installed \cup {call.review}
  /\ Release
  /\ UNCHANGED <<active, previous, rec, versions, decisions, witness>>
  /\ UNCHANGED <<ledger, memory, outside>>

(***************************************************************************)
(* activate.  Both pins are read before the awaited decision consumer and  *)
(* written from those values after it.                                     *)
(***************************************************************************)
BeginActivate(p, r) ==
  /\ Trying(p, r, "trial") /\ Free
  /\ Settled
  /\ r \in installed /\ DigestOf[r] \in versions
  /\ active = Expected
  /\ active # None => DigestOf[active] # DigestOf[r]
  /\ holder' = p /\ step' = "consume"
  /\ call' = [op |-> "activate", review |-> r, base |-> active, prior |-> previous]
  /\ UNCHANGED <<durable, ledger, memory, outside>>

\* The consumer approved; decisions/<hash>.json is created exclusively.
ConsumeDecision(p) ==
  /\ holder = p /\ step = "consume"
  /\ call.review \notin decisions
  /\ decisions' = decisions \cup {call.review}
  /\ Goto("prepare")
  /\ UNCHANGED <<active, previous, rec, versions, installed, witness>>
  /\ UNCHANGED <<ledger, memory, outside>>

\* The consumer refused, or the decision was consumed before.
RefuseDecision(p) ==
  /\ holder = p /\ step = "consume"
  /\ Release /\ Fails(p)
  /\ UNCHANGED <<durable, ledger, pending, recovered, mode, serving, refreshed, resolved, outside>>

Prepare(p) ==
  /\ holder = p /\ step = "prepare"
  /\ rec' = [phase |-> "prepared", candidate |-> call.review,
             previous |-> call.base, prior |-> call.prior]
  /\ Goto("write-previous")
  /\ UNCHANGED <<active, previous, versions, installed, decisions, witness>>
  /\ UNCHANGED <<ledger, memory, outside>>

WritePrevious(p) ==
  /\ holder = p /\ step = "write-previous"
  /\ previous' = call.base
  /\ Goto("mark-previous")
  /\ UNCHANGED <<active, rec, versions, installed, decisions, witness>>
  /\ UNCHANGED <<ledger, memory, outside>>

MarkPrevious(p) ==
  /\ holder = p /\ step = "mark-previous"
  /\ Mark("previous-written")
  /\ Goto("write-active")
  /\ UNCHANGED <<active, previous, versions, installed, decisions, witness>>
  /\ UNCHANGED <<ledger, memory, outside>>

WriteActive(p) ==
  /\ holder = p /\ step = "write-active"
  /\ active' = call.review
  /\ Goto("mark-active")
  /\ UNCHANGED <<previous, rec, versions, installed, decisions, witness>>
  /\ UNCHANGED <<ledger, memory, outside>>

MarkActive(p) ==
  /\ holder = p /\ step = "mark-active"
  /\ Mark("active-written")
  /\ Goto("mark-pending")
  /\ UNCHANGED <<active, previous, versions, installed, decisions, witness>>
  /\ UNCHANGED <<ledger, memory, outside>>

MarkPending(p) ==
  /\ holder = p /\ step = "mark-pending"
  /\ Mark("pending-verification")
  /\ pending' = [pending EXCEPT ![p] = call.review]
  /\ Release
  /\ UNCHANGED <<active, previous, versions, installed, decisions, witness>>
  /\ UNCHANGED <<recovered, mode, serving, refreshed, panel, ledger, outside>>

(***************************************************************************)
(* rollback and the private #rollback it shares with recover.              *)
(***************************************************************************)
BeginRollback(p, r) ==
  /\ Trying(p, r, "giving-up") /\ Free
  /\ serving[p] = None
  /\ MayRollback(r)
  /\ Mark("rolling-back")
  /\ Take(p, "rollback", r, "restore-previous")
  /\ UNCHANGED <<active, previous, versions, installed, decisions, witness>>
  /\ UNCHANGED <<ledger, memory, outside>>

RestorePrevious(p) ==
  /\ holder = p /\ step = "restore-previous"
  /\ previous' = rec.previous
  /\ Goto("restore-active")
  /\ UNCHANGED <<active, rec, versions, installed, decisions, witness>>
  /\ UNCHANGED <<ledger, memory, outside>>

RestoreActive(p) ==
  /\ holder = p /\ step = "restore-active"
  /\ active' = rec.previous
  /\ Goto("mark-rolled-back")
  /\ UNCHANGED <<previous, rec, versions, installed, decisions, witness>>
  /\ UNCHANGED <<ledger, memory, outside>>

MarkRolledBack(p) ==
  /\ holder = p /\ step = "mark-rolled-back"
  /\ Mark("rolled-back")
  /\ pending' = [pending EXCEPT ![p] = None]
  /\ IF call.op = "recover" \/ ~Over(p) THEN AfterRecovery(p) ELSE UNCHANGED <<mode, panel>>
  /\ Release
  /\ UNCHANGED <<active, previous, versions, installed, decisions, witness>>
  /\ UNCHANGED <<recovered, serving, refreshed, ledger, outside>>

(***************************************************************************)
(* recover: on startup; when the panel closes, after the lease has ended   *)
(* and the child is reaped; when a rollback of the lease threw; and by a   *)
(* coordinator that finds its review activated.                            *)
(***************************************************************************)
MayRecover(p) ==
  /\ Free /\ mode[p] # "down"
  /\ Over(p) \/ lease[p].at = "fallback"
  /\ (mode[p] = "closing" /\ Over(p)) => serving[p] = None
  /\ (mode[p] = "up" /\ Over(p)) =>
       lease[p].at = "none" /\ (pending[p] = None \/ pending[p] \in activated)

RecoverCommitted(p) ==
  /\ MayRecover(p) /\ rec # None
  /\ CustodyReadable /\ Committed /\ WitnessHeld
  /\ active = rec.candidate
  /\ Mark("complete")
  /\ Forget(p) /\ AfterRecovery(p)
  /\ UNCHANGED <<active, previous, versions, installed, decisions, witness>>
  /\ UNCHANGED <<serving, refreshed, ledger, lock, outside>>

RecoverSettled(p) ==
  /\ MayRecover(p) /\ Settled
  /\ rec # None => CustodyReadable /\ ~Committed
  /\ AfterRecovery(p)
  /\ UNCHANGED <<durable, ledger, pending, recovered, serving, refreshed, lock, outside>>

RecoverInterrupted(p) ==
  /\ MayRecover(p) /\ ~Settled
  /\ CustodyReadable /\ ~Committed
  /\ Mark("rolling-back")
  /\ Take(p, IF mode[p] = "up" THEN "rollback" ELSE "recover", rec.candidate, "restore-previous")
  /\ UNCHANGED <<active, previous, versions, installed, decisions, witness>>
  /\ UNCHANGED <<ledger, memory, outside>>

\* A startup or a close whose recover throws, or that waited 15 s for the lock
\* while another process held it (withRuntimeLock), ends the process.
RecoverRefused(p) ==
  /\ mode[p] \in {"starting", "closing"} /\ serving[p] = None /\ Over(p)
  /\ holder \notin {None, p} \/ (Free /\ RecoverThrows)
  /\ Forget(p) /\ EndOfPanel(p)
  /\ UNCHANGED <<durable, ledger, serving, refreshed, lock, outside>>

(***************************************************************************)
(* resumePendingActivation: a restarted process adopts a pending           *)
(* activation, on startup (runBootstrap's resumeActivation) or in a lease. *)
(***************************************************************************)
ResumePending(p, r) ==
  /\ Free /\ (mode[p] = "starting" \/ Trying(p, r, "trial"))
  /\ BindingHolds(r)
  /\ pending' = [pending EXCEPT ![p] = r]
  /\ recovered' = [recovered EXCEPT ![p] = r]
  /\ mode' = [mode EXCEPT ![p] = IF @ = "starting" THEN "up" ELSE @]
  /\ UNCHANGED <<durable, ledger, serving, refreshed, panel, lock, outside>>

\* The decision expired meanwhile, or its proof does not hold: no startup.
ResumeRefused(p) ==
  /\ Free /\ mode[p] = "starting" /\ \E r \in Review : PendingOn(r)
  /\ Forget(p) /\ EndOfPanel(p)
  /\ UNCHANGED <<durable, ledger, serving, refreshed, lock, outside>>

(***************************************************************************)
(* Which version a process may launch.  The answer is checked under the    *)
(* lock; startProxy spawns it after the lock is given back, when another   *)
(* panel may have moved the journal again.  The lease refreshes once; the  *)
(* first message of a conversation, and restartPrevious, whose lease has   *)
(* nothing left to do here, ask for the active version.                    *)
(***************************************************************************)
Answer(p, r) ==
  /\ mode[p] = "up" /\ Free /\ serving[p] = None /\ resolved[p] = None
  /\ resolved' = [resolved EXCEPT ![p] = r]
  /\ UNCHANGED <<durable, ledger, pending, recovered, mode, serving, refreshed, stale, lock, outside>>

ResolveActiveHost(p) ==
  /\ Over(p)
  /\ Settled \/ PendingOn(pending[p])
  /\ active # None /\ active = Expected
  /\ Answer(p, active) /\ UNCHANGED lease

ResolvePendingHost(p, r) ==
  /\ Trying(p, r, "trial")
  /\ PendingOn(r) /\ pending[p] = r /\ active = r
  /\ Answer(p, r) /\ Now(p, "tried")

ResolveRecoveredHost(p, r) ==
  /\ Trying(p, r, "trial")
  /\ recovered[p] = r /\ pending[p] = r /\ BindingHolds(r)
  /\ Answer(p, r) /\ Now(p, "tried")

\* startProxy; 'refreshed' names the child a lease has put there.
Launch(p) ==
  /\ mode[p] = "up" /\ resolved[p] # None
  /\ serving' = [serving EXCEPT ![p] = resolved[p]]
  /\ refreshed' = [refreshed EXCEPT ![p] = lease[p].at = "tried"]
  /\ resolved' = [resolved EXCEPT ![p] = None]
  /\ UNCHANGED <<durable, ledger, pending, recovered, mode, lease, stale, lock, outside>>

(***************************************************************************)
(* #completeReviewed, reached from completeReviewedActivation and          *)
(* completeRecoveredActivation: witness, then receipt, then journal.  A    *)
(* witness already there has to be the same bytes, which is left open.     *)
(***************************************************************************)
BeginComplete(p, r) ==
  /\ Trying(p, r, "tried") /\ Free
  /\ pending[p] = r
  /\ BindingHolds(r)
  /\ OwnsRuntime(p, r)
  /\ witness' = witness \cup {r}
  /\ Take(p, "complete", r, "publish")
  /\ UNCHANGED <<active, previous, rec, versions, installed, decisions>>
  /\ UNCHANGED <<ledger, memory, outside>>

\* withCommitGuard: ownership is asked again in the very step that publishes.
\* A receipt that does not follow the coordinator's own tail halts it.
PublishReceipt(p) ==
  /\ holder = p /\ step = "publish"
  /\ custody = "intact"
  /\ call.review \in activated \/ OwnsRuntime(p, call.review)
  /\ activated' = activated \cup {call.review}
  /\ IF p \in stale THEN Release /\ Now(p, "halted")
                     ELSE Goto("mark-complete") /\ UNCHANGED lease
  /\ Appends(p)
  /\ UNCHANGED <<custody, durable, pending, recovered, mode, serving, refreshed, resolved, outside>>

\* Cancelled by the guard, refused by the ledger, or the finalizer failed,
\* which halts the coordinator.
CompletionCancelled(p) ==
  /\ holder = p /\ step = "publish"
  /\ Release
  /\ Fails(p) \/ (Now(p, "halted") /\ UNCHANGED stale)
  /\ UNCHANGED <<durable, ledger, pending, recovered, mode, serving, refreshed, resolved, outside>>

MarkComplete(p) ==
  /\ holder = p /\ step = "mark-complete"
  /\ custody = "intact" /\ call.review \in activated
  /\ Mark("complete")
  /\ Forget(p) /\ Now(p, "none")
  /\ Release
  /\ UNCHANGED <<active, previous, versions, installed, decisions, witness>>
  /\ UNCHANGED <<mode, serving, refreshed, resolved, stale, ledger, outside>>

\* The published receipt could not be read back; the review is activated all
\* the same, and nothing is given up.
CompletionUnread(p) ==
  /\ holder = p /\ step = "mark-complete" /\ custody # "intact"
  /\ Release /\ Now(p, "none")
  /\ UNCHANGED <<durable, ledger, pending, recovered, mode, serving, refreshed, resolved, stale, outside>>

-----------------------------------------------------------------------------
(* The process around the store (runBootstrap), and what can go wrong. *)
Start(p) ==
  /\ mode[p] = "down"
  /\ mode' = [mode EXCEPT ![p] = "starting"]
  /\ Forget(p)
  /\ UNCHANGED <<durable, ledger, serving, refreshed, panel, lock, outside>>

\* The child is stopped or exits; whoever asks next is no longer its owner.
StopRuntime(p) ==
  /\ serving[p] # None
  /\ serving' = [serving EXCEPT ![p] = None]
  /\ refreshed' = [refreshed EXCEPT ![p] = FALSE]
  /\ UNCHANGED <<durable, ledger, pending, recovered, mode, panel, lock, outside>>

\* close: 'stopped' is latched at once and an answer not yet spawned is dropped;
\* the recovery waits for the queue.
Close(p) ==
  /\ mode[p] = "up"
  /\ mode' = [mode EXCEPT ![p] = "closing"]
  /\ refreshed' = [refreshed EXCEPT ![p] = FALSE]
  /\ resolved' = [resolved EXCEPT ![p] = None]
  /\ UNCHANGED <<durable, ledger, pending, recovered, serving, lease, stale, lock, outside>>

Fault == faults < MaxFaults /\ faults' = faults + 1

\* The process dies: its memory is gone and the kernel frees its lock.
Crash(p) ==
  /\ mode[p] # "down" /\ Fault
  /\ Forget(p) /\ EndOfPanel(p)
  /\ serving' = [serving EXCEPT ![p] = None]
  /\ refreshed' = [refreshed EXCEPT ![p] = FALSE]
  /\ IF holder = p THEN Release ELSE UNCHANGED lock
  /\ UNCHANGED <<durable, ledger>>

\* A read, write or verification throws: the call ends where it stands.  In the
\* lease a rollback that throws is followed by recover, and that by nothing; once
\* the review is activated nothing is given up.  Outside it, a recovery of a
\* startup or of a close that throws ends the process.
OperationFails(p) ==
  /\ holder = p /\ Fault
  /\ Release
  /\ CASE Over(p) /\ call.op = "recover" -> EndOfPanel(p)
       [] Over(p) /\ call.op # "recover" -> UNCHANGED <<mode, panel>>
       [] step = "mark-complete" -> Now(p, "none") /\ UNCHANGED <<mode, resolved, stale>>
       [] lease[p].at \in {"trial", "tried"} /\ step # "mark-complete" ->
            Fails(p) /\ UNCHANGED <<mode, resolved>>
       [] lease[p].at = "giving-up" -> Now(p, "fallback") /\ UNCHANGED <<mode, resolved, stale>>
       [] lease[p].at = "fallback" -> Now(p, "halted") /\ UNCHANGED <<mode, resolved, stale>>
  /\ UNCHANGED <<durable, ledger, pending, recovered, serving, refreshed>>

\* Another append or verification holds .append-lock for a while.
LedgerBusy ==
  /\ custody = "intact" /\ Fault
  /\ custody' = "busy"
  /\ UNCHANGED <<durable, activated, memory, lock>>

LedgerFree ==
  /\ custody = "busy" /\ custody' = "intact"
  /\ UNCHANGED <<durable, activated, memory, lock, outside>>

\* A broken chain, or an .append-lock nobody will remove.
LedgerBreaks ==
  /\ custody # "broken" /\ Fault
  /\ custody' = "broken"
  /\ UNCHANGED <<durable, activated, memory, lock>>

-----------------------------------------------------------------------------
\* The rest of a call that holds the lock
Advance(p) ==
  \/ RecordInstallation(p)
  \/ ConsumeDecision(p) \/ RefuseDecision(p)
  \/ Prepare(p) \/ WritePrevious(p) \/ MarkPrevious(p)
  \/ WriteActive(p) \/ MarkActive(p) \/ MarkPending(p)
  \/ RestorePrevious(p) \/ RestoreActive(p) \/ MarkRolledBack(p)
  \/ PublishReceipt(p) \/ CompletionCancelled(p)
  \/ MarkComplete(p) \/ CompletionUnread(p)

Recover(p) ==
  \/ RecoverCommitted(p) \/ RecoverSettled(p) \/ RecoverInterrupted(p)
  \/ RecoverRefused(p)

\* The end of a lease that failed
GiveUp(p) ==
  \/ GivingUpHalts(p) \/ RollbackRefused(p) \/ FallbackRefused(p)
  \/ \E r \in Review : BeginRollback(p, r)

Operate(p, r) ==
  \/ Undertake(p, r) \/ Install(p, r) \/ BeginActivate(p, r)
  \/ ResumePending(p, r) \/ ResolvePendingHost(p, r) \/ ResolveRecoveredHost(p, r)
  \/ BeginComplete(p, r)

Process(p) ==
  \/ Advance(p) \/ Recover(p) \/ ResolveActiveHost(p) \/ Launch(p)
  \/ TrialFails(p) \/ GiveUp(p) \/ ResumeRefused(p)
  \/ Start(p) \/ StopRuntime(p) \/ Close(p) \/ Crash(p) \/ OperationFails(p)
  \/ \E r \in Review : Operate(p, r)

Environment == LedgerBusy \/ LedgerFree \/ LedgerBreaks

Next == (\E p \in Proc : Process(p)) \/ Environment

Spec == Init /\ [][Next]_vars

(***************************************************************************)
(* Fairness.  A running call goes on, and an answer is spawned;            *)
(* runBootstrap awaits its recovery and close reaps the child, then        *)
(* recovers, and the lock's 15 s timer ends the wait if others keep taking *)
(* it; a lease that has not completed its review fails, by its deadlines,  *)
(* and then stops the candidate and rolls back once, or halts.  Nobody has *)
(* to open a panel, press a button, or close one.                          *)
(***************************************************************************)
Fairness ==
  \A p \in Proc :
    /\ WF_vars(Advance(p)) /\ WF_vars(Launch(p))
    /\ WF_vars(TrialFails(p))
    /\ WF_vars(lease[p].at = "giving-up" /\ StopRuntime(p))
    /\ WF_vars(GiveUp(p) \/ (lease[p].at = "fallback" /\ Recover(p)))
    /\ WF_vars(mode[p] \in {"starting", "closing"} /\ Recover(p))
    /\ WF_vars(mode[p] = "closing" /\ Over(p) /\ StopRuntime(p))

LiveSpec == Spec /\ Fairness

-----------------------------------------------------------------------------
(***************************************************************************)
(* Properties                                                              *)
(***************************************************************************)
\* In every phase of the journal the two pin files hold what the next
\* recovery assumes: before the swap the old pins, from active-written on the
\* candidate with its predecessor, after a rollback the predecessor twice.  A
\* crash at any write leaves one of these (activate, #rollback, recover).
PinsAgree ==
  IF rec = None THEN active = None /\ previous = None
  ELSE LET old == {rec.previous} IN
    CASE rec.phase = "prepared" ->
           active \in old /\ previous \in old \cup {rec.prior}
      [] rec.phase = "previous-written" ->
           active \in old \cup {rec.candidate} /\ previous \in old
      [] rec.phase \in {"active-written", "pending-verification", "complete"} ->
           active = rec.candidate /\ previous \in old
      [] rec.phase = "rolling-back" ->
           /\ active \in old \cup {rec.candidate}
           /\ previous \in old \cup {rec.prior}
      [] rec.phase = "rolled-back" ->
           active \in old /\ previous \in old

\* Once the 'activated' receipt of the journal's candidate is published no
\* crash, second panel or late rollback takes that version away again.
CommittedIsKept ==
  rec # None /\ Committed =>
    /\ rec.phase \in {"pending-verification", "complete"}
    /\ active = rec.candidate

\* The version a recovery would fall back to, or keep
Stable == IF rec = None THEN None
          ELSE IF rec.phase = "complete" \/ Committed THEN rec.candidate
          ELSE rec.previous

\* Whatever recovery would leave active is the installed baseline or carries an
\* 'activated' receipt: nothing unreviewed ever becomes the version that is
\* kept or restored.
StableIsReceipted == Stable \in activated \cup {Baseline}

\* A published receipt is backed by a durable witness and a consumed decision
\* for an installed bundle, else recover could never reconcile it.
ReceiptIsBacked ==
  \A r \in activated : r \in witness /\ r \in decisions /\ DigestOf[r] \in versions

\* Another panel may move the journal between the answer of resolve*Host and
\* the spawn, yet a process launches only an accepted version, the baseline or
\* one with an 'activated' receipt, or the candidate whose activation it
\* performed or adopted itself and whose decision is consumed: never one that
\* another panel tries, nor one nobody accepted.
LaunchIsAuthorised ==
  [][\A p \in Proc : serving'[p] \notin {serving[p], None} =>
       \/ serving'[p] \in activated \cup {Baseline}
       \/ pending[p] = serving'[p] /\ pending[p] \in decisions]_vars

\* The stricter reading, that the version is authorised at the spawn itself, is
\* false: another panel's recovery can roll the candidate back in between.
LaunchIsCurrent ==
  [][\A p \in Proc : serving'[p] \notin {serving[p], None} =>
       serving'[p] = Stable \/ PendingOn(serving'[p])]_vars

\* The receipt is published only by a live process that still owns the
\* candidate runtime, with the candidate pinned: a panel closed or rolled back
\* between the first ownership check and the commit gets no receipt.
PublishedByOwner ==
  [][\A r \in activated' \ activated :
       /\ PendingOn(r) /\ active = r
       /\ \E p \in Proc : holder = p /\ pending[p] = r /\ OwnsRuntime(p, r)]_vars

\* An activation that a panel has under way does not stay undecided: it is
\* completed, or given up within the one rollback and the one recover its lease
\* tries, unless the coordinator halts or the panel ends.  (A published receipt
\* whose journal write failed waits for the next recovery.)
PendingIsDecided ==
  \A p \in Proc :
    (lease[p].review # None /\ PendingOn(lease[p].review))
      ~> (Settled \/ Committed \/ lease[p].at = "halted" \/ mode[p] = "down")

\* The journal implements the contract: files, locks and crashes do not show.
Contract == INSTANCE ActivationContract WITH
  good    <- Stable,
  trial   <- IF Settled \/ Committed THEN None ELSE rec.candidate,
  spent   <- decisions,
  granted <- IF step = "prepare" THEN {call.review} ELSE {}
ContractKept == Contract!Spec

\* "A chain break blocks future refreshes while allowing the currently pinned
\* version to keep operating": with no activation unsettled, a broken chain
\* does not keep a panel from starting.
BrokenChainStillServes ==
  [][\A p \in Proc : custody = "broken" /\ Settled /\ Free
       => ~(mode[p] = "starting" /\ mode'[p] = "down")]_vars

-----------------------------------------------------------------------------
(***************************************************************************)
(* The inductive invariant behind the safety properties: what each step of *)
(* a call that holds the lock relies on, and what the journal's phase says *)
(* of the receipts.                                                        *)
(***************************************************************************)
\* The journal activate has written for its call
Journal(ph) == rec = [phase |-> ph, candidate |-> call.review,
                      previous |-> call.base, prior |-> call.prior]

StepsFit ==
  /\ holder = None <=> step = "idle"
  /\ step = "record" => DigestOf[call.review] \in versions /\ call.review \in Review
  /\ step \in {"consume", "prepare"} =>
       /\ call.review \in Review
       /\ Settled /\ active = Expected
       /\ call.base = active /\ call.prior = previous
  /\ step = "prepare" => call.review \in decisions /\ call.review \notin activated
  /\ step = "write-previous" =>
       Journal("prepared") /\ active = call.base /\ previous = call.prior
  /\ step = "mark-previous" =>
       Journal("prepared") /\ active = call.base /\ previous = call.base
  /\ step = "write-active" =>
       Journal("previous-written") /\ active = call.base /\ previous = call.base
  /\ step = "mark-active" =>
       Journal("previous-written") /\ active = call.review /\ previous = call.base
  /\ step = "mark-pending" =>
       Journal("active-written") /\ active = call.review /\ previous = call.base
  /\ step \in {"restore-previous", "restore-active", "mark-rolled-back"} =>
       rec # None /\ rec.phase = "rolling-back"
  /\ step \in {"restore-active", "mark-rolled-back"} => previous = rec.previous
  /\ step = "mark-rolled-back" => active = rec.previous
  /\ step \in {"publish", "mark-complete"} =>
       /\ PendingOn(call.review)
       /\ call.review \in witness /\ call.review \in decisions
       /\ DigestOf[call.review] \in versions
  /\ step = "mark-complete" => call.review \in activated

\* A candidate that is not yet pinned, or is being given up, has no receipt.
UndecidedHasNoReceipt ==
  /\ rec # None /\ rec.phase \notin {"pending-verification", "complete"}
       => rec.candidate \notin activated
  /\ rec # None

InstalledHasBytes == \A r \in installed : DigestOf[r] \in versions

\* Pins, journal, receipts and the running call agree in every reachable state:
\* each durable write of activate, rollback, recover and completion is made
\* from a state that says what the next one may assume.
Inductive ==
  /\ StepsFit
  /\ PinsAgree
  /\ UndecidedHasNoReceipt
  /\ StableIsReceipted
  /\ ReceiptIsBacked
  /\ InstalledHasBytes
=============================================================================
