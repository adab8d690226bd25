-------------------------- MODULE VersionStoreProofs --------------------------
(* Proofs about VersionStore, for every set of processes, reviews, digests *)
(* and every number of faults.                                             *)
EXTENDS VersionStore, TLAPS

USE ConstantsAssumption

-------------------------------------------------------------------------------
(* What the helpers of the model do to the journal and to the lock. *)

LEMMA MarkEffect ==
  ASSUME TypeOK, rec # None, NEW ph \in Phase, Mark(ph)
  PROVE  /\ rec' \in State /\ rec' # None
         /\ rec' = [phase |-> ph, candidate |-> rec.candidate,
                    previous |-> rec.previous, prior |-> rec.prior]
  BY DEF TypeOK, Mark, State

LEMMA TakeEffect ==
  ASSUME NEW p \in Proc, NEW op \in Op, NEW r \in Review, NEW s \in Step, Take(p, op, r, s)
  PROVE  /\ holder' = p /\ step' = s
         /\ call' \in Call /\ call'.review = r
  BY DEF Take, Call, NoCall, Version

LEMMA ReleaseEffect ==
  ASSUME Release
  PROVE  holder' = None /\ step' = "idle" /\ call' \in Call
  BY DEF Release, NoCall, Call, Op, Version

LEMMA FaultEffect ==
  ASSUME TypeOK, Fault
  PROVE  faults' \in 0 .. MaxFaults
  BY DEF TypeOK, Fault

LEMMA ForgetEffect ==
  ASSUME TypeOK, NEW p \in Proc, Forget(p)
  PROVE  pending' \in [Proc -> Version] /\ recovered' \in [Proc -> Version]
  BY DEF TypeOK, Forget, Version

\* Where a lease can stand
Stage == {"none", "trial", "tried", "giving-up", "fallback", "halted"}

LEMMA NowEffect ==
  ASSUME TypeOK, NEW p \in Proc, NEW at \in Stage, Now(p, at)
  PROVE  /\ lease' \in [Proc -> Lease] /\ lease'[p].at = at
         /\ \A q \in Proc : q # p => lease'[q] = lease[q]
<1>1. [review |-> IF at \in {"none", "halted"} THEN None ELSE lease[p].review, at |-> at] \in Lease
  BY DEF TypeOK, Lease, Stage, Version
<1> QED
  BY <1>1 DEF TypeOK, Now

LEMMA FailsEffect ==
  ASSUME TypeOK, NEW p \in Proc, Fails(p)
  PROVE  /\ lease' \in [Proc -> Lease] /\ stale' \subseteq Proc
         /\ lease'[p].at \in {"halted", "giving-up"}
         /\ \A q \in Proc : q # p => lease'[q] = lease[q]
<1>1. \E at \in {"halted", "giving-up"} : Now(p, at)
  BY DEF Fails
<1>2. stale' \subseteq Proc
  BY DEF Fails, Appends, TypeOK
<1> QED
  BY <1>1, <1>2, NowEffect DEF Stage

LEMMA EndEffect ==
  ASSUME TypeOK, NEW p \in Proc, EndOfPanel(p)
  PROVE  /\ mode' \in [Proc -> {"down", "starting", "up", "closing"}]
         /\ resolved' \in [Proc -> Version] /\ lease' \in [Proc -> Lease] /\ stale' \subseteq Proc
         /\ resolved'[p] = None /\ lease'[p].at = "none"
         /\ \A q \in Proc : q # p => /\ mode'[q] = mode[q] /\ resolved'[q] = resolved[q]
                                     /\ lease'[q] = lease[q]
<1>1. NoLease \in Lease /\ NoLease.at = "none"
  BY DEF NoLease, Lease, Version
<1> QED
  BY <1>1 DEF TypeOK, EndOfPanel, Version

LEMMA AfterEffect ==
  ASSUME TypeOK, NEW p \in Proc, AfterRecovery(p)
  PROVE  /\ mode' \in [Proc -> {"down", "starting", "up", "closing"}]
         /\ resolved' \in [Proc -> Version] /\ lease' \in [Proc -> Lease] /\ stale' \subseteq Proc
         /\ resolved'[p] \in {resolved[p], None}
         /\ resolved'[p] # None => /\ mode[p] = "up" => mode'[p] = "up"
                                   /\ lease'[p].at \in {"none", lease[p].at}
         /\ \A q \in Proc : q # p => /\ mode'[q] = mode[q] /\ resolved'[q] = resolved[q]
                                     /\ lease'[q] = lease[q]
<1>1. CASE ~Over(p)
  <2>1. Now(p, "none") /\ UNCHANGED <<mode, resolved, stale>>
    BY <1>1 DEF AfterRecovery
  <2> QED
    BY <2>1, NowEffect DEF Stage, TypeOK
<1>2. CASE Over(p) /\ mode[p] = "closing"
  <2>1. EndOfPanel(p)
    BY <1>2 DEF AfterRecovery
  <2> QED
    BY <2>1, EndEffect
<1>3. CASE Over(p) /\ mode[p] # "closing"
  BY <1>3 DEF AfterRecovery, panel, TypeOK
<1> QED
  BY <1>1, <1>2, <1>3

-------------------------------------------------------------------------------
(* Types *)

\* A step that marks the journal has one to mark, and a call has a review.
JournalHeld ==
  /\ step # "idle" => call.review \in Review
  /\ step \in {"write-previous", "mark-previous", "write-active", "mark-active", "mark-pending",
               "restore-previous", "restore-active", "mark-rolled-back",
               "publish", "mark-complete"} => rec # None

Formed == TypeOK /\ JournalHeld

\* Every step of the store leaves its files, memory and lock well formed.
LEMMA FormedStep == Formed /\ [Next]_vars => Formed'
<1> SUFFICES ASSUME Formed, [Next]_vars PROVE Formed'
  OBVIOUS
<1> USE DEF Formed, TypeOK, JournalHeld, durable, ledger, memory, panel, lock, outside
<1>1. CASE UNCHANGED vars
  BY <1>1 DEF vars
<1>2. ASSUME NEW p \in Proc, RecordInstallation(p)
      PROVE  Formed'
  <2>1. holder' = None /\ step' = "idle" /\ call' \in Call
    BY <1>2, ReleaseEffect DEF RecordInstallation
  <2> QED
    BY <1>2, <2>1 DEF RecordInstallation, Step
<1>3. ASSUME NEW p \in Proc, ConsumeDecision(p)
      PROVE  Formed'
  BY <1>3 DEF ConsumeDecision, Goto, Step
<1>4. ASSUME NEW p \in Proc, RefuseDecision(p)
      PROVE  Formed'
  <2>1. holder' = None /\ step' = "idle" /\ call' \in Call
    BY <1>4, ReleaseEffect DEF RefuseDecision
  <2>2. lease' \in [Proc -> Lease] /\ stale' \subseteq Proc
    BY <1>4, FailsEffect DEF RefuseDecision
  <2> QED
    BY <1>4, <2>1, <2>2 DEF RefuseDecision, Step
<1>5. ASSUME NEW p \in Proc, Prepare(p)
      PROVE  Formed'
  <2>1. rec' \in State
    BY <1>5 DEF Prepare, State, Phase, Call
  <2> QED
    BY <1>5, <2>1 DEF Prepare, Goto, Step
<1>6. ASSUME NEW p \in Proc, WritePrevious(p)
      PROVE  Formed'
  BY <1>6 DEF WritePrevious, Goto, Step, Call
<1>7. ASSUME NEW p \in Proc, MarkPrevious(p)
      PROVE  Formed'
  <2>1. rec' \in State
    BY <1>7, MarkEffect DEF MarkPrevious, Phase
  <2> QED
    BY <1>7, <2>1 DEF MarkPrevious, Goto, Step
<1>8. ASSUME NEW p \in Proc, WriteActive(p)
      PROVE  Formed'
  BY <1>8 DEF WriteActive, Goto, Step, Call, Version
<1>9. ASSUME NEW p \in Proc, MarkActive(p)
      PROVE  Formed'
  <2>1. rec' \in State
    BY <1>9, MarkEffect DEF MarkActive, Phase
  <2> QED
    BY <1>9, <2>1 DEF MarkActive, Goto, Step
<1>10. ASSUME NEW p \in Proc, MarkPending(p)
      PROVE  Formed'
  <2>1. rec' \in State
    BY <1>10, MarkEffect DEF MarkPending, Phase
  <2>2. holder' = None /\ step' = "idle" /\ call' \in Call
    BY <1>10, ReleaseEffect DEF MarkPending
  <2> QED
    BY <1>10, <2>1, <2>2 DEF MarkPending, Step, Call, Version
<1>11. ASSUME NEW p \in Proc, RestorePrevious(p)
      PROVE  Formed'
  BY <1>11 DEF RestorePrevious, Goto, Step, State
<1>12. ASSUME NEW p \in Proc, RestoreActive(p)
      PROVE  Formed'
  BY <1>12 DEF RestoreActive, Goto, Step, State
<1>13. ASSUME NEW p \in Proc, MarkRolledBack(p)
      PROVE  Formed'
  <2>1. rec' \in State
    BY <1>13, MarkEffect DEF MarkRolledBack, Phase
  <2>2. holder' = None /\ step' = "idle" /\ call' \in Call
    BY <1>13, ReleaseEffect DEF MarkRolledBack
  <2>3. /\ mode' \in [Proc -> {"down", "starting", "up", "closing"}]
        /\ resolved' \in [Proc -> Version] /\ lease' \in [Proc -> Lease] /\ stale' \subseteq Proc
    BY <1>13, AfterEffect DEF MarkRolledBack
  <2> QED
    BY <1>13, <2>1, <2>2, <2>3 DEF MarkRolledBack, Step, Version
<1>14. ASSUME NEW p \in Proc, PublishReceipt(p)
      PROVE  Formed'
  <2>1. CASE p \in stale
    <3>1. holder' = None /\ step' = "idle" /\ call' \in Call
      BY <1>14, <2>1, ReleaseEffect DEF PublishReceipt
    <3>2. lease' \in [Proc -> Lease] /\ stale' \subseteq Proc
      BY <1>14, <2>1, NowEffect DEF PublishReceipt, Stage, Appends
    <3> QED
      BY <1>14, <3>1, <3>2 DEF PublishReceipt, Step
  <2>2. CASE p \notin stale
    BY <1>14, <2>2 DEF PublishReceipt, Goto, Step, Appends
  <2> QED
    BY <2>1, <2>2
<1>15. ASSUME NEW p \in Proc, CompletionCancelled(p)
      PROVE  Formed'
  <2>1. holder' = None /\ step' = "idle" /\ call' \in Call
    BY <1>15, ReleaseEffect DEF CompletionCancelled
  <2>2. lease' \in [Proc -> Lease] /\ stale' \subseteq Proc
    BY <1>15, FailsEffect, NowEffect DEF CompletionCancelled, Stage
  <2> QED
    BY <1>15, <2>1, <2>2 DEF CompletionCancelled, Step
<1>16. ASSUME NEW p \in Proc, MarkComplete(p)
      PROVE  Formed'
  <2>1. rec' \in State
    BY <1>16, MarkEffect DEF MarkComplete, Phase
  <2>2. holder' = None /\ step' = "idle" /\ call' \in Call
    BY <1>16, ReleaseEffect DEF MarkComplete
  <2>3. pending' \in [Proc -> Version] /\ recovered' \in [Proc -> Version]
    BY <1>16, ForgetEffect DEF MarkComplete
  <2>4. lease' \in [Proc -> Lease]
    BY <1>16, NowEffect DEF MarkComplete, Stage
  <2> QED
    BY <1>16, <2>1, <2>2, <2>3, <2>4 DEF MarkComplete, Step
<1>17. ASSUME NEW p \in Proc, CompletionUnread(p)
      PROVE  Formed'
  <2>1. holder' = None /\ step' = "idle" /\ call' \in Call
    BY <1>17, ReleaseEffect DEF CompletionUnread
  <2>2. lease' \in [Proc -> Lease]
    BY <1>17, NowEffect DEF CompletionUnread, Stage
  <2> QED
    BY <1>17, <2>1, <2>2 DEF CompletionUnread, Step
<1>18. ASSUME NEW p \in Proc, RecoverCommitted(p)
      PROVE  Formed'
  <2>1. rec # None
    BY <1>18 DEF RecoverCommitted
  <2>2. rec' \in State
    BY <1>18, <2>1, MarkEffect DEF RecoverCommitted, Phase
  <2>3. pending' \in [Proc -> Version] /\ recovered' \in [Proc -> Version]
    BY <1>18, ForgetEffect DEF RecoverCommitted
  <2>4. /\ mode' \in [Proc -> {"down", "starting", "up", "closing"}]
        /\ resolved' \in [Proc -> Version] /\ lease' \in [Proc -> Lease] /\ stale' \subseteq Proc
    BY <1>18, AfterEffect DEF RecoverCommitted
  <2> QED
    BY <1>18, <2>1, <2>2, <2>3, <2>4 DEF RecoverCommitted, Step
<1>19. ASSUME NEW p \in Proc, RecoverSettled(p)
      PROVE  Formed'
  <2>1. /\ mode' \in [Proc -> {"down", "starting", "up", "closing"}]
        /\ resolved' \in [Proc -> Version] /\ lease' \in [Proc -> Lease] /\ stale' \subseteq Proc
    BY <1>19, AfterEffect DEF RecoverSettled
  <2> QED
    BY <1>19, <2>1 DEF RecoverSettled, Step
<1>20. ASSUME NEW p \in Proc, RecoverInterrupted(p)
      PROVE  Formed'
  <2>1. rec # None
    BY <1>20 DEF RecoverInterrupted, Settled
  <2>2. rec' \in State
    BY <1>20, <2>1, MarkEffect DEF RecoverInterrupted, Phase
  <2>3. rec.candidate \in Review
    BY <2>1 DEF State
  <2>4. (IF mode[p] = "up" THEN "rollback" ELSE "recover") \in Op
    BY SMT DEF Op
  <2>5. holder' = p /\ step' \in Step /\ call' \in Call /\ call'.review \in Review
    BY <1>20, <2>3, <2>4, TakeEffect DEF RecoverInterrupted, Step
  <2> QED
    BY <1>20, <2>1, <2>2, <2>3, <2>4, <2>5 DEF RecoverInterrupted, Step
<1>21. ASSUME NEW p \in Proc, RecoverRefused(p)
      PROVE  Formed'
  <2>1. pending' \in [Proc -> Version] /\ recovered' \in [Proc -> Version]
    BY <1>21, ForgetEffect DEF RecoverRefused
  <2>2. /\ mode' \in [Proc -> {"down", "starting", "up", "closing"}]
        /\ resolved' \in [Proc -> Version] /\ lease' \in [Proc -> Lease] /\ stale' \subseteq Proc
    BY <1>21, EndEffect DEF RecoverRefused
  <2> QED
    BY <1>21, <2>1, <2>2 DEF RecoverRefused, Step
<1>22. ASSUME NEW p \in Proc, ResumeRefused(p)
      PROVE  Formed'
  <2>1. pending' \in [Proc -> Version] /\ recovered' \in [Proc -> Version]
    BY <1>22, ForgetEffect DEF ResumeRefused
  <2>2. /\ mode' \in [Proc -> {"down", "starting", "up", "closing"}]
        /\ resolved' \in [Proc -> Version] /\ lease' \in [Proc -> Lease] /\ stale' \subseteq Proc
    BY <1>22, EndEffect DEF ResumeRefused
  <2> QED
    BY <1>22, <2>1, <2>2 DEF ResumeRefused, Step
<1>23. ASSUME NEW p \in Proc, ResolveActiveHost(p)
      PROVE  Formed'
  BY <1>23 DEF ResolveActiveHost, Step, Answer
<1>24. ASSUME NEW p \in Proc, Start(p)
      PROVE  Formed'
  <2>1. pending' \in [Proc -> Version] /\ recovered' \in [Proc -> Version]
    BY <1>24, ForgetEffect DEF Start
  <2> QED
    BY <1>24, <2>1 DEF Start, Step
<1>25. ASSUME NEW p \in Proc, StopRuntime(p)
      PROVE  Formed'
  BY <1>25 DEF StopRuntime, Step, Version
<1>26. ASSUME NEW p \in Proc, Close(p)
      PROVE  Formed'
  BY <1>26 DEF Close, Step, Version
<1>27. ASSUME NEW p \in Proc, Crash(p)
      PROVE  Formed'
  <2>1. holder' \in Proc \cup {None} /\ call' \in Call /\ (step' = "idle" \/ UNCHANGED <<step, call>>)
    BY <1>27, ReleaseEffect DEF Crash
  <2>2. /\ pending' \in [Proc -> Version] /\ recovered' \in [Proc -> Version]
        /\ mode' \in [Proc -> {"down", "starting", "up", "closing"}]
        /\ resolved' \in [Proc -> Version] /\ lease' \in [Proc -> Lease] /\ stale' \subseteq Proc
    BY <1>27, ForgetEffect, EndEffect DEF Crash
  <2>3. faults' \in 0 .. MaxFaults
    BY <1>27, FaultEffect DEF Crash
  <2> QED
    BY <1>27, <2>1, <2>2, <2>3 DEF Crash, Step, Version
<1>28. ASSUME NEW p \in Proc, OperationFails(p)
      PROVE  Formed'
  <2>1. holder' = None /\ step' = "idle" /\ call' \in Call
    BY <1>28, ReleaseEffect DEF OperationFails
  <2>2. faults' \in 0 .. MaxFaults
    BY <1>28, FaultEffect DEF OperationFails
  <2>3. \/ EndOfPanel(p) \/ UNCHANGED <<mode, panel>>
        \/ UNCHANGED <<mode, resolved>> /\ Fails(p)
        \/ UNCHANGED <<mode, resolved, stale>> /\ \E at \in {"none", "fallback", "halted"} : Now(p, at)
    <3>1. lease[p].at \in Stage
      BY DEF Lease, Stage
    <3> QED
      BY <1>28, <3>1 DEF OperationFails, Over, Stage
  <2>4. /\ mode' \in [Proc -> {"down", "starting", "up", "closing"}]
        /\ resolved' \in [Proc -> Version] /\ lease' \in [Proc -> Lease] /\ stale' \subseteq Proc
    BY <2>3, EndEffect, FailsEffect, NowEffect DEF Stage
  <2> QED
    BY <1>28, <2>1, <2>2, <2>4 DEF OperationFails, Step
<1>29. ASSUME NEW p \in Proc, NEW r \in Review, Install(p, r)
      PROVE  Formed'
  <2>1. holder' = p /\ step' = "record" /\ call' \in Call /\ call'.review \in Review
    BY <1>29, TakeEffect DEF Install, Step, Op
  <2> QED
    BY <1>29, <2>1 DEF Install, Step
<1>30. ASSUME NEW p \in Proc, NEW r \in Review, BeginActivate(p, r)
      PROVE  Formed'
  BY <1>30 DEF BeginActivate, Step, Call, Op, Version
<1>31. ASSUME NEW p \in Proc, NEW r \in Review, BeginRollback(p, r)
      PROVE  Formed'
  <2>1. rec # None
    BY <1>31 DEF BeginRollback, MayRollback
  <2>2. rec' \in State
    BY <1>31, <2>1, MarkEffect DEF BeginRollback, Phase
  <2>3. holder' = p /\ step' \in Step /\ call' \in Call /\ call'.review \in Review
    BY <1>31, TakeEffect DEF BeginRollback, Step, Op
  <2> QED
    BY <1>31, <2>1, <2>2, <2>3 DEF BeginRollback, Step
<1>32. ASSUME NEW p \in Proc, NEW r \in Review, ResumePending(p, r)
      PROVE  Formed'
  BY <1>32 DEF ResumePending, Step, Version
<1>33. ASSUME NEW p \in Proc, NEW r \in Review, ResolvePendingHost(p, r)
      PROVE  Formed'
  <2>1. lease' \in [Proc -> Lease]
    BY <1>33, NowEffect DEF ResolvePendingHost, Stage
  <2> QED
    BY <1>33, <2>1 DEF ResolvePendingHost, Step, Answer, Version
<1>34. ASSUME NEW p \in Proc, NEW r \in Review, ResolveRecoveredHost(p, r)
      PROVE  Formed'
  <2>1. lease' \in [Proc -> Lease]
    BY <1>34, NowEffect DEF ResolveRecoveredHost, Stage
  <2> QED
    BY <1>34, <2>1 DEF ResolveRecoveredHost, Step, Answer, Version
<1>35. ASSUME NEW p \in Proc, NEW r \in Review, BeginComplete(p, r)
      PROVE  Formed'
  <2>1. rec # None
    BY <1>35 DEF BeginComplete, BindingHolds, PendingOn
  <2>2. holder' = p /\ step' \in Step /\ call' \in Call /\ call'.review \in Review
    BY <1>35, TakeEffect DEF BeginComplete, Step, Op
  <2> QED
    BY <1>35, <2>1, <2>2 DEF BeginComplete, Step
<1>37. ASSUME LedgerBusy
      PROVE  Formed'
  <2>1. faults' \in 0 .. MaxFaults
    BY <1>37, FaultEffect DEF LedgerBusy
  <2> QED
    BY <1>37, <2>1 DEF LedgerBusy, Step
<1>38. ASSUME LedgerFree
      PROVE  Formed'
  BY <1>38 DEF LedgerFree, Step
<1>39. ASSUME LedgerBreaks
      PROVE  Formed'
  <2>1. faults' \in 0 .. MaxFaults
    BY <1>39, FaultEffect DEF LedgerBreaks
  <2> QED
    BY <1>39, <2>1 DEF LedgerBreaks, Step
<1>40. ASSUME NEW p \in Proc, Launch(p)
      PROVE  Formed'
  BY <1>40 DEF Launch, Step, Version
<1>41. ASSUME NEW p \in Proc, NEW r \in Review, Undertake(p, r)
      PROVE  Formed'
  <2>1. [review |-> r, at |-> "trial"] \in Lease
    BY DEF Lease, Version
  <2> QED
    BY <1>41, <2>1 DEF Undertake, Appends, Step
<1>42. ASSUME NEW p \in Proc, TrialFails(p)
      PROVE  Formed'
  BY <1>42, FailsEffect DEF TrialFails, Step
<1>43. ASSUME NEW p \in Proc, GivingUpHalts(p) \/ RollbackRefused(p) \/ FallbackRefused(p)
      PROVE  Formed'
  BY <1>43, NowEffect DEF GivingUpHalts, RollbackRefused, FallbackRefused, Stage, Step
<1> QED
  BY <1>1, <1>2, <1>3, <1>4, <1>5, <1>6, <1>7, <1>8, <1>9, <1>10, <1>11, <1>12, <1>13, <1>14, <1>15, <1>16, <1>17, <1>18, <1>19, <1>20,
     <1>21, <1>22, <1>23, <1>24, <1>25, <1>26, <1>27, <1>28, <1>29, <1>30, <1>31, <1>32, <1>33, <1>34, <1>35, <1>37, <1>38, <1>39, <1>40,
     <1>41, <1>42, <1>43
  DEF Next, Process, Environment, Advance, Recover, GiveUp, Operate

\* A lease is for a review somebody staged: never for the installer's baseline.
LeaseHeld == \A p \in Proc : lease[p].review # Baseline

TypeInv == Formed /\ LeaseHeld

LEMMA LeaseStep == TypeInv /\ [Next]_vars => LeaseHeld'
<1> SUFFICES ASSUME TypeInv, [Next]_vars PROVE LeaseHeld'
  OBVIOUS
<1> USE DEF TypeInv, Formed, TypeOK, LeaseHeld, panel, memory, lock
<1>0. None # Baseline
  BY ConstantsAssumption
<1>1. ASSUME NEW p \in Proc, NEW at, Now(p, at)
      PROVE  LeaseHeld'
  BY <1>0, <1>1 DEF Now, Lease
<1>2. ASSUME NEW p \in Proc, Fails(p)
      PROVE  LeaseHeld'
  BY <1>1, <1>2 DEF Fails
<1>3. ASSUME NEW p \in Proc, EndOfPanel(p)
      PROVE  LeaseHeld'
  BY <1>0, <1>3 DEF EndOfPanel, NoLease, Lease
<1>4. ASSUME UNCHANGED lease
      PROVE  LeaseHeld'
  BY <1>4
<1>5. ASSUME NEW p \in Proc, AfterRecovery(p)
      PROVE  LeaseHeld'
  BY <1>1, <1>3, <1>4, <1>5 DEF AfterRecovery
<1>6. ASSUME NEW p \in Proc, NEW r \in Review, Undertake(p, r)
      PROVE  LeaseHeld'
  BY <1>6 DEF Undertake, Lease
<1>7. ASSUME NEW p \in Proc, Advance(p)
      PROVE  LeaseHeld'
  <2>1. CASE RecordInstallation(p) \/ ConsumeDecision(p) \/ Prepare(p) \/ WritePrevious(p)
             \/ MarkPrevious(p) \/ WriteActive(p) \/ MarkActive(p) \/ MarkPending(p)
             \/ RestorePrevious(p) \/ RestoreActive(p)
    BY <2>1, <1>4 DEF RecordInstallation, ConsumeDecision, Prepare, WritePrevious, MarkPrevious,
         WriteActive, MarkActive, MarkPending, RestorePrevious, RestoreActive
  <2>2. CASE RefuseDecision(p) \/ CompletionCancelled(p)
    BY <2>2, <1>1, <1>2 DEF RefuseDecision, CompletionCancelled
  <2>3. CASE PublishReceipt(p) \/ MarkComplete(p) \/ CompletionUnread(p)
    BY <2>3, <1>1, <1>4 DEF PublishReceipt, MarkComplete, CompletionUnread
  <2>4. CASE MarkRolledBack(p)
    BY <2>4, <1>4, <1>5 DEF MarkRolledBack
  <2> QED
    BY <1>7, <2>1, <2>2, <2>3, <2>4 DEF Advance
<1>8. ASSUME NEW p \in Proc, Recover(p)
      PROVE  LeaseHeld'
  BY <1>8, <1>3, <1>4, <1>5 DEF Recover, RecoverCommitted, RecoverSettled, RecoverInterrupted,
       RecoverRefused
<1>9. ASSUME NEW p \in Proc, GiveUp(p)
      PROVE  LeaseHeld'
  BY <1>9, <1>1, <1>4 DEF GiveUp, GivingUpHalts, RollbackRefused, FallbackRefused, BeginRollback
<1>10. ASSUME NEW p \in Proc, NEW r \in Review, Operate(p, r)
       PROVE  LeaseHeld'
  BY <1>10, <1>1, <1>4, <1>6 DEF Operate, Install, BeginActivate, ResumePending, ResolvePendingHost,
       ResolveRecoveredHost, BeginComplete
<1>11. ASSUME NEW p \in Proc, ResolveActiveHost(p) \/ Launch(p) \/ Start(p) \/ StopRuntime(p) \/ Close(p)
       PROVE  LeaseHeld'
  BY <1>11, <1>4 DEF ResolveActiveHost, Launch, Start, StopRuntime, Close
<1>12. ASSUME NEW p \in Proc, TrialFails(p) \/ ResumeRefused(p) \/ Crash(p)
       PROVE  LeaseHeld'
  BY <1>12, <1>2, <1>3 DEF TrialFails, ResumeRefused, Crash
<1>13. ASSUME NEW p \in Proc, OperationFails(p)
       PROVE  LeaseHeld'
  <2>1. EndOfPanel(p) \/ (UNCHANGED <<mode, panel>>) \/ Fails(p) \/ \E at \in Stage : Now(p, at)
    BY <1>13 DEF OperationFails, Over, Lease, Stage
  <2> QED
    BY <2>1, <1>1, <1>2, <1>3, <1>4
<1>14. CASE Environment
  BY <1>14, <1>4 DEF Environment, LedgerBusy, LedgerFree, LedgerBreaks
<1>15. CASE UNCHANGED vars
  BY <1>15, <1>4 DEF vars
<1> QED
  BY <1>7, <1>8, <1>9, <1>10, <1>11, <1>12, <1>13, <1>14, <1>15 DEF Next, Process

LEMMA TypeStep == TypeInv /\ [Next]_vars => TypeInv'
  BY FormedStep, LeaseStep DEF TypeInv

\* The installer's baseline (or the empty legacy store) is well formed.
LEMMA TypeInit == Init => TypeInv
  <1> SUFFICES ASSUME Init PROVE TypeInv
    OBVIOUS
  <1>1. rec \in State \cup {None} /\ active \in Version /\ versions \subseteq Digest
    BY DEF Init, State, Phase, Version
  <1>2. call \in Call /\ step \in Step
    BY DEF Init, Call, NoCall, Op, Version, Step
  <1>3. lease \in [Proc -> Lease] /\ stale \subseteq Proc
    BY DEF Init, NoLease, Lease, Version
  <1>4. LeaseHeld
    BY ConstantsAssumption DEF Init, NoLease, LeaseHeld
  <1> QED
    BY <1>1, <1>2, <1>3, <1>4 DEF Init, TypeInv, Formed, TypeOK, JournalHeld, Version

\* TypeOK holds in every reachable state of the store.
THEOREM TypeCorrect == Spec => []TypeOK
<1>1. Spec => []TypeInv
  BY TypeInit, TypeStep, PTL DEF Spec
<1>2. TypeInv => TypeOK
  BY DEF TypeInv, Formed
<1> QED
  BY <1>1, <1>2, PTL
-------------------------------------------------------------------------------
(* The inductive invariant *)

LEMMA InductiveInit == Init => Inductive
  <1> SUFFICES ASSUME Init PROVE Inductive
    OBVIOUS
  <1>1. /\ holder = None /\ step = "idle" /\ previous = None
        /\ witness = {} /\ activated = {}
    BY DEF Init
  <1>2. /\ rec # None /\ rec.phase = "complete" /\ rec.candidate = Baseline
        /\ rec.previous = None /\ active = Baseline
        /\ installed = {Baseline} /\ versions = {DigestOf[Baseline]}
    BY TypeInit DEF Init, TypeInv, Formed, TypeOK, State, Phase, Version
  <1>3. PinsAgree
    BY <1>1, <1>2 DEF PinsAgree
  <1>4. StepsFit /\ UndecidedHasNoReceipt
    BY <1>1, <1>2 DEF StepsFit, UndecidedHasNoReceipt
  <1>5. StableIsReceipted
    BY <1>1, <1>2 DEF StableIsReceipted, Stable
  <1>6. ReceiptIsBacked /\ InstalledHasBytes
    BY <1>1, <1>2 DEF ReceiptIsBacked, InstalledHasBytes
  <1> QED
    BY <1>3, <1>4, <1>5, <1>6 DEF Inductive

\* Only files, published receipts and the lock matter to the invariant.
LEMMA Frame ==
  ASSUME Inductive,
         UNCHANGED <<active, previous, rec, versions, installed, decisions, witness>>,
         UNCHANGED <<activated, holder, step, call>>
  PROVE  Inductive'
  <1>1. StepsFit'
    BY DEF Inductive, StepsFit, Settled, Expected, Journal, PendingOn
  <1>2. PinsAgree'
    BY DEF Inductive, PinsAgree
  <1>3. UndecidedHasNoReceipt' /\ StableIsReceipted'
    BY DEF Inductive, UndecidedHasNoReceipt, StableIsReceipted, Stable, Committed
  <1>4. ReceiptIsBacked' /\ InstalledHasBytes'
    BY DEF Inductive, ReceiptIsBacked, InstalledHasBytes
  <1> QED
    BY <1>1, <1>2, <1>3, <1>4 DEF Inductive

\* Giving the lock up, at any step, keeps the invariant: this is what makes a
\* crash or an exception harmless wherever it strikes.
LEMMA GiveUpLock ==
  ASSUME Inductive, Release, UNCHANGED <<durable, activated>>
  PROVE  Inductive'
  <1>1. /\ UNCHANGED <<active, previous, rec, versions, installed, decisions, witness>>
        /\ holder' = None /\ step' = "idle"
    BY DEF durable, Release
  <1>2. StepsFit'
    BY <1>1 DEF StepsFit
  <1> QED
    BY <1>1, <1>2 DEF Inductive, PinsAgree, UndecidedHasNoReceipt, StableIsReceipted,
         ReceiptIsBacked, InstalledHasBytes, Stable, Committed

\* What the journal says while activate holds the lock.
LEMMA ActivationJournal ==
  ASSUME Inductive,
         step \in {"write-previous", "mark-previous", "write-active", "mark-active", "mark-pending"}
  PROVE  /\ rec.candidate = call.review /\ rec.previous = call.base /\ rec.prior = call.prior
         /\ step \in {"write-previous", "mark-previous"} => rec.phase = "prepared"
         /\ step \in {"write-active", "mark-active"} => rec.phase = "previous-written"
         /\ step = "mark-pending" => rec.phase = "active-written"
         /\ step = "write-previous" => previous = call.prior
         /\ step # "write-previous" => previous = call.base
         /\ step \in {"write-previous", "mark-previous", "write-active"} => active = call.base
         /\ step \in {"mark-active", "mark-pending"} => active = call.review
  BY DEF Inductive, StepsFit, Journal

LEMMA InductiveStep == TypeInv /\ Inductive /\ [Next]_vars => Inductive'
<1> SUFFICES ASSUME TypeInv, Inductive, [Next]_vars PROVE Inductive'
  OBVIOUS
<1> USE DEF TypeInv, Formed
<1>1. CASE UNCHANGED vars
  BY <1>1, Frame DEF vars, durable, ledger, lock
<1>2. ASSUME NEW p \in Proc, RecordInstallation(p)
      PROVE  Inductive'
  <2>1. holder' = None /\ step' = "idle"
    BY <1>2 DEF RecordInstallation, Release
  <2>2. StepsFit'
    BY <1>2, <2>1 DEF RecordInstallation, ledger, StepsFit, Inductive, PinsAgree, Journal, PendingOn, Settled, Expected
  <2>3. PinsAgree'
    BY <1>2, <2>1 DEF RecordInstallation, ledger, PinsAgree, Inductive, StepsFit, Journal, PendingOn
  <2>4. UndecidedHasNoReceipt'
    BY <1>2, <2>1 DEF RecordInstallation, ledger, UndecidedHasNoReceipt, Inductive, StepsFit, Journal
  <2>5. StableIsReceipted'
    BY <1>2, <2>1 DEF RecordInstallation, ledger, StableIsReceipted, Stable, Committed, Inductive
  <2>6. ReceiptIsBacked'
    BY <1>2, <2>1 DEF RecordInstallation, ledger, ReceiptIsBacked, Inductive
  <2>7. InstalledHasBytes'
    BY <1>2, <2>1 DEF RecordInstallation, ledger, InstalledHasBytes, Inductive, StepsFit
  <2> QED
    BY <2>2, <2>3, <2>4, <2>5, <2>6, <2>7 DEF Inductive
<1>3. ASSUME NEW p \in Proc, ConsumeDecision(p)
      PROVE  Inductive'
  <2>1. StepsFit'
    BY <1>3 DEF ConsumeDecision, Goto, ledger, StepsFit, Inductive, PinsAgree, Journal, PendingOn, Settled, Expected, ReceiptIsBacked, JournalHeld
  <2>2. PinsAgree'
    BY <1>3 DEF ConsumeDecision, Goto, ledger, PinsAgree, Inductive, StepsFit, Journal, PendingOn
  <2>3. UndecidedHasNoReceipt'
    BY <1>3 DEF ConsumeDecision, Goto, ledger, UndecidedHasNoReceipt, Inductive, StepsFit, Journal
  <2>4. StableIsReceipted'
    BY <1>3 DEF ConsumeDecision, Goto, ledger, StableIsReceipted, Stable, Committed, Inductive
  <2>5. ReceiptIsBacked'
    BY <1>3 DEF ConsumeDecision, Goto, ledger, ReceiptIsBacked, Inductive
  <2>6. InstalledHasBytes'
    BY <1>3 DEF ConsumeDecision, Goto, ledger, InstalledHasBytes, Inductive
  <2> QED
    BY <2>1, <2>2, <2>3, <2>4, <2>5, <2>6 DEF Inductive
<1>4. ASSUME NEW p \in Proc, RefuseDecision(p)
      PROVE  Inductive'
  BY <1>4, GiveUpLock DEF RefuseDecision, ledger
<1>5. ASSUME NEW p \in Proc, Prepare(p)
      PROVE  Inductive'
  <2>1. /\ rec' = [phase |-> "prepared", candidate |-> call.review,
                   previous |-> call.base, prior |-> call.prior]
        /\ step' = "write-previous" /\ UNCHANGED <<holder, call>>
    BY <1>5 DEF Prepare, Goto
  <2>2. rec' \in State /\ rec' # None
    BY <1>5, <2>1 DEF TypeOK, JournalHeld, Prepare, State, Phase, Call
  <2>3. StepsFit'
    BY <1>5, <2>1, <2>2 DEF Prepare, Goto, ledger, StepsFit, Inductive, PinsAgree, Journal, PendingOn, Settled, Expected
  <2>4. PinsAgree'
    BY <1>5, <2>1, <2>2 DEF Prepare, Goto, ledger, PinsAgree, Inductive, StepsFit, Journal, PendingOn
  <2>5. UndecidedHasNoReceipt'
    BY <1>5, <2>1, <2>2 DEF Prepare, Goto, ledger, UndecidedHasNoReceipt, Inductive, StepsFit, Journal
  <2>6. StableIsReceipted'
    BY <1>5, <2>1, <2>2 DEF Prepare, Goto, ledger, StableIsReceipted, Stable, Committed, Inductive, StepsFit, Settled, Expected, UndecidedHasNoReceipt
  <2>7. ReceiptIsBacked'
    BY <1>5, <2>1, <2>2 DEF Prepare, Goto, ledger, ReceiptIsBacked, Inductive
  <2>8. InstalledHasBytes'
    BY <1>5, <2>1, <2>2 DEF Prepare, Goto, ledger, InstalledHasBytes, Inductive
  <2> QED
    BY <2>3, <2>4, <2>5, <2>6, <2>7, <2>8 DEF Inductive
<1>6. ASSUME NEW p \in Proc, WritePrevious(p)
      PROVE  Inductive'
  <2>1. rec \in State /\ rec # None
    BY <1>6 DEF WritePrevious, TypeOK, JournalHeld
  <2>2. StepsFit'
    BY <1>6, <2>1 DEF WritePrevious, Goto, ledger, StepsFit, Inductive, PinsAgree, Journal, PendingOn, Settled, Expected
  <2>3. PinsAgree'
    BY <1>6, <2>1, ActivationJournal DEF WritePrevious, PinsAgree
  <2>4. UndecidedHasNoReceipt'
    BY <1>6, <2>1 DEF WritePrevious, Goto, ledger, UndecidedHasNoReceipt, Inductive, StepsFit, Journal
  <2>5. StableIsReceipted'
    BY <1>6, <2>1 DEF WritePrevious, Goto, ledger, StableIsReceipted, Stable, Committed, Inductive
  <2>6. ReceiptIsBacked'
    BY <1>6, <2>1 DEF WritePrevious, Goto, ledger, ReceiptIsBacked, Inductive
  <2>7. InstalledHasBytes'
    BY <1>6, <2>1 DEF WritePrevious, Goto, ledger, InstalledHasBytes, Inductive
  <2> QED
    BY <2>2, <2>3, <2>4, <2>5, <2>6, <2>7 DEF Inductive
<1>7. ASSUME NEW p \in Proc, MarkPrevious(p)
      PROVE  Inductive'
  <2>1. rec # None
    BY <1>7 DEF MarkPrevious, JournalHeld
  <2>2. /\ rec' \in State /\ rec' # None
        /\ rec' = [phase |-> "previous-written", candidate |-> rec.candidate,
                   previous |-> rec.previous, prior |-> rec.prior]
    BY <1>7, <2>1, MarkEffect DEF MarkPrevious, Phase
  <2>3. StepsFit'
    BY <1>7, <2>1, <2>2 DEF MarkPrevious, Goto, ledger, StepsFit, Inductive, PinsAgree, Journal, PendingOn, Settled, Expected
  <2>4. PinsAgree'
    BY <1>7, <2>1, <2>2 DEF MarkPrevious, Goto, ledger, PinsAgree, Inductive, StepsFit, Journal, PendingOn
  <2>5. UndecidedHasNoReceipt'
    BY <1>7, <2>1, <2>2 DEF MarkPrevious, Goto, ledger, UndecidedHasNoReceipt, Inductive, StepsFit, Journal
  <2>6. StableIsReceipted'
    BY <1>7, <2>1, <2>2, ActivationJournal
    DEF MarkPrevious, ledger, StableIsReceipted, Stable, Committed, Inductive
  <2>7. ReceiptIsBacked'
    BY <1>7, <2>1, <2>2 DEF MarkPrevious, Goto, ledger, ReceiptIsBacked, Inductive
  <2>8. InstalledHasBytes'
    BY <1>7, <2>1, <2>2 DEF MarkPrevious, Goto, ledger, InstalledHasBytes, Inductive
  <2> QED
    BY <2>3, <2>4, <2>5, <2>6, <2>7, <2>8 DEF Inductive
<1>8. ASSUME NEW p \in Proc, WriteActive(p)
      PROVE  Inductive'
  <2>1. rec \in State /\ rec # None
    BY <1>8 DEF WriteActive, TypeOK, JournalHeld
  <2>2. StepsFit'
    BY <1>8, <2>1 DEF WriteActive, Goto, ledger, StepsFit, Inductive, PinsAgree, Journal, PendingOn, Settled, Expected
  <2>3. PinsAgree'
    BY <1>8, <2>1, ActivationJournal DEF WriteActive, PinsAgree
  <2>4. UndecidedHasNoReceipt'
    BY <1>8, <2>1 DEF WriteActive, Goto, ledger, UndecidedHasNoReceipt, Inductive, StepsFit, Journal
  <2>5. StableIsReceipted'
    BY <1>8, <2>1 DEF WriteActive, Goto, ledger, StableIsReceipted, Stable, Committed, Inductive
  <2>6. ReceiptIsBacked'
    BY <1>8, <2>1 DEF WriteActive, Goto, ledger, ReceiptIsBacked, Inductive
  <2>7. InstalledHasBytes'
    BY <1>8, <2>1 DEF WriteActive, Goto, ledger, InstalledHasBytes, Inductive
  <2> QED
    BY <2>2, <2>3, <2>4, <2>5, <2>6, <2>7 DEF Inductive
<1>9. ASSUME NEW p \in Proc, MarkActive(p)
      PROVE  Inductive'
  <2>1. rec # None
    BY <1>9 DEF MarkActive, JournalHeld
  <2>2. /\ rec' \in State /\ rec' # None
        /\ rec' = [phase |-> "active-written", candidate |-> rec.candidate,
                   previous |-> rec.previous, prior |-> rec.prior]
    BY <1>9, <2>1, MarkEffect DEF MarkActive, Phase
  <2>3. StepsFit'
    BY <1>9, <2>1, <2>2 DEF MarkActive, Goto, ledger, StepsFit, Inductive, PinsAgree, Journal, PendingOn, Settled, Expected
  <2>4. PinsAgree'
    BY <1>9, <2>1, <2>2 DEF MarkActive, Goto, ledger, PinsAgree, Inductive, StepsFit, Journal, PendingOn
  <2>5. UndecidedHasNoReceipt'
    BY <1>9, <2>1, <2>2 DEF MarkActive, Goto, ledger, UndecidedHasNoReceipt, Inductive, StepsFit, Journal
  <2>6. StableIsReceipted'
    BY <1>9, <2>1, <2>2, ActivationJournal
    DEF MarkActive, ledger, StableIsReceipted, Stable, Committed, Inductive
  <2>7. ReceiptIsBacked'
    BY <1>9, <2>1, <2>2 DEF MarkActive, Goto, ledger, ReceiptIsBacked, Inductive
  <2>8. InstalledHasBytes'
    BY <1>9, <2>1, <2>2 DEF MarkActive, Goto, ledger, InstalledHasBytes, Inductive
  <2> QED
    BY <2>3, <2>4, <2>5, <2>6, <2>7, <2>8 DEF Inductive
<1>10. ASSUME NEW p \in Proc, MarkPending(p)
      PROVE  Inductive'
  <2>1. rec # None
    BY <1>10 DEF MarkPending, JournalHeld
  <2>2. /\ rec' \in State /\ rec' # None
        /\ rec' = [phase |-> "pending-verification", candidate |-> rec.candidate,
                   previous |-> rec.previous, prior |-> rec.prior]
    BY <1>10, <2>1, MarkEffect DEF MarkPending, Phase
  <2>3. holder' = None /\ step' = "idle"
    BY <1>10 DEF MarkPending, Release
  <2>4. StepsFit'
    BY <1>10, <2>1, <2>2, <2>3 DEF MarkPending, ledger, StepsFit, Inductive, PinsAgree, Journal, PendingOn, Settled, Expected
  <2>5. PinsAgree'
    BY <1>10, <2>1, <2>2, <2>3 DEF MarkPending, ledger, PinsAgree, Inductive, StepsFit, Journal, PendingOn
  <2>6. UndecidedHasNoReceipt'
    BY <1>10, <2>1, <2>2, <2>3 DEF MarkPending, ledger, UndecidedHasNoReceipt, Inductive, StepsFit, Journal
  <2>7. StableIsReceipted'
    BY <1>10, <2>1, <2>2, ActivationJournal
    DEF MarkPending, ledger, StableIsReceipted, Stable, Committed, Inductive, UndecidedHasNoReceipt
  <2>8. ReceiptIsBacked'
    BY <1>10, <2>1, <2>2, <2>3 DEF MarkPending, ledger, ReceiptIsBacked, Inductive
  <2>9. InstalledHasBytes'
    BY <1>10, <2>1, <2>2, <2>3 DEF MarkPending, ledger, InstalledHasBytes, Inductive
  <2> QED
    BY <2>4, <2>5, <2>6, <2>7, <2>8, <2>9 DEF Inductive
<1>11. ASSUME NEW p \in Proc, RestorePrevious(p)
      PROVE  Inductive'
  <2>1. StepsFit'
    BY <1>11 DEF RestorePrevious, Goto, ledger, StepsFit, Inductive, PinsAgree, Journal, PendingOn, Settled, Expected
  <2>2. PinsAgree'
    BY <1>11 DEF RestorePrevious, Goto, ledger, PinsAgree, Inductive, StepsFit, Journal, PendingOn
  <2>3. UndecidedHasNoReceipt'
    BY <1>11 DEF RestorePrevious, Goto, ledger, UndecidedHasNoReceipt, Inductive, StepsFit, Journal
  <2>4. StableIsReceipted'
    BY <1>11 DEF RestorePrevious, Goto, ledger, StableIsReceipted, Stable, Committed, Inductive
  <2>5. ReceiptIsBacked'
    BY <1>11 DEF RestorePrevious, Goto, ledger, ReceiptIsBacked, Inductive
  <2>6. InstalledHasBytes'
    BY <1>11 DEF RestorePrevious, Goto, ledger, InstalledHasBytes, Inductive
  <2> QED
    BY <2>1, <2>2, <2>3, <2>4, <2>5, <2>6 DEF Inductive
<1>12. ASSUME NEW p \in Proc, RestoreActive(p)
      PROVE  Inductive'
  <2>1. StepsFit'
    BY <1>12 DEF RestoreActive, Goto, ledger, StepsFit, Inductive, PinsAgree, Journal, PendingOn, Settled, Expected
  <2>2. PinsAgree'
    BY <1>12 DEF RestoreActive, Goto, ledger, PinsAgree, Inductive, StepsFit, Journal, PendingOn
  <2>3. UndecidedHasNoReceipt'
    BY <1>12 DEF RestoreActive, Goto, ledger, UndecidedHasNoReceipt, Inductive, StepsFit, Journal
  <2>4. StableIsReceipted'
    BY <1>12 DEF RestoreActive, Goto, ledger, StableIsReceipted, Stable, Committed, Inductive
  <2>5. ReceiptIsBacked'
    BY <1>12 DEF RestoreActive, Goto, ledger, ReceiptIsBacked, Inductive
  <2>6. InstalledHasBytes'
    BY <1>12 DEF RestoreActive, Goto, ledger, InstalledHasBytes, Inductive
  <2> QED
    BY <2>1, <2>2, <2>3, <2>4, <2>5, <2>6 DEF Inductive
<1>13. ASSUME NEW p \in Proc, MarkRolledBack(p)
      PROVE  Inductive'
  <2>1. rec # None
    BY <1>13 DEF MarkRolledBack, JournalHeld
  <2>2. /\ rec' \in State /\ rec' # None
        /\ rec' = [phase |-> "rolled-back", candidate |-> rec.candidate,
                   previous |-> rec.previous, prior |-> rec.prior]
    BY <1>13, <2>1, MarkEffect DEF MarkRolledBack, Phase
  <2>3. holder' = None /\ step' = "idle"
    BY <1>13 DEF MarkRolledBack, Release
  <2>4. StepsFit'
    BY <1>13, <2>1, <2>2, <2>3 DEF MarkRolledBack, ledger, StepsFit, Inductive, PinsAgree, Journal, PendingOn, Settled, Expected
  <2>5. PinsAgree'
    BY <1>13, <2>1, <2>2, <2>3 DEF MarkRolledBack, ledger, PinsAgree, Inductive, StepsFit, Journal, PendingOn
  <2>6. UndecidedHasNoReceipt'
    BY <1>13, <2>1, <2>2, <2>3 DEF MarkRolledBack, ledger, UndecidedHasNoReceipt, Inductive, StepsFit, Journal
  <2>7. StableIsReceipted'
    BY <1>13, <2>1, <2>2, <2>3 DEF MarkRolledBack, ledger, StableIsReceipted, Stable, Committed, Inductive, StepsFit
  <2>8. ReceiptIsBacked'
    BY <1>13, <2>1, <2>2, <2>3 DEF MarkRolledBack, ledger, ReceiptIsBacked, Inductive
  <2>9. InstalledHasBytes'
    BY <1>13, <2>1, <2>2, <2>3 DEF MarkRolledBack, ledger, InstalledHasBytes, Inductive
  <2> QED
    BY <2>4, <2>5, <2>6, <2>7, <2>8, <2>9 DEF Inductive
<1>14. ASSUME NEW p \in Proc, PublishReceipt(p)
      PROVE  Inductive'
  <2>1. StepsFit'
    BY <1>14 DEF PublishReceipt, Goto, Release, durable, StepsFit, Inductive, PinsAgree, Journal, PendingOn, Settled, Expected
  <2>2. PinsAgree'
    BY <1>14 DEF PublishReceipt, Goto, Release, durable, PinsAgree, Inductive, StepsFit, Journal, PendingOn
  <2>3. UndecidedHasNoReceipt'
    BY <1>14 DEF PublishReceipt, Goto, Release, durable, UndecidedHasNoReceipt, Inductive, StepsFit, Journal, PendingOn, ReceiptIsBacked
  <2>4. StableIsReceipted'
    BY <1>14 DEF PublishReceipt, Goto, Release, durable, StableIsReceipted, Stable, Committed, Inductive, StepsFit, PendingOn
  <2>5. ReceiptIsBacked'
    BY <1>14 DEF PublishReceipt, Goto, Release, durable, ReceiptIsBacked, Inductive, StepsFit
  <2>6. InstalledHasBytes'
    BY <1>14 DEF PublishReceipt, Goto, durable, InstalledHasBytes, Inductive
  <2> QED
    BY <2>1, <2>2, <2>3, <2>4, <2>5, <2>6 DEF Inductive
<1>15. ASSUME NEW p \in Proc, CompletionCancelled(p)
      PROVE  Inductive'
  BY <1>15, GiveUpLock DEF CompletionCancelled, ledger
<1>16. ASSUME NEW p \in Proc, MarkComplete(p)
      PROVE  Inductive'
  <2>1. rec # None
    BY <1>16 DEF MarkComplete, JournalHeld
  <2>2. /\ rec' \in State /\ rec' # None
        /\ rec' = [phase |-> "complete", candidate |-> rec.candidate,
                   previous |-> rec.previous, prior |-> rec.prior]
    BY <1>16, <2>1, MarkEffect DEF MarkComplete, Phase
  <2>3. holder' = None /\ step' = "idle"
    BY <1>16 DEF MarkComplete, Release
  <2>4. StepsFit'
    BY <1>16, <2>1, <2>2, <2>3 DEF MarkComplete, ledger, StepsFit, Inductive, PinsAgree, Journal, PendingOn, Settled, Expected
  <2>5. PinsAgree'
    BY <1>16, <2>1, <2>2, <2>3 DEF MarkComplete, ledger, PinsAgree, Inductive, StepsFit, Journal, PendingOn
  <2>6. UndecidedHasNoReceipt'
    BY <1>16, <2>1, <2>2, <2>3 DEF MarkComplete, ledger, UndecidedHasNoReceipt, Inductive, StepsFit, Journal
  <2>7. StableIsReceipted'
    BY <1>16, <2>1, <2>2 DEF MarkComplete, ledger, StableIsReceipted, Stable, Committed, Inductive,
         StepsFit, PendingOn
  <2>8. ReceiptIsBacked'
    BY <1>16, <2>1, <2>2, <2>3 DEF MarkComplete, ledger, ReceiptIsBacked, Inductive
  <2>9. InstalledHasBytes'
    BY <1>16, <2>1, <2>2, <2>3 DEF MarkComplete, ledger, InstalledHasBytes, Inductive
  <2> QED
    BY <2>4, <2>5, <2>6, <2>7, <2>8, <2>9 DEF Inductive
<1>17. ASSUME NEW p \in Proc, CompletionUnread(p)
      PROVE  Inductive'
  BY <1>17, GiveUpLock DEF CompletionUnread, ledger
<1>18. ASSUME NEW p \in Proc, RecoverCommitted(p)
      PROVE  Inductive'
  <2>1. rec # None
    BY <1>18 DEF RecoverCommitted, Settled, PendingOn
  <2>2. /\ rec' \in State /\ rec' # None
        /\ rec' = [phase |-> "complete", candidate |-> rec.candidate,
                   previous |-> rec.previous, prior |-> rec.prior]
    BY <1>18, <2>1, MarkEffect DEF RecoverCommitted, Phase
  <2>3. StepsFit'
    <3>1. step = "idle" /\ UNCHANGED <<holder, step, call>>
      BY <1>18 DEF RecoverCommitted, MayRecover, Free, lock, Inductive, StepsFit
    <3> QED
      BY <3>1 DEF Inductive, StepsFit
  <2>4. PinsAgree'
    BY <1>18, <2>1, <2>2 DEF RecoverCommitted, lock, ledger, PinsAgree, Inductive, StepsFit, Journal, PendingOn, UndecidedHasNoReceipt, Committed
  <2>5. UndecidedHasNoReceipt'
    BY <1>18, <2>1, <2>2 DEF RecoverCommitted, lock, ledger, UndecidedHasNoReceipt, Inductive, StepsFit, Journal
  <2>6. StableIsReceipted'
    BY <1>18, <2>1, <2>2 DEF RecoverCommitted, lock, ledger, StableIsReceipted, Stable, Committed, Inductive
  <2>7. ReceiptIsBacked'
    BY <1>18, <2>1, <2>2 DEF RecoverCommitted, lock, ledger, ReceiptIsBacked, Inductive
  <2>8. InstalledHasBytes'
    BY <1>18, <2>1, <2>2 DEF RecoverCommitted, lock, ledger, InstalledHasBytes, Inductive
  <2> QED
    BY <2>3, <2>4, <2>5, <2>6, <2>7, <2>8 DEF Inductive
<1>19. ASSUME NEW p \in Proc, RecoverSettled(p)
      PROVE  Inductive'
  BY <1>19, Frame DEF RecoverSettled, durable, ledger, lock
<1>20. ASSUME NEW p \in Proc, RecoverInterrupted(p)
      PROVE  Inductive'
  <2>1. rec # None
    BY <1>20 DEF RecoverInterrupted, Settled, PendingOn
  <2>2. /\ rec' \in State /\ rec' # None
        /\ rec' = [phase |-> "rolling-back", candidate |-> rec.candidate,
                   previous |-> rec.previous, prior |-> rec.prior]
    BY <1>20, <2>1, MarkEffect DEF RecoverInterrupted, Phase
  <2>3. rec.candidate \in Review
    BY <2>1 DEF TypeOK, State
  <2>4. (IF mode[p] = "up" THEN "rollback" ELSE "recover") \in Op
    BY DEF Op
  <2>5. holder' = p /\ step' = "restore-previous" /\ call'.review = rec.candidate
    BY <1>20, <2>3, <2>4, TakeEffect DEF RecoverInterrupted, Step
  <2>6. StepsFit'
    BY <1>20, <2>1, <2>2, <2>3, <2>4, <2>5 DEF RecoverInterrupted, ledger, StepsFit, Inductive, PinsAgree, Journal, PendingOn, Settled, Expected
  <2>7. PinsAgree'
    <3>1. rec.phase \in Phase /\ rec.phase # "rolled-back"
      BY <1>20, <2>1 DEF RecoverInterrupted, TypeOK, State, Settled
    <3>2. active \in {rec.previous, rec.candidate} /\ previous \in {rec.previous, rec.prior}
      BY <2>1, <3>1 DEF Inductive, PinsAgree, Phase
    <3> QED
      BY <1>20, <2>2, <3>2 DEF RecoverInterrupted, PinsAgree
  <2>8. UndecidedHasNoReceipt'
    BY <1>20, <2>1, <2>2, <2>3, <2>4, <2>5 DEF RecoverInterrupted, ledger, UndecidedHasNoReceipt, Inductive, StepsFit, Journal, Committed, CustodyReadable
  <2>9. StableIsReceipted'
    BY <1>20, <2>1, <2>2, <2>3, <2>4, <2>5 DEF RecoverInterrupted, ledger, StableIsReceipted, Stable, Committed, Inductive, Settled
  <2>10. ReceiptIsBacked'
    BY <1>20, <2>1, <2>2, <2>3, <2>4, <2>5 DEF RecoverInterrupted, ledger, ReceiptIsBacked, Inductive
  <2>11. InstalledHasBytes'
    BY <1>20, <2>1, <2>2, <2>3, <2>4, <2>5 DEF RecoverInterrupted, ledger, InstalledHasBytes, Inductive
  <2> QED
    BY <2>6, <2>7, <2>8, <2>9, <2>10, <2>11 DEF Inductive
<1>21. ASSUME NEW p \in Proc, RecoverRefused(p)
      PROVE  Inductive'
  BY <1>21, Frame DEF RecoverRefused, durable, ledger, lock
<1>22. ASSUME NEW p \in Proc, ResumeRefused(p)
      PROVE  Inductive'
  BY <1>22, Frame DEF ResumeRefused, durable, ledger, lock
<1>23. ASSUME NEW p \in Proc, ResolveActiveHost(p)
      PROVE  Inductive'
  BY <1>23, Frame DEF ResolveActiveHost, Answer, durable, ledger, lock
<1>24. ASSUME NEW p \in Proc, Start(p)
      PROVE  Inductive'
  BY <1>24, Frame DEF Start, durable, ledger, lock
<1>25. ASSUME NEW p \in Proc, StopRuntime(p)
      PROVE  Inductive'
  BY <1>25, Frame DEF StopRuntime, durable, ledger, lock
<1>26. ASSUME NEW p \in Proc, Close(p)
      PROVE  Inductive'
  BY <1>26, Frame DEF Close, durable, ledger, lock
<1>27. ASSUME NEW p \in Proc, Crash(p)
      PROVE  Inductive'
  <2>1. CASE holder = p
    BY <1>27, <2>1, GiveUpLock DEF Crash, ledger
  <2>2. CASE holder # p
    BY <1>27, <2>2, Frame DEF Crash, durable, ledger, lock
  <2> QED
    BY <2>1, <2>2
<1>28. ASSUME NEW p \in Proc, OperationFails(p)
      PROVE  Inductive'
  BY <1>28, GiveUpLock DEF OperationFails, ledger
<1>29. ASSUME NEW p \in Proc, NEW r \in Review, Install(p, r)
      PROVE  Inductive'
  <2>1. holder' = p /\ step' = "record" /\ call'.review = r
    BY <1>29, TakeEffect DEF Install, Step, Op
  <2>2. StepsFit'
    BY <1>29, <2>1 DEF Install, ledger, StepsFit, Inductive, PinsAgree, Journal, PendingOn, Settled, Expected
  <2>3. PinsAgree'
    BY <1>29, <2>1 DEF Install, ledger, PinsAgree, Inductive, StepsFit, Journal, PendingOn
  <2>4. UndecidedHasNoReceipt'
    BY <1>29, <2>1 DEF Install, ledger, UndecidedHasNoReceipt, Inductive, StepsFit, Journal
  <2>5. StableIsReceipted'
    BY <1>29, <2>1 DEF Install, ledger, StableIsReceipted, Stable, Committed, Inductive
  <2>6. ReceiptIsBacked'
    BY <1>29, <2>1 DEF Install, ledger, ReceiptIsBacked, Inductive
  <2>7. InstalledHasBytes'
    BY <1>29, <2>1 DEF Install, ledger, InstalledHasBytes, Inductive
  <2> QED
    BY <2>2, <2>3, <2>4, <2>5, <2>6, <2>7 DEF Inductive
<1>30. ASSUME NEW p \in Proc, NEW r \in Review, BeginActivate(p, r)
      PROVE  Inductive'
  <2>1. StepsFit'
    BY <1>30 DEF BeginActivate, Trying, ledger, durable, StepsFit, Inductive, PinsAgree, Journal, PendingOn, Settled, Expected
  <2>2. PinsAgree'
    BY <1>30 DEF BeginActivate, Trying, ledger, durable, PinsAgree, Inductive, StepsFit, Journal, PendingOn
  <2>3. UndecidedHasNoReceipt'
    BY <1>30 DEF BeginActivate, Trying, ledger, durable, UndecidedHasNoReceipt, Inductive, StepsFit, Journal
  <2>4. StableIsReceipted'
    BY <1>30 DEF BeginActivate, Trying, ledger, durable, StableIsReceipted, Stable, Committed, Inductive
  <2>5. ReceiptIsBacked'
    BY <1>30 DEF BeginActivate, Trying, ledger, durable, ReceiptIsBacked, Inductive
  <2>6. InstalledHasBytes'
    BY <1>30 DEF BeginActivate, Trying, ledger, durable, InstalledHasBytes, Inductive
  <2> QED
    BY <2>1, <2>2, <2>3, <2>4, <2>5, <2>6 DEF Inductive
<1>31. ASSUME NEW p \in Proc, NEW r \in Review, BeginRollback(p, r)
      PROVE  Inductive'
  <2>1. rec # None
    BY <1>31 DEF BeginRollback, MayRollback, Settled, PendingOn
  <2>2. /\ rec' \in State /\ rec' # None
        /\ rec' = [phase |-> "rolling-back", candidate |-> rec.candidate,
                   previous |-> rec.previous, prior |-> rec.prior]
    BY <1>31, <2>1, MarkEffect DEF BeginRollback, MayRollback, Phase
  <2>3. holder' = p /\ step' = "restore-previous" /\ call'.review = r
    BY <1>31, TakeEffect DEF BeginRollback, MayRollback, Step, Op
  <2>4. StepsFit'
    BY <1>31, <2>1, <2>2, <2>3 DEF BeginRollback, MayRollback, ledger, StepsFit, Inductive, PinsAgree, Journal, PendingOn, Settled, Expected
  <2>5. PinsAgree'
    <3>1. rec.phase \in Phase /\ rec.phase # "rolled-back"
      BY <1>31, <2>1 DEF BeginRollback, MayRollback, TypeOK, State, Settled
    <3>2. active \in {rec.previous, rec.candidate} /\ previous \in {rec.previous, rec.prior}
      BY <2>1, <3>1 DEF Inductive, PinsAgree, Phase
    <3> QED
      BY <1>31, <2>2, <3>2 DEF BeginRollback, MayRollback, PinsAgree
  <2>6. UndecidedHasNoReceipt'
    BY <1>31, <2>1, <2>2, <2>3 DEF BeginRollback, MayRollback, ledger, UndecidedHasNoReceipt, Inductive, StepsFit, Journal, Committed, CustodyReadable
  <2>0. rec.candidate = r /\ r # Baseline
    BY <1>31 DEF BeginRollback, Trying, MayRollback, LeaseHeld
  <2>7. StableIsReceipted'
    BY <1>31, <2>0, <2>1, <2>2, <2>3 DEF BeginRollback, MayRollback, ledger, StableIsReceipted, Stable, Committed, Inductive
  <2>8. ReceiptIsBacked'
    BY <1>31, <2>1, <2>2, <2>3 DEF BeginRollback, MayRollback, ledger, ReceiptIsBacked, Inductive
  <2>9. InstalledHasBytes'
    BY <1>31, <2>1, <2>2, <2>3 DEF BeginRollback, MayRollback, ledger, InstalledHasBytes, Inductive
  <2> QED
    BY <2>4, <2>5, <2>6, <2>7, <2>8, <2>9 DEF Inductive
<1>32. ASSUME NEW p \in Proc, NEW r \in Review, ResumePending(p, r)
      PROVE  Inductive'
  BY <1>32, Frame DEF ResumePending, durable, ledger, lock
<1>33. ASSUME NEW p \in Proc, NEW r \in Review, ResolvePendingHost(p, r)
      PROVE  Inductive'
  BY <1>33, Frame DEF ResolvePendingHost, Answer, durable, ledger, lock
<1>34. ASSUME NEW p \in Proc, NEW r \in Review, ResolveRecoveredHost(p, r)
      PROVE  Inductive'
  BY <1>34, Frame DEF ResolveRecoveredHost, Answer, durable, ledger, lock
<1>35. ASSUME NEW p \in Proc, NEW r \in Review, BeginComplete(p, r)
      PROVE  Inductive'
  <2>1. holder' = p /\ step' = "publish" /\ call'.review = r
    BY <1>35, TakeEffect DEF BeginComplete, Step, Op
  <2>2. StepsFit'
    BY <1>35, <2>1 DEF BeginComplete, ledger, StepsFit, Inductive, PinsAgree, Journal, PendingOn, Settled, Expected, BindingHolds, ReceiptIsBacked, InstalledHasBytes
  <2>3. PinsAgree'
    BY <1>35, <2>1 DEF BeginComplete, ledger, PinsAgree, Inductive, StepsFit, Journal, PendingOn
  <2>4. UndecidedHasNoReceipt'
    BY <1>35, <2>1 DEF BeginComplete, ledger, UndecidedHasNoReceipt, Inductive, StepsFit, Journal, BindingHolds
  <2>5. StableIsReceipted'
    BY <1>35, <2>1 DEF BeginComplete, ledger, StableIsReceipted, Stable, Committed, Inductive
  <2>6. ReceiptIsBacked'
    BY <1>35, <2>1 DEF BeginComplete, ledger, ReceiptIsBacked, Inductive
  <2>7. InstalledHasBytes'
    BY <1>35, <2>1 DEF BeginComplete, ledger, InstalledHasBytes, Inductive
  <2> QED
    BY <2>2, <2>3, <2>4, <2>5, <2>6, <2>7 DEF Inductive
<1>37. ASSUME LedgerBusy
      PROVE  Inductive'
  BY <1>37, Frame DEF LedgerBusy, durable, ledger, lock
<1>38. ASSUME LedgerFree
      PROVE  Inductive'
  BY <1>38, Frame DEF LedgerFree, durable, ledger, lock
<1>39. ASSUME LedgerBreaks
      PROVE  Inductive'
  BY <1>39, Frame DEF LedgerBreaks, durable, ledger, lock
<1>40. ASSUME NEW p \in Proc, Launch(p)
      PROVE  Inductive'
  BY <1>40, Frame DEF Launch, durable, ledger, lock
<1>41. ASSUME NEW p \in Proc, NEW r \in Review, Undertake(p, r)
      PROVE  Inductive'
  BY <1>41, Frame DEF Undertake, durable, ledger, lock
<1>42. ASSUME NEW p \in Proc,
              TrialFails(p) \/ GivingUpHalts(p) \/ RollbackRefused(p) \/ FallbackRefused(p)
      PROVE  Inductive'
  BY <1>42, Frame DEF TrialFails, GivingUpHalts, RollbackRefused, FallbackRefused, durable, ledger, lock
<1> QED
  BY <1>1, <1>2, <1>3, <1>4, <1>5, <1>6, <1>7, <1>8, <1>9, <1>10, <1>11, <1>12, <1>13, <1>14, <1>15, <1>16, <1>17, <1>18, <1>19, <1>20,
     <1>21, <1>22, <1>23, <1>24, <1>25, <1>26, <1>27, <1>28, <1>29, <1>30, <1>31, <1>32, <1>33, <1>34, <1>35, <1>37, <1>38, <1>39, <1>40,
     <1>41, <1>42
  DEF Next, Process, Environment, Advance, Recover, GiveUp, Operate
\* Pins, journal, receipts and the running call agree in every reachable state.
THEOREM JournalInvariant == Spec => []Inductive
<1>1. Init => TypeInv /\ Inductive
  BY TypeInit, InductiveInit
<1>2. TypeInv /\ Inductive /\ [Next]_vars => (TypeInv /\ Inductive)'
  BY TypeStep, InductiveStep
<1> QED
  BY <1>1, <1>2, PTL DEF Spec

\* Every phase of the journal leaves the pins its recovery assumes.
THEOREM PinsAlwaysAgree == Spec => []PinsAgree
<1>1. Inductive => PinsAgree
  BY DEF Inductive
<1> QED
  BY <1>1, JournalInvariant, PTL

\* A version whose 'activated' receipt is published is never taken away.
THEOREM CommittedStays == Spec => []CommittedIsKept
<1>1. TypeInv /\ Inductive => CommittedIsKept
  <2> SUFFICES ASSUME TypeInv, Inductive, rec # None, Committed
               PROVE  /\ rec.phase \in {"pending-verification", "complete"}
                      /\ active = rec.candidate
    BY DEF CommittedIsKept
  <2>1. rec.phase \in {"pending-verification", "complete"}
    BY DEF Inductive, UndecidedHasNoReceipt, Committed
  <2> QED
    BY <2>1 DEF Inductive, PinsAgree
<1>2. Spec => []TypeInv
  BY TypeInit, TypeStep, PTL DEF Spec
<1> QED
  BY <1>1, <1>2, JournalInvariant, PTL

\* What a recovery would keep or restore is the baseline or carries a receipt.
THEOREM StableAlwaysReceipted == Spec => []StableIsReceipted
<1>1. Inductive => StableIsReceipted
  BY DEF Inductive
<1> QED
  BY <1>1, JournalInvariant, PTL

\* No receipt is published without its witness, its decision and its bytes.
THEOREM ReceiptsAlwaysBacked == Spec => []ReceiptIsBacked
<1>1. Inductive => ReceiptIsBacked
  BY DEF Inductive
<1> QED
  BY <1>1, JournalInvariant, PTL

-------------------------------------------------------------------------------
(* Who publishes *)

\* The lock is never held by a process that is gone, and the process that
\* completes an activation still remembers it as its own.
OwnerInv ==
  holder # None =>
    /\ mode[holder] # "down"
    /\ step = "publish" => pending[holder] = call.review

\* No call but the owner's own touches its memory while it holds the lock.
LEMMA OwnerStep == TypeInv /\ OwnerInv /\ [Next]_vars => OwnerInv'
<1> SUFFICES ASSUME TypeInv, OwnerInv, [Next]_vars PROVE OwnerInv'
  OBVIOUS
<1> USE DEF TypeInv, Formed, TypeOK, OwnerInv, memory, panel, lock, Goto
<1>1. CASE UNCHANGED vars
  BY <1>1 DEF vars
<1>2. ASSUME NEW p \in Proc, RecordInstallation(p)
      PROVE  OwnerInv'
  BY <1>2 DEF RecordInstallation, Release
<1>3. ASSUME NEW p \in Proc, RefuseDecision(p)
      PROVE  OwnerInv'
  BY <1>3 DEF RefuseDecision, Release
<1>4. ASSUME NEW p \in Proc, MarkPending(p)
      PROVE  OwnerInv'
  BY <1>4 DEF MarkPending, Release
<1>5. ASSUME NEW p \in Proc, MarkRolledBack(p)
      PROVE  OwnerInv'
  BY <1>5 DEF MarkRolledBack, Release
<1>6. ASSUME NEW p \in Proc, CompletionCancelled(p)
      PROVE  OwnerInv'
  BY <1>6 DEF CompletionCancelled, Release
<1>7. ASSUME NEW p \in Proc, MarkComplete(p)
      PROVE  OwnerInv'
  BY <1>7 DEF MarkComplete, Release
<1>8. ASSUME NEW p \in Proc, CompletionUnread(p)
      PROVE  OwnerInv'
  BY <1>8 DEF CompletionUnread, Release
<1>9. ASSUME NEW p \in Proc, OperationFails(p)
      PROVE  OwnerInv'
  BY <1>9 DEF OperationFails, Release
<1>10. ASSUME NEW p \in Proc, ConsumeDecision(p)
      PROVE  OwnerInv'
  BY <1>10 DEF ConsumeDecision
<1>11. ASSUME NEW p \in Proc, Prepare(p)
      PROVE  OwnerInv'
  BY <1>11 DEF Prepare
<1>12. ASSUME NEW p \in Proc, WritePrevious(p)
      PROVE  OwnerInv'
  BY <1>12 DEF WritePrevious
<1>13. ASSUME NEW p \in Proc, MarkPrevious(p)
      PROVE  OwnerInv'
  BY <1>13 DEF MarkPrevious
<1>14. ASSUME NEW p \in Proc, WriteActive(p)
      PROVE  OwnerInv'
  BY <1>14 DEF WriteActive
<1>15. ASSUME NEW p \in Proc, MarkActive(p)
      PROVE  OwnerInv'
  BY <1>15 DEF MarkActive
<1>16. ASSUME NEW p \in Proc, RestorePrevious(p)
      PROVE  OwnerInv'
  BY <1>16 DEF RestorePrevious
<1>17. ASSUME NEW p \in Proc, RestoreActive(p)
      PROVE  OwnerInv'
  BY <1>17 DEF RestoreActive
<1>18. ASSUME NEW p \in Proc, PublishReceipt(p)
      PROVE  OwnerInv'
  BY <1>18 DEF PublishReceipt, Release
<1>19. ASSUME NEW p \in Proc, RecoverCommitted(p)
      PROVE  OwnerInv'
  BY <1>19 DEF RecoverCommitted, MayRecover, Free
<1>20. ASSUME NEW p \in Proc, RecoverSettled(p)
      PROVE  OwnerInv'
  BY <1>20 DEF RecoverSettled, MayRecover, Free
<1>21. ASSUME NEW p \in Proc, RecoverInterrupted(p)
      PROVE  OwnerInv'
  BY <1>21 DEF RecoverInterrupted, MayRecover, Take
<1>22. ASSUME NEW p \in Proc, RecoverRefused(p)
      PROVE  OwnerInv'
  BY <1>22 DEF RecoverRefused, Forget, EndOfPanel, Free
<1>23. ASSUME NEW p \in Proc, ResumeRefused(p)
      PROVE  OwnerInv'
  BY <1>23 DEF ResumeRefused, Free
<1>24. ASSUME NEW p \in Proc, Start(p)
      PROVE  OwnerInv'
  BY <1>24 DEF Start, Forget
<1>25. ASSUME NEW p \in Proc, StopRuntime(p)
      PROVE  OwnerInv'
  BY <1>25 DEF StopRuntime
<1>26. ASSUME NEW p \in Proc, Close(p)
      PROVE  OwnerInv'
  BY <1>26 DEF Close
<1>27. ASSUME NEW p \in Proc, Crash(p)
      PROVE  OwnerInv'
  BY <1>27 DEF Crash, EndOfPanel, Release, Forget
<1>28. ASSUME NEW p \in Proc, ResolveActiveHost(p)
      PROVE  OwnerInv'
  BY <1>28 DEF ResolveActiveHost, Answer
<1>29. ASSUME NEW p \in Proc, NEW r \in Review, Install(p, r)
      PROVE  OwnerInv'
  BY <1>29 DEF Install, Trying, Running, Take
<1>30. ASSUME NEW p \in Proc, NEW r \in Review, BeginActivate(p, r)
      PROVE  OwnerInv'
  BY <1>30 DEF BeginActivate, Trying, Running
<1>31. ASSUME NEW p \in Proc, NEW r \in Review, BeginRollback(p, r)
      PROVE  OwnerInv'
  BY <1>31 DEF BeginRollback, Trying, Running, Take
<1>32. ASSUME NEW p \in Proc, NEW r \in Review, ResumePending(p, r)
      PROVE  OwnerInv'
  BY <1>32 DEF ResumePending, Free
<1>33. ASSUME NEW p \in Proc, NEW r \in Review, ResolvePendingHost(p, r)
      PROVE  OwnerInv'
  BY <1>33 DEF ResolvePendingHost, Answer
<1>34. ASSUME NEW p \in Proc, NEW r \in Review, ResolveRecoveredHost(p, r)
      PROVE  OwnerInv'
  BY <1>34 DEF ResolveRecoveredHost, Answer
<1>35. ASSUME NEW p \in Proc, NEW r \in Review, BeginComplete(p, r)
      PROVE  OwnerInv'
  BY <1>35 DEF BeginComplete, Trying, Running, Take, NoCall
<1>37. CASE Environment
  BY <1>37 DEF Environment, LedgerBusy, LedgerFree, LedgerBreaks
<1>38. ASSUME NEW p \in Proc, Launch(p)
      PROVE  OwnerInv'
  BY <1>38 DEF Launch
<1>39. ASSUME NEW p \in Proc, NEW r \in Review, Undertake(p, r)
      PROVE  OwnerInv'
  BY <1>39 DEF Undertake
<1>40. ASSUME NEW p \in Proc,
              TrialFails(p) \/ GivingUpHalts(p) \/ RollbackRefused(p) \/ FallbackRefused(p)
      PROVE  OwnerInv'
  BY <1>40 DEF TrialFails, GivingUpHalts, RollbackRefused, FallbackRefused
<1> QED
  BY <1>1, <1>2, <1>3, <1>4, <1>5, <1>6, <1>7, <1>8, <1>9, <1>10, <1>11, <1>12, <1>13, <1>14, <1>15, <1>16, <1>17, <1>18, <1>19, <1>20,
     <1>21, <1>22, <1>23, <1>24, <1>25, <1>26, <1>27, <1>28, <1>29, <1>30, <1>31, <1>32, <1>33, <1>34, <1>35, <1>37, <1>38, <1>39, <1>40
  DEF Next, Process, Advance, Recover, GiveUp, Operate

\* A receipt is published only by the live owner of the pinned candidate.
THEOREM PublicationIsOwned == Spec => PublishedByOwner
<1>1. Init => OwnerInv
  BY DEF Init, OwnerInv
<1>2. Spec => [](TypeInv /\ Inductive /\ OwnerInv)
  <2>1. TypeInv /\ OwnerInv /\ [Next]_vars => (TypeInv /\ OwnerInv)'
    BY TypeStep, OwnerStep
  <2> QED
    BY <1>1, <2>1, TypeInit, JournalInvariant, PTL DEF Spec
<1>3. ASSUME TypeInv, Inductive, OwnerInv, [Next]_vars, NEW r \in activated' \ activated
      PROVE  /\ PendingOn(r) /\ active = r
             /\ \E p \in Proc : holder = p /\ pending[p] = r /\ OwnsRuntime(p, r)
  <2>1. PICK p \in Proc : PublishReceipt(p)
    <3>1. activated' # activated
      BY <1>3
    <3>2. ASSUME NEW p \in Proc, Advance(p) PROVE PublishReceipt(p) \/ UNCHANGED activated
      BY <3>2 DEF Advance, ledger,
           RecordInstallation, ConsumeDecision, RefuseDecision, Prepare, WritePrevious,
           MarkPrevious, WriteActive, MarkActive, MarkPending, RestorePrevious, RestoreActive,
           MarkRolledBack, CompletionCancelled, MarkComplete, CompletionUnread
    <3>3. ASSUME NEW p \in Proc, Recover(p) \/ GiveUp(p) PROVE UNCHANGED activated
      BY <3>3 DEF Recover, GiveUp, ledger,
           RecoverCommitted, RecoverSettled, RecoverInterrupted, RecoverRefused,
           GivingUpHalts, RollbackRefused, FallbackRefused, BeginRollback
    <3>4. ASSUME NEW p \in Proc, NEW q \in Review, Operate(p, q) PROVE UNCHANGED activated
      BY <3>4 DEF Operate, Answer, ledger, Undertake, Install, BeginActivate, ResumePending,
           ResolvePendingHost, ResolveRecoveredHost, BeginComplete
    <3>5. ASSUME NEW p \in Proc, \/ ResolveActiveHost(p) \/ Launch(p) \/ TrialFails(p)
                                 \/ ResumeRefused(p) \/ Start(p) \/ StopRuntime(p)
                                 \/ Close(p) \/ Crash(p) \/ OperationFails(p)
          PROVE  UNCHANGED activated
      BY <3>5 DEF ledger, ResolveActiveHost, Answer, Launch, TrialFails, ResumeRefused, Start,
           StopRuntime, Close, Crash, OperationFails
    <3>6. ASSUME Environment \/ UNCHANGED vars PROVE UNCHANGED activated
      BY <3>6 DEF Environment, LedgerBusy, LedgerFree, LedgerBreaks, vars, ledger
    <3> QED
      BY <1>3, <3>1, <3>2, <3>3, <3>4, <3>5, <3>6 DEF Next, Process
  <2>2. r = call.review /\ OwnsRuntime(p, r) /\ holder = p /\ step = "publish"
    BY <1>3, <2>1 DEF PublishReceipt
  <2>3. PendingOn(r)
    BY <1>3, <2>2 DEF Inductive, StepsFit
  <2>4. active = r
    BY <1>3, <2>3 DEF Inductive, PinsAgree, PendingOn
  <2>5. pending[p] = r
    BY <1>3, <2>1, <2>2 DEF OwnerInv
  <2> QED
    BY <2>2, <2>3, <2>4, <2>5
<1>4. TypeInv /\ Inductive /\ OwnerInv /\ [Next]_vars =>
        [\A r \in activated' \ activated :
           /\ PendingOn(r) /\ active = r
           /\ \E p \in Proc : holder = p /\ pending[p] = r /\ OwnsRuntime(p, r)]_vars
  BY <1>3
<1> QED
  BY <1>2, <1>4, PTL DEF Spec, PublishedByOwner
-------------------------------------------------------------------------------
(* Who is launched *)

\* A candidate under trial is there by a decision that has been consumed.
TrialIsConsumed ==
  rec # None /\ rec.phase \in {"prepared", "previous-written", "active-written", "pending-verification"}
    => rec.candidate \in decisions

\* A decision stays consumed, and only activate opens a trial.
LEMMA TrialStep == TypeInv /\ Inductive /\ TrialIsConsumed /\ [Next]_vars => TrialIsConsumed'
<1> SUFFICES ASSUME TypeInv, Inductive, TrialIsConsumed, [Next]_vars
             PROVE  TrialIsConsumed'
  OBVIOUS
<1>1. ASSUME UNCHANGED <<rec, decisions>>
      PROVE  TrialIsConsumed'
  BY <1>1 DEF TrialIsConsumed
<1>2. ASSUME NEW p \in Proc, ConsumeDecision(p)
      PROVE  TrialIsConsumed'
  BY <1>2 DEF ConsumeDecision, TrialIsConsumed
<1>3. ASSUME NEW p \in Proc, Prepare(p)
      PROVE  TrialIsConsumed'
  <2>1. call.review \in decisions
    BY <1>3 DEF Prepare, Inductive, StepsFit
  <2> QED
    BY <1>3, <2>1 DEF Prepare, TrialIsConsumed
<1>4. ASSUME NEW ph \in Phase, Mark(ph), UNCHANGED decisions,
             rec # None, \/ ph \in {"rolling-back", "rolled-back", "complete"}
                         \/ rec.phase \in {"prepared", "previous-written", "active-written"}
      PROVE  TrialIsConsumed'
  <2>1. rec'.phase = ph /\ rec'.candidate = rec.candidate
    BY <1>4, MarkEffect DEF TypeInv, Formed
  <2> QED
    BY <1>4, <2>1 DEF TrialIsConsumed
<1>5. ASSUME NEW p \in Proc, MarkPrevious(p) \/ MarkActive(p) \/ MarkPending(p)
      PROVE  TrialIsConsumed'
  <2>1. rec # None
    BY <1>5 DEF MarkPrevious, MarkActive, MarkPending, TypeInv, Formed, JournalHeld
  <2>2. rec.phase \in {"prepared", "previous-written", "active-written"}
    BY <1>5 DEF MarkPrevious, MarkActive, MarkPending, Inductive, StepsFit, Journal
  <2>3. \E ph \in Phase : Mark(ph)
    BY <1>5 DEF MarkPrevious, MarkActive, MarkPending, Phase
  <2>4. UNCHANGED decisions
    BY <1>5 DEF MarkPrevious, MarkActive, MarkPending
  <2> QED
    BY <1>4, <2>1, <2>2, <2>3, <2>4
<1>6. ASSUME NEW p \in Proc, \/ MarkRolledBack(p) \/ MarkComplete(p)
                             \/ RecoverCommitted(p) \/ RecoverInterrupted(p)
                             \/ \E r \in Review : BeginRollback(p, r)
      PROVE  TrialIsConsumed'
  <2>1. rec # None
    BY DEF Inductive, UndecidedHasNoReceipt
  <2>2. \E ph \in {"rolling-back", "rolled-back", "complete"} : Mark(ph)
    BY <1>6 DEF MarkRolledBack, MarkComplete, RecoverCommitted, RecoverInterrupted, BeginRollback
  <2>3. UNCHANGED decisions
    BY <1>6 DEF MarkRolledBack, MarkComplete, RecoverCommitted, RecoverInterrupted, BeginRollback
  <2>4. {"rolling-back", "rolled-back", "complete"} \subseteq Phase
    BY DEF Phase
  <2> QED
    BY <1>4, <2>1, <2>2, <2>3, <2>4
<1>7. ASSUME NEW p \in Proc,
             \/ RecordInstallation(p) \/ RefuseDecision(p) \/ WritePrevious(p) \/ WriteActive(p)
             \/ RestorePrevious(p) \/ RestoreActive(p) \/ PublishReceipt(p)
             \/ CompletionCancelled(p) \/ CompletionUnread(p)
             \/ RecoverSettled(p) \/ RecoverRefused(p) \/ ResumeRefused(p) \/ ResolveActiveHost(p)
             \/ Launch(p) \/ TrialFails(p) \/ GivingUpHalts(p) \/ RollbackRefused(p) \/ FallbackRefused(p)
             \/ Start(p) \/ StopRuntime(p) \/ Close(p) \/ Crash(p) \/ OperationFails(p)
      PROVE  UNCHANGED <<rec, decisions>>
  BY <1>7 DEF RecordInstallation, RefuseDecision, WritePrevious, WriteActive, RestorePrevious,
       RestoreActive, PublishReceipt, CompletionCancelled, CompletionUnread, RecoverSettled,
       RecoverRefused, ResumeRefused, ResolveActiveHost, Answer, Launch, TrialFails, GivingUpHalts,
       RollbackRefused, FallbackRefused, Start, StopRuntime, Close, Crash,
       OperationFails, durable
<1>8. ASSUME NEW p \in Proc, NEW r \in Review,
             \/ Undertake(p, r) \/ Install(p, r) \/ BeginActivate(p, r) \/ ResumePending(p, r)
             \/ ResolvePendingHost(p, r) \/ ResolveRecoveredHost(p, r) \/ BeginComplete(p, r)
      PROVE  UNCHANGED <<rec, decisions>>
  BY <1>8 DEF Undertake, Install, BeginActivate, ResumePending, ResolvePendingHost, ResolveRecoveredHost,
       Answer, BeginComplete, durable
<1>9. ASSUME Environment \/ UNCHANGED vars
      PROVE  UNCHANGED <<rec, decisions>>
  BY <1>9 DEF Environment, LedgerBusy, LedgerFree, LedgerBreaks, vars, durable
<1> QED
  BY <1>1, <1>2, <1>3, <1>5, <1>6, <1>7, <1>8, <1>9 DEF Next, Process, Advance, Recover, GiveUp, Operate

\* An answer not yet spawned is of a live panel outside the rest of its lease,
\* and names an accepted version or the candidate this panel tries by a decision
\* that was consumed.  A recovery the panel itself has under way meanwhile is not
\* of that candidate.
ResolvedInv ==
  \A q \in Proc : resolved[q] # None =>
    /\ mode[q] = "up" /\ lease[q].at \in {"none", "halted", "tried"}
    /\ \/ resolved[q] \in activated \cup {Baseline}
       \/ pending[q] = resolved[q] /\ pending[q] \in decisions /\ holder # q
    /\ holder = q =>
         Over(q) /\ step \in {"restore-previous", "restore-active", "mark-rolled-back"}

LEMMA ResolvedStep == TypeInv /\ Inductive /\ TrialIsConsumed /\ ResolvedInv /\ [Next]_vars => ResolvedInv'
<1> SUFFICES ASSUME TypeInv, Inductive, TrialIsConsumed, ResolvedInv, [Next]_vars
             PROVE  ResolvedInv'
  OBVIOUS
<1> USE DEF TypeInv, Formed, TypeOK, memory, panel, lock, Over
<1>1. rec # None /\ rec \in State
  BY DEF Inductive, UndecidedHasNoReceipt
\* Panels whose memory and lease a step leaves alone
<1>2. ASSUME UNCHANGED <<resolved, mode, lease, pending, activated>>, decisions \subseteq decisions',
             \A q \in Proc : holder' = q => holder = q /\ step' = step
      PROVE  ResolvedInv'
  BY <1>2 DEF ResolvedInv
<1>3. ASSUME NEW p \in Proc, holder = p, step \notin {"restore-previous", "restore-active", "mark-rolled-back"},
             holder' \in {p, None}, resolved' = [resolved EXCEPT ![p] = resolved'[p]],
             resolved'[p] \in {resolved[p], None},
             decisions \subseteq decisions', activated \subseteq activated',
             \A q \in Proc : q # p => /\ mode'[q] = mode[q] /\ lease'[q] = lease[q]
                                      /\ pending'[q] = pending[q]
      PROVE  ResolvedInv'
  <2>1. resolved[p] = None
    BY <1>3 DEF ResolvedInv
  <2> QED
    BY <1>3, <2>1 DEF ResolvedInv
<1>4. ASSUME NEW p \in Proc,
             \/ RecordInstallation(p) \/ ConsumeDecision(p) \/ Prepare(p) \/ WritePrevious(p)
             \/ MarkPrevious(p) \/ WriteActive(p) \/ MarkActive(p) \/ MarkPending(p)
      PROVE  ResolvedInv'
  BY <1>3, <1>4 DEF RecordInstallation, ConsumeDecision, Prepare, WritePrevious, MarkPrevious,
       WriteActive, MarkActive, MarkPending, Release, Goto, ledger
<1>5. ASSUME NEW p \in Proc, RefuseDecision(p) \/ CompletionCancelled(p)
      PROVE  ResolvedInv'
  <2>1. \A q \in Proc : q # p => lease'[q] = lease[q]
    BY <1>5, FailsEffect, NowEffect DEF RefuseDecision, CompletionCancelled, Stage
  <2> QED
    BY <1>3, <1>5, <2>1 DEF RefuseDecision, CompletionCancelled, Release, ledger, durable
<1>6. ASSUME NEW p \in Proc, PublishReceipt(p) \/ MarkComplete(p) \/ CompletionUnread(p)
      PROVE  ResolvedInv'
  <2>1. \A q \in Proc : q # p => lease'[q] = lease[q]
    BY <1>6, NowEffect DEF PublishReceipt, MarkComplete, CompletionUnread, Stage
  <2>2. \A q \in Proc : q # p => pending'[q] = pending[q]
    BY <1>6 DEF PublishReceipt, MarkComplete, CompletionUnread, Forget
  <2> QED
    BY <1>3, <1>6, <2>1, <2>2 DEF PublishReceipt, MarkComplete, CompletionUnread, Release, Goto,
         ledger, durable
<1>7. ASSUME NEW p \in Proc, RestorePrevious(p) \/ RestoreActive(p)
      PROVE  ResolvedInv'
  BY <1>7 DEF RestorePrevious, RestoreActive, Goto, ledger, ResolvedInv
<1>8. ASSUME NEW p \in Proc, NEW op \in Op, Take(p, op, rec.candidate, "restore-previous"),
             UNCHANGED <<memory, activated, decisions>>,
             \/ resolved[p] = None
             \/ Over(p) /\ (pending[p] = None \/ pending[p] \in activated)
      PROVE  ResolvedInv'
  BY <1>8 DEF Take, ResolvedInv
<1>9. ASSUME NEW p \in Proc, RecoverInterrupted(p)
      PROVE  ResolvedInv'
  <2>1. (IF mode[p] = "up" THEN "rollback" ELSE "recover") \in Op
    BY SMT DEF Op
  <2>2. \/ resolved[p] = None
        \/ Over(p) /\ (pending[p] = None \/ pending[p] \in activated)
    BY <1>9 DEF RecoverInterrupted, MayRecover, ResolvedInv
  <2> QED
    BY <1>8, <1>9, <2>1, <2>2 DEF RecoverInterrupted, ledger
<1>10. ASSUME NEW p \in Proc, NEW r \in Review, BeginRollback(p, r)
       PROVE  ResolvedInv'
  BY <1>8, <1>10 DEF BeginRollback, MayRollback, Trying, Op, ledger
\* Recoveries that end: what the panel has resolved is accepted, or dropped
<1>11. ASSUME NEW p \in Proc, AfterRecovery(p) \/ UNCHANGED <<mode, panel>>,
              \A q \in Proc : q # p => pending'[q] = pending[q],
              holder' = None, UNCHANGED <<activated, decisions>>,
              \/ resolved[p] \in activated \cup {Baseline, None}
              \/ pending' = pending
       PROVE  ResolvedInv'
  <2>1. /\ resolved'[p] \in {resolved[p], None}
        /\ resolved'[p] # None => /\ mode[p] = "up" => mode'[p] = "up"
                                  /\ lease'[p].at \in {"none", lease[p].at}
        /\ \A q \in Proc : q # p => /\ mode'[q] = mode[q] /\ resolved'[q] = resolved[q]
                                    /\ lease'[q] = lease[q]
    BY <1>11, AfterEffect
  <2> QED
    BY <1>11, <2>1 DEF ResolvedInv
<1>12. ASSUME NEW p \in Proc, MarkRolledBack(p)
       PROVE  ResolvedInv'
  <2>1. holder = p /\ step = "mark-rolled-back" /\ holder' = None
    BY <1>12 DEF MarkRolledBack, Release
  <2>2. resolved[p] \in activated \cup {Baseline, None}
    BY <2>1 DEF ResolvedInv
  <2> QED
    BY <1>11, <1>12, <2>1, <2>2 DEF MarkRolledBack, ledger
<1>13. ASSUME NEW p \in Proc, RecoverCommitted(p)
       PROVE  ResolvedInv'
  <2>1. resolved[p] \in activated \cup {Baseline, None}
    BY <1>13 DEF RecoverCommitted, MayRecover, ResolvedInv
  <2> QED
    BY <1>11, <1>13, <2>1 DEF RecoverCommitted, MayRecover, Free, Forget, ledger
<1>14. ASSUME NEW p \in Proc, RecoverSettled(p)
       PROVE  ResolvedInv'
  BY <1>11, <1>14 DEF RecoverSettled, MayRecover, Free, durable, ledger
<1>15. ASSUME NEW p \in Proc, EndOfPanel(p), Forget(p), holder' \in {holder, None},
              UNCHANGED <<activated, decisions>>, step' = step \/ holder' = None
       PROVE  ResolvedInv'
  <2>1. resolved'[p] = None /\ \A q \in Proc : q # p =>
          /\ mode'[q] = mode[q] /\ resolved'[q] = resolved[q]
          /\ lease'[q] = lease[q] /\ pending'[q] = pending[q]
    BY <1>15, EndEffect DEF Forget
  <2> QED
    BY <1>15, <2>1 DEF ResolvedInv
<1>16. ASSUME NEW p \in Proc, RecoverRefused(p) \/ ResumeRefused(p) \/ Crash(p)
       PROVE  ResolvedInv'
  BY <1>15, <1>16 DEF RecoverRefused, ResumeRefused, Crash, Release, durable, ledger
<1>17. ASSUME NEW p \in Proc, OperationFails(p)
       PROVE  ResolvedInv'
  <2>1. holder = p /\ holder' = None /\ UNCHANGED <<activated, decisions, pending>>
    BY <1>17 DEF OperationFails, Release, ledger, durable
  <2>2. CASE EndOfPanel(p)
    BY <2>1, <2>2, EndEffect DEF ResolvedInv
  <2>3. CASE UNCHANGED <<mode, panel>>
    BY <2>1, <2>3 DEF ResolvedInv
  <2>4. CASE UNCHANGED <<mode, resolved>> /\ ~Over(p)
    <3>1. resolved[p] = None
      BY <2>1, <2>4 DEF ResolvedInv
    <3>2. \A q \in Proc : q # p => lease'[q] = lease[q]
      <4>1. Fails(p) \/ \E at \in {"none", "fallback", "halted"} : Now(p, at)
        BY <1>17, <2>4 DEF OperationFails, Lease
      <4> QED
        BY <4>1, FailsEffect, NowEffect DEF Stage
    <3> QED
      BY <2>1, <2>4, <3>1, <3>2 DEF ResolvedInv
  <2>5. CASE UNCHANGED <<mode, resolved>> /\ Over(p) /\ Now(p, "none")
    BY <2>1, <2>5, NowEffect DEF ResolvedInv, Stage
  <2> QED
    BY <1>17, <2>2, <2>3, <2>4, <2>5 DEF OperationFails, Lease
\* The panel's own steps
<1>18. ASSUME NEW p \in Proc, Start(p) \/ Close(p)
       PROVE  ResolvedInv'
  BY <1>18 DEF Start, Close, Forget, durable, ledger, ResolvedInv
<1>19. ASSUME NEW p \in Proc, StopRuntime(p)
       PROVE  ResolvedInv'
  BY <1>2, <1>19 DEF StopRuntime, durable, ledger
<1>20. ASSUME NEW p \in Proc, Launch(p)
       PROVE  ResolvedInv'
  BY <1>20 DEF Launch, durable, ledger, ResolvedInv
<1>21. ASSUME NEW p \in Proc, ResolveActiveHost(p)
       PROVE  ResolvedInv'
  <2>1. \/ active \in activated \cup {Baseline}
        \/ active = pending[p] /\ pending[p] \in decisions
    <3>1. CASE Settled
      <4>1. rec.phase = "complete" \/ (rec.phase = "rolled-back" /\ ~Committed)
        BY <1>1, <3>1 DEF Settled, Inductive, UndecidedHasNoReceipt, Committed
      <4>2. active = Stable
        BY <1>1, <1>21, <4>1 DEF ResolveActiveHost, Expected, Stable
      <4> QED
        BY <4>2 DEF Inductive, StableIsReceipted
    <3>2. CASE PendingOn(pending[p])
      BY <1>1, <1>21, <3>2 DEF ResolveActiveHost, PendingOn, Expected, TrialIsConsumed
    <3> QED
      BY <1>21, <3>1, <3>2 DEF ResolveActiveHost
  <2> QED
    BY <1>21, <2>1 DEF ResolveActiveHost, Answer, Free, durable, ledger, ResolvedInv
<1>22. ASSUME NEW p \in Proc, NEW r \in Review, ResolvePendingHost(p, r) \/ ResolveRecoveredHost(p, r)
       PROVE  ResolvedInv'
  <2>1. pending[p] = r /\ r \in decisions
    BY <1>22 DEF ResolvePendingHost, ResolveRecoveredHost, BindingHolds, PendingOn, TrialIsConsumed
  <2>2. lease'[p].at = "tried" /\ \A q \in Proc : q # p => lease'[q] = lease[q]
    BY <1>22, NowEffect DEF ResolvePendingHost, ResolveRecoveredHost, Stage
  <2> QED
    BY <1>22, <2>1, <2>2 DEF ResolvePendingHost, ResolveRecoveredHost, Answer, Free, durable, ledger,
         ResolvedInv
<1>23. ASSUME NEW p \in Proc, TrialFails(p)
       PROVE  ResolvedInv'
  <2>1. \A q \in Proc : q # p => lease'[q] = lease[q]
    BY <1>23, FailsEffect DEF TrialFails
  <2> QED
    BY <1>23, <2>1 DEF TrialFails, durable, ledger, ResolvedInv
<1>24. ASSUME NEW p \in Proc, GivingUpHalts(p) \/ RollbackRefused(p) \/ FallbackRefused(p)
       PROVE  ResolvedInv'
  <2>1. resolved[p] = None
    BY <1>24 DEF GivingUpHalts, RollbackRefused, FallbackRefused, ResolvedInv
  <2>2. \A q \in Proc : q # p => lease'[q] = lease[q]
    BY <1>24, NowEffect DEF GivingUpHalts, RollbackRefused, FallbackRefused, Stage
  <2> QED
    BY <1>24, <2>1, <2>2 DEF GivingUpHalts, RollbackRefused, FallbackRefused, durable, ledger, ResolvedInv
<1>25. ASSUME NEW p \in Proc, NEW r \in Review, Undertake(p, r)
       PROVE  ResolvedInv'
  BY <1>25 DEF Undertake, durable, ledger, ResolvedInv
<1>26. ASSUME NEW p \in Proc, NEW r \in Review,
              Install(p, r) \/ BeginActivate(p, r) \/ BeginComplete(p, r)
       PROVE  ResolvedInv'
  BY <1>26 DEF Install, BeginActivate, BeginComplete, Trying, Take, durable, ledger, ResolvedInv
<1>27. ASSUME NEW p \in Proc, NEW r \in Review, ResumePending(p, r)
       PROVE  ResolvedInv'
  <2>1. resolved[p] = None
    BY <1>27 DEF ResumePending, Trying, ResolvedInv
  <2> QED
    BY <1>27, <2>1 DEF ResumePending, durable, ledger, ResolvedInv
<1>28. ASSUME Environment \/ UNCHANGED vars
       PROVE  ResolvedInv'
  BY <1>2, <1>28 DEF Environment, LedgerBusy, LedgerFree, LedgerBreaks, vars, durable, ledger
<1> QED
  BY <1>4, <1>5, <1>6, <1>7, <1>9, <1>10, <1>12, <1>13, <1>14, <1>16, <1>17, <1>18, <1>19, <1>20,
     <1>21, <1>22, <1>23, <1>24, <1>25, <1>26, <1>27, <1>28
  DEF Next, Process, Advance, Recover, GiveUp, Operate

\* Only the spawn of an answer puts a child of another version to work.
LEMMA ServedByLaunch ==
  ASSUME TypeInv, [Next]_vars, NEW p \in Proc, serving'[p] \notin {serving[p], None}
  PROVE  Launch(p)
<1>1. ASSUME NEW q \in Proc, StopRuntime(q) \/ Crash(q)
      PROVE  serving'[p] \in {serving[p], None}
  BY <1>1 DEF StopRuntime, Crash, TypeInv, Formed, TypeOK
<1>2. ASSUME NEW q \in Proc, Launch(q), q # p
      PROVE  serving'[p] = serving[p]
  BY <1>2 DEF Launch, TypeInv, Formed, TypeOK
<1>3. ASSUME NEW q \in Proc,
             \/ RecordInstallation(q) \/ RefuseDecision(q) \/ WritePrevious(q) \/ WriteActive(q)
             \/ RestorePrevious(q) \/ RestoreActive(q) \/ PublishReceipt(q)
             \/ CompletionCancelled(q) \/ CompletionUnread(q)
             \/ RecoverSettled(q) \/ RecoverRefused(q) \/ ResumeRefused(q)
             \/ ResolveActiveHost(q) \/ TrialFails(q) \/ GivingUpHalts(q)
             \/ RollbackRefused(q) \/ FallbackRefused(q)
             \/ Start(q) \/ Close(q) \/ OperationFails(q)
      PROVE  UNCHANGED serving
  BY <1>3 DEF RecordInstallation, RefuseDecision, WritePrevious, WriteActive, RestorePrevious,
       RestoreActive, PublishReceipt, CompletionCancelled, CompletionUnread, RecoverSettled,
       RecoverRefused, ResumeRefused, ResolveActiveHost, Answer, TrialFails, GivingUpHalts,
       RollbackRefused, FallbackRefused, Start, Close, OperationFails, memory
<1>4. ASSUME NEW q \in Proc,
             \/ ConsumeDecision(q) \/ Prepare(q) \/ MarkPrevious(q) \/ MarkActive(q)
             \/ MarkPending(q) \/ MarkRolledBack(q) \/ MarkComplete(q)
             \/ RecoverCommitted(q) \/ RecoverInterrupted(q)
      PROVE  UNCHANGED serving
  BY <1>4 DEF ConsumeDecision, Prepare, MarkPrevious, MarkActive, MarkPending, MarkRolledBack,
       MarkComplete, RecoverCommitted, RecoverInterrupted, memory
<1>5. ASSUME NEW q \in Proc, NEW r \in Review,
             \/ Undertake(q, r) \/ Install(q, r) \/ BeginActivate(q, r) \/ BeginRollback(q, r)
             \/ ResumePending(q, r) \/ ResolvePendingHost(q, r) \/ ResolveRecoveredHost(q, r)
             \/ BeginComplete(q, r)
      PROVE  UNCHANGED serving
  BY <1>5 DEF Undertake, Install, BeginActivate, BeginRollback, ResumePending, ResolvePendingHost,
       ResolveRecoveredHost, Answer, BeginComplete, memory
<1>6. ASSUME Environment \/ UNCHANGED vars
      PROVE  UNCHANGED serving
  BY <1>6 DEF Environment, LedgerBusy, LedgerFree, LedgerBreaks, vars, memory
<1> QED
  BY <1>1, <1>2, <1>3, <1>4, <1>5, <1>6 DEF Next, Process, Advance, Recover, GiveUp, Operate

\* A child runs an accepted version, or the candidate this very panel tries by a
\* decision that was consumed, although its answer may have been overtaken.
THEOREM LaunchesAreAuthorised == Spec => LaunchIsAuthorised
<1>1. Init => TrialIsConsumed /\ ResolvedInv
  BY DEF Init, TrialIsConsumed, ResolvedInv
<1>2. TypeInv /\ Inductive /\ TrialIsConsumed /\ ResolvedInv /\ [Next]_vars
        => (TypeInv /\ Inductive /\ TrialIsConsumed /\ ResolvedInv)'
  BY TypeStep, InductiveStep, TrialStep, ResolvedStep
<1>3. Spec => [](TypeInv /\ ResolvedInv)
  BY <1>1, <1>2, TypeInit, InductiveInit, PTL DEF Spec
<1>4. ASSUME TypeInv, ResolvedInv, [Next]_vars, NEW p \in Proc, serving'[p] \notin {serving[p], None}
      PROVE  \/ serving'[p] \in activated \cup {Baseline}
             \/ pending[p] = serving'[p] /\ pending[p] \in decisions
  <2>1. Launch(p)
    BY <1>4, ServedByLaunch
  <2>2. serving'[p] = resolved[p] /\ resolved[p] # None
    BY <1>4, <2>1 DEF Launch, TypeInv, Formed, TypeOK
  <2> QED
    BY <1>4, <2>2 DEF ResolvedInv
<1>5. TypeInv /\ ResolvedInv /\ [Next]_vars =>
        [\A p \in Proc : serving'[p] \notin {serving[p], None} =>
           \/ serving'[p] \in activated \cup {Baseline}
           \/ pending[p] = serving'[p] /\ pending[p] \in decisions]_vars
  BY <1>4
<1> QED
  BY <1>3, <1>5, PTL DEF Spec, LaunchIsAuthorised

-------------------------------------------------------------------------------
(* The store implements the contract.  Only the journal, the decisions, the *)
(* published receipts and the step before the journal's first record are    *)
(* visible there: file writes, locks, crashes and recoveries are stutters.  *)

ContractStep == Contract!Next \/ UNCHANGED Contract!vars

\* The lock given up, or kept at a step that has nothing granted.
LEMMA QuietStep ==
  ASSUME UNCHANGED <<rec, activated, decisions>>,
         step' # "prepare" \/ UNCHANGED <<step, call>>
  PROVE  ContractStep
<1>1. /\ Stable' = Stable
      /\ (IF Settled \/ Committed THEN None ELSE rec.candidate)'
           = IF Settled \/ Committed THEN None ELSE rec.candidate
  BY DEF Stable, Settled, Committed
<1>2. CASE step' # "prepare"
  BY <1>1, <1>2 DEF ContractStep, Contract!Next, Contract!Lose
<1>3. CASE UNCHANGED <<step, call>>
  BY <1>1, <1>3 DEF ContractStep, Contract!vars
<1> QED
  BY <1>2, <1>3

\* A journal marked further while its activation stays unsettled, or stays
\* committed, changes nothing the contract shows.
LEMMA MarkedOn ==
  ASSUME rec # None, rec' # None,
         rec'.candidate = rec.candidate, rec'.previous = rec.previous,
         UNCHANGED <<activated, decisions>>,
         step # "prepare", step' # "prepare",
         \/ /\ ~Settled /\ ~Committed
            /\ rec'.phase \notin {"complete", "rolled-back"}
         \/ Committed
  PROVE  ContractStep
<1>1. Stable' = Stable
  BY DEF Stable, Settled, Committed
<1>2. (IF Settled \/ Committed THEN None ELSE rec.candidate)'
         = IF Settled \/ Committed THEN None ELSE rec.candidate
  BY DEF Settled, Committed
<1> QED
  BY <1>1, <1>2 DEF ContractStep, Contract!vars

\* Each step of the store is a step of the contract or a stutter.
LEMMA ContractStepOfNext ==
  ASSUME TypeInv, Inductive, [Next]_vars
  PROVE  ContractStep
<1>0. rec # None /\ rec \in State
  BY DEF TypeInv, Formed, TypeOK, Inductive, UndecidedHasNoReceipt
<1>1. CASE UNCHANGED vars
  BY <1>1, QuietStep DEF vars, durable, ledger, lock
<1>2. ASSUME NEW p \in Proc, RecordInstallation(p)
      PROVE  ContractStep
  BY <1>2, QuietStep DEF RecordInstallation, Release, ledger
<1>3. ASSUME NEW p \in Proc, RefuseDecision(p)
      PROVE  ContractStep
  BY <1>3, QuietStep DEF RefuseDecision, Release, durable, ledger
<1>4. ASSUME NEW p \in Proc, WritePrevious(p)
      PROVE  ContractStep
  BY <1>4, QuietStep DEF WritePrevious, Goto, ledger
<1>5. ASSUME NEW p \in Proc, WriteActive(p)
      PROVE  ContractStep
  BY <1>5, QuietStep DEF WriteActive, Goto, ledger
<1>6. ASSUME NEW p \in Proc, RestorePrevious(p)
      PROVE  ContractStep
  BY <1>6, QuietStep DEF RestorePrevious, Goto, ledger
<1>7. ASSUME NEW p \in Proc, RestoreActive(p)
      PROVE  ContractStep
  BY <1>7, QuietStep DEF RestoreActive, Goto, ledger
<1>8. ASSUME NEW p \in Proc, CompletionCancelled(p)
      PROVE  ContractStep
  BY <1>8, QuietStep DEF CompletionCancelled, Release, durable, ledger
<1>9. ASSUME NEW p \in Proc, CompletionUnread(p)
      PROVE  ContractStep
  BY <1>9, QuietStep DEF CompletionUnread, Release, durable, ledger
<1>10. ASSUME NEW p \in Proc, RecoverSettled(p)
      PROVE  ContractStep
  BY <1>10, QuietStep DEF RecoverSettled, durable, ledger, lock
<1>11. ASSUME NEW p \in Proc, RecoverRefused(p)
      PROVE  ContractStep
  BY <1>11, QuietStep DEF RecoverRefused, durable, ledger, lock
<1>12. ASSUME NEW p \in Proc, ResumeRefused(p)
      PROVE  ContractStep
  BY <1>12, QuietStep DEF ResumeRefused, durable, ledger, lock
<1>13. ASSUME NEW p \in Proc, Start(p)
      PROVE  ContractStep
  BY <1>13, QuietStep DEF Start, durable, ledger, lock
<1>14. ASSUME NEW p \in Proc, StopRuntime(p)
      PROVE  ContractStep
  BY <1>14, QuietStep DEF StopRuntime, durable, ledger, lock
<1>15. ASSUME NEW p \in Proc, Close(p)
      PROVE  ContractStep
  BY <1>15, QuietStep DEF Close, durable, ledger, lock
<1>16. ASSUME NEW p \in Proc, Crash(p)
      PROVE  ContractStep
  BY <1>16, QuietStep DEF Crash, Release, durable, ledger, lock
<1>17. ASSUME NEW p \in Proc, OperationFails(p)
      PROVE  ContractStep
  BY <1>17, QuietStep DEF OperationFails, Release, durable, ledger
<1>18. ASSUME NEW p \in Proc, ResolveActiveHost(p)
      PROVE  ContractStep
  BY <1>18, QuietStep DEF ResolveActiveHost, Answer, durable, ledger, lock
<1>19. ASSUME NEW p \in Proc, NEW r \in Review, Install(p, r)
      PROVE  ContractStep
  BY <1>19, QuietStep DEF Install, Take, ledger
<1>20. ASSUME NEW p \in Proc, NEW r \in Review, BeginActivate(p, r)
      PROVE  ContractStep
  BY <1>20, QuietStep DEF BeginActivate, durable, ledger
<1>21. ASSUME NEW p \in Proc, NEW r \in Review, ResumePending(p, r)
      PROVE  ContractStep
  BY <1>21, QuietStep DEF ResumePending, durable, ledger, lock
<1>22. ASSUME NEW p \in Proc, NEW r \in Review, ResolvePendingHost(p, r)
      PROVE  ContractStep
  BY <1>22, QuietStep DEF ResolvePendingHost, Answer, durable, ledger, lock
<1>23. ASSUME NEW p \in Proc, NEW r \in Review, ResolveRecoveredHost(p, r)
      PROVE  ContractStep
  BY <1>23, QuietStep DEF ResolveRecoveredHost, Answer, durable, ledger, lock
<1>24. ASSUME NEW p \in Proc, NEW r \in Review, BeginComplete(p, r)
      PROVE  ContractStep
  BY <1>24, QuietStep DEF BeginComplete, Take, ledger
<1>25. CASE Environment
  BY <1>25, QuietStep DEF Environment, LedgerBusy, LedgerFree, LedgerBreaks, durable, ledger, lock
<1>26. ASSUME NEW p \in Proc, MarkPrevious(p)
      PROVE  ContractStep
  <2>1. rec.phase \in {"prepared", "previous-written", "active-written"} /\ ~Committed
    BY <1>26, <1>0, ActivationJournal DEF MarkPrevious, Inductive, UndecidedHasNoReceipt, Committed
  <2>2. rec' # None /\ rec'.phase = "previous-written"
        /\ rec'.candidate = rec.candidate /\ rec'.previous = rec.previous
    BY <1>26, <1>0, MarkEffect DEF MarkPrevious, Phase, TypeInv, Formed
  <2> QED
    BY <1>26, <1>0, <2>1, <2>2, MarkedOn DEF MarkPrevious, Goto, Release, ledger, Settled
<1>27. ASSUME NEW p \in Proc, MarkActive(p)
      PROVE  ContractStep
  <2>1. rec.phase \in {"prepared", "previous-written", "active-written"} /\ ~Committed
    BY <1>27, <1>0, ActivationJournal DEF MarkActive, Inductive, UndecidedHasNoReceipt, Committed
  <2>2. rec' # None /\ rec'.phase = "active-written"
        /\ rec'.candidate = rec.candidate /\ rec'.previous = rec.previous
    BY <1>27, <1>0, MarkEffect DEF MarkActive, Phase, TypeInv, Formed
  <2> QED
    BY <1>27, <1>0, <2>1, <2>2, MarkedOn DEF MarkActive, Goto, Release, ledger, Settled
<1>28. ASSUME NEW p \in Proc, MarkPending(p)
      PROVE  ContractStep
  <2>1. rec.phase \in {"prepared", "previous-written", "active-written"} /\ ~Committed
    BY <1>28, <1>0, ActivationJournal DEF MarkPending, Inductive, UndecidedHasNoReceipt, Committed
  <2>2. rec' # None /\ rec'.phase = "pending-verification"
        /\ rec'.candidate = rec.candidate /\ rec'.previous = rec.previous
    BY <1>28, <1>0, MarkEffect DEF MarkPending, Phase, TypeInv, Formed
  <2> QED
    BY <1>28, <1>0, <2>1, <2>2, MarkedOn DEF MarkPending, Goto, Release, ledger, Settled
<1>29. ASSUME NEW p \in Proc, ConsumeDecision(p)
      PROVE  ContractStep
  <2>1. Settled /\ call.review \in Review
    BY <1>29 DEF ConsumeDecision, Inductive, StepsFit
  <2>2. UNCHANGED <<Stable, Settled, Committed>>
    BY <1>29 DEF ConsumeDecision, ledger, Stable, Settled, Committed
  <2>3. Contract!Consume(call.review)
    BY <1>29, <2>1, <2>2 DEF ConsumeDecision, Goto, ledger, Contract!Consume
  <2> QED
    BY <2>1, <2>3 DEF ContractStep, Contract!Next
<1>30. ASSUME NEW p \in Proc, Prepare(p)
      PROVE  ContractStep
  <2>1. /\ rec' = [phase |-> "prepared", candidate |-> call.review,
                   previous |-> call.base, prior |-> call.prior]
        /\ step' = "write-previous" /\ UNCHANGED <<activated, decisions>>
    BY <1>30 DEF Prepare, Goto, ledger
  <2>2. rec' # None
    BY <1>30, <2>1, InductiveStep DEF Next, Process, Advance, Inductive, UndecidedHasNoReceipt
  <2>3. /\ call.review \in Review /\ call.review \notin activated
        /\ Settled /\ call.base = Expected
    BY <1>30 DEF Prepare, Inductive, StepsFit
  <2>4. ~Settled' /\ ~Committed' /\ rec'.candidate = call.review
    BY <2>1, <2>2, <2>3 DEF Settled, Committed
  <2>5. Stable' = call.base
    BY <2>1, <2>2, <2>4 DEF Stable
  <2>6. Stable = Expected
    BY <1>0, <2>3 DEF Stable, Expected, Settled, Inductive, UndecidedHasNoReceipt, Committed
  <2>7. Contract!Try(call.review)
    BY <1>30, <2>1, <2>3, <2>4, <2>5, <2>6 DEF Prepare, Contract!Try
  <2> QED
    BY <2>3, <2>7 DEF ContractStep, Contract!Next
<1>31. ASSUME NEW p \in Proc, RecoverInterrupted(p)
      PROVE  ContractStep
  <2>1. ~Settled /\ ~Committed
    BY <1>31, <1>0 DEF RecoverInterrupted, Settled, Inductive, StableIsReceipted, Stable, Committed
  <2>2. rec' # None /\ rec'.phase = "rolling-back"
        /\ rec'.candidate = rec.candidate /\ rec'.previous = rec.previous
    BY <1>31, <1>0, MarkEffect DEF RecoverInterrupted, Phase, TypeInv, Formed
  <2>3. step = "idle" /\ step' = "restore-previous" /\ UNCHANGED <<activated, decisions>>
    BY <1>31 DEF RecoverInterrupted, MayRecover, Free, Take, ledger, Inductive, StepsFit
  <2> QED
    BY <1>0, <2>1, <2>2, <2>3, MarkedOn
<1>32. ASSUME NEW p \in Proc, NEW r \in Review, BeginRollback(p, r)
      PROVE  ContractStep
  <2>0. rec.candidate = r /\ r # Baseline
    BY <1>32 DEF BeginRollback, Trying, MayRollback, TypeInv, LeaseHeld
  <2>1. ~Settled /\ ~Committed
    BY <1>32, <1>0, <2>0 DEF BeginRollback, MayRollback, Settled, Inductive, StableIsReceipted, Stable, Committed
  <2>2. rec' # None /\ rec'.phase = "rolling-back"
        /\ rec'.candidate = rec.candidate /\ rec'.previous = rec.previous
    BY <1>32, <1>0, MarkEffect DEF BeginRollback, Phase, TypeInv, Formed
  <2>3. step = "idle" /\ step' = "restore-previous" /\ UNCHANGED <<activated, decisions>>
    BY <1>32 DEF BeginRollback, MayRecover, Free, Take, ledger, Inductive, StepsFit
  <2> QED
    BY <1>0, <2>1, <2>2, <2>3, MarkedOn
<1>33. ASSUME NEW p \in Proc, MarkRolledBack(p)
      PROVE  ContractStep
  <2>1. ~Settled /\ ~Committed /\ rec.phase = "rolling-back"
    BY <1>33, <1>0 DEF MarkRolledBack, Settled, Inductive, StepsFit, UndecidedHasNoReceipt, Committed
  <2>2. rec' # None /\ rec'.phase = "rolled-back"
        /\ rec'.candidate = rec.candidate /\ rec'.previous = rec.previous
    BY <1>33, <1>0, MarkEffect DEF MarkRolledBack, Phase, TypeInv, Formed
  <2>3. step # "prepare" /\ step' # "prepare" /\ UNCHANGED <<activated, decisions>>
    BY <1>33 DEF MarkRolledBack, Release, ledger
  <2>4. Settled' /\ Stable' = rec.previous /\ Stable = rec.previous
    BY <1>0, <2>1, <2>2, <2>3 DEF Settled, Stable, Committed
  <2>5. rec.candidate # None
    BY <1>0 DEF State
  <2>6. Contract!Abandon
    BY <2>1, <2>3, <2>4, <2>5 DEF Contract!Abandon
  <2> QED
    BY <2>6 DEF ContractStep, Contract!Next
<1>34. ASSUME NEW p \in Proc, PublishReceipt(p)
      PROVE  ContractStep
  <2>1. /\ rec.phase = "pending-verification" /\ rec.candidate = call.review
        /\ step = "publish" /\ step' # "prepare"
        /\ activated' = activated \cup {call.review} /\ UNCHANGED <<rec, decisions>>
    BY <1>34 DEF PublishReceipt, Goto, Release, durable, Inductive, StepsFit, PendingOn
  <2>2. CASE call.review \in activated
    <3>1. activated' = activated
      BY <2>1, <2>2
    <3> QED
      BY <2>1, <3>1, QuietStep
  <2>3. CASE call.review \notin activated
    <3>1. ~Settled /\ ~Committed /\ Committed'
      BY <1>0, <2>1, <2>3 DEF Settled, Committed
    <3>2. Stable' = rec.candidate
      BY <1>0, <2>1, <3>1 DEF Stable
    <3>3. rec.candidate # None
      BY <1>0 DEF State
    <3>4. Contract!Commit
      BY <2>1, <3>1, <3>2, <3>3 DEF Contract!Commit
    <3> QED
      BY <3>4 DEF ContractStep, Contract!Next
  <2> QED
    BY <2>2, <2>3
<1>35. ASSUME NEW p \in Proc, MarkComplete(p)
      PROVE  ContractStep
  <2>1. Committed
    BY <1>35 DEF MarkComplete, Inductive, StepsFit, PendingOn, Committed
  <2>2. rec' # None /\ rec'.candidate = rec.candidate /\ rec'.previous = rec.previous
    BY <1>35, <1>0, MarkEffect DEF MarkComplete, Phase, TypeInv, Formed
  <2>3. step # "prepare" /\ step' # "prepare" /\ UNCHANGED <<activated, decisions>>
    BY <1>35 DEF MarkComplete, MayRecover, Free, Release, ledger, lock, Inductive, StepsFit
  <2> QED
    BY <1>0, <2>1, <2>2, <2>3, MarkedOn
<1>36. ASSUME NEW p \in Proc, RecoverCommitted(p)
      PROVE  ContractStep
  <2>1. Committed
    BY <1>36 DEF RecoverCommitted, Inductive, StepsFit, PendingOn, Committed
  <2>2. rec' # None /\ rec'.candidate = rec.candidate /\ rec'.previous = rec.previous
    BY <1>36, <1>0, MarkEffect DEF RecoverCommitted, Phase, TypeInv, Formed
  <2>3. step # "prepare" /\ step' # "prepare" /\ UNCHANGED <<activated, decisions>>
    BY <1>36 DEF RecoverCommitted, MayRecover, Free, Release, ledger, lock, Inductive, StepsFit
  <2> QED
    BY <1>0, <2>1, <2>2, <2>3, MarkedOn
<1>37. ASSUME NEW p \in Proc, \/ Launch(p) \/ TrialFails(p) \/ GivingUpHalts(p)
                               \/ RollbackRefused(p) \/ FallbackRefused(p)
      PROVE  ContractStep
  BY <1>37, QuietStep DEF Launch, TrialFails, GivingUpHalts, RollbackRefused, FallbackRefused,
       durable, ledger, lock
<1>38. ASSUME NEW p \in Proc, NEW r \in Review, Undertake(p, r)
      PROVE  ContractStep
  BY <1>38, QuietStep DEF Undertake, durable, ledger, lock
<1> QED
  BY <1>1, <1>2, <1>3, <1>4, <1>5, <1>6, <1>7, <1>8, <1>9, <1>10, <1>11, <1>12, <1>13, <1>14, <1>15, <1>16, <1>17, <1>18, <1>19, <1>20,
     <1>21, <1>22, <1>23, <1>24, <1>25, <1>26, <1>27, <1>28, <1>29, <1>30, <1>31, <1>32, <1>33, <1>34, <1>35, <1>36, <1>37, <1>38
  DEF Next, Process, Advance, Recover, GiveUp, Operate

\* The journal keeps the contract: one good version at a time, replaced only by
\* committing a trial that one consumed decision opened.
THEOREM ImplementsContract == Spec => ContractKept
<1>1. Init => Contract!Init
  <2> SUFFICES ASSUME Init PROVE Contract!Init
    OBVIOUS
  <2>1. /\ rec = [phase |-> "complete", candidate |-> Baseline,
                  previous |-> None, prior |-> None]
        /\ decisions = {} /\ step = "idle"
    BY DEF Init
  <2>2. rec # None
    BY InductiveInit DEF Inductive, UndecidedHasNoReceipt
  <2>3. Stable = Baseline /\ Settled
    BY <2>1, <2>2 DEF Stable, Settled
  <2> QED
    BY <2>1, <2>3 DEF Contract!Init
<1>2. TypeInv /\ Inductive /\ [Next]_vars => [Contract!Next]_(Contract!vars)
  BY ContractStepOfNext DEF ContractStep
<1>3. Spec => [](TypeInv /\ Inductive)
  BY TypeInit, TypeStep, JournalInvariant, PTL DEF Spec
<1> QED
  BY <1>1, <1>2, <1>3, PTL DEF Spec, ContractKept, Contract!Spec
===============================================================================
