-------------------------- MODULE ReviewCoordinator --------------------------
(***************************************************************************)
(* review/review-coordinator.js: one coordinator per bootstrap process     *)
(* over the receipts, the nonces and the pin they share.  An operation is  *)
(* a sequence of #move; each checks the chain and appends in two steps.    *)
(* ChromeInvocation has the inside of a Chrome review, VersionStore that   *)
(* of the store, ReceiptLedger that of an append.                          *)
(***************************************************************************)
EXTENDS Naturals, Sequences, FiniteSets

CONSTANTS Panel,
          MaxReview, MaxLife, MaxFault   \* bounds: reviews, process starts, I/O faults
ASSUME CoordinatorAssumption ==
  MaxReview \in Nat \ {0} /\ MaxLife \in Nat \ {0} /\ MaxFault \in Nat

VARIABLES
  chain,   \* the receipts: [review, event, art, life]
  spent,   \* consumed nonces: <<review, action>>
  pin,     \* the review whose candidate is pinned, 0 for the first version
  pending, \* the review whose activation the store's journal holds, or 0
  proc,    \* proc[p]: the coordinator of panel p, see Process
  resumes, \* whether the launcher calls resumePendingActivation
  lives, faults

vars == <<chain, spent, pin, pending, proc, resumes, lives, faults>>

Early    == {"available", "staged", "deterministic-review", "codex-review"}
Terminal == {"activated", "review-failed", "rejected", "rolled-back", "custody-broken"}
Event    == Early \cup Terminal \cup {"chrome-semantic-review", "eligible", "human-accepted",
              "activating", "activation-failed", "rolling-back"}

\* policy.stateTransitions of review-policy.v2
Steps ==
  {<<"none", "available">>, <<"available", "staged">>, <<"staged", "deterministic-review">>,
   <<"deterministic-review", "codex-review">>, <<"eligible", "human-accepted">>,
   <<"eligible", "rejected">>, <<"human-accepted", "activating">>,
   <<"activating", "activated">>, <<"activating", "activation-failed">>,
   <<"activation-failed", "rolling-back">>, <<"rolling-back", "rolled-back">>}
  \cup {<<"codex-review", "chrome-semantic-review">>, <<"chrome-semantic-review", "eligible">>,
         <<"chrome-semantic-review", "review-failed">>}
  \cup {<<e, "review-failed">> : e \in Early \ {"available"}}
  \cup {<<e, "custody-broken">> : e \in Event \ Terminal}

Review  == 1 .. MaxReview
\* a semantic artifact, by the process that made it (they carry its times)
Artifact == 0 .. MaxLife
Receipt == [review : Review, event : Event, art : Artifact, life : 1 .. MaxLife]
Off == [life |-> 0, pc |-> "off", op |-> "none", st |-> "none", review |-> 0, tail |-> 0,
        init |-> FALSE, fresh |-> FALSE, finalized |-> FALSE, offered |-> FALSE,
        to |-> "none", art |-> 0]

Process ==
  [life : 0 .. MaxLife,
   pc : {"off", "idle", "init", "integrity", "run", "check", "append", "halted"},
   op : {"none", "status", "start", "accept", "reject", "resume", "rollback"},
   st : Event \cup {"none"}, review : 0 .. MaxReview, tail : Nat, init : BOOLEAN,
   fresh : BOOLEAN, finalized : BOOLEAN, offered : BOOLEAN,
   to : Event \cup {"none"}, art : Artifact]

TypeOK ==
  /\ chain \in Seq(Receipt) /\ spent \subseteq Review \X {"accept", "reject"}
  /\ pin \in 0 .. MaxReview /\ pending \in 0 .. MaxReview
  /\ lives \in 0 .. MaxLife /\ faults \in 0 .. MaxFault
  /\ proc \in [Panel -> Process] /\ resumes \in BOOLEAN

\* the places in the chain of one review's receipts, and the last of some
Of(r)       == {i \in DOMAIN chain : chain[i].review = r}
Before(i)   == {j \in Of(chain[i].review) : j < i}
Latest(S)   == IF S = {} THEN "none" ELSE chain[CHOOSE i \in S : \A j \in S : j <= i].event
LastOf(r)   == Latest(Of(r))
ArtOf(r)    == {chain[i].art : i \in Of(r)} \ {0}
Has(r, e)   == \E i \in Of(r) : chain[i].event = e
Reviews     == {chain[i].review : i \in DOMAIN chain}
\* #initialize replays every review against its policy's table
Legal(r)    == \A i \in Of(r) : <<Latest(Before(i)), chain[i].event>> \in Steps

Set(p, new)   == proc' = [proc EXCEPT ![p] = new]
Shared        == UNCHANGED <<chain, spent, pin, pending, resumes, lives, faults>>
Ended(q)      == [q EXCEPT !.pc = "idle", !.op = "none", !.to = "none", !.art = 0]
Halted(q)     == [Ended(q) EXCEPT !.pc = "halted", !.offered = FALSE]
Moving(q, to) == [q EXCEPT !.pc = "check", !.to = to]
Giving(q, to) == [Moving(q, to) EXCEPT !.op = "rollback"]   \* the catch of an activation
At(p, pc)     == proc[p].pc = pc
Doing(p, op)  == At(p, "run") /\ proc[p].op = op

-----------------------------------------------------------------------------
Init ==
  /\ chain = <<>> /\ spent = {} /\ pin = 0 /\ pending = 0 /\ lives = 0 /\ faults = 0
  /\ resumes \in BOOLEAN
  /\ proc = [p \in Panel |-> Off]

\* a recovery that does not ask the chain
RecoveredBlind == pending' = 0 /\ pin' = pin
\* versionStore.recover(): what the journal holds is completed when the chain has
\* its activation, and rolled back otherwise, whoever it belongs to
Recovered ==
  /\ pending' = 0
  /\ pin' = (IF pending # 0 /\ Has(pending, "activated") THEN pending ELSE pin)

\* runBootstrap recovers the store, unless it is started to resume; a launcher
\* that resumes runs one panel at a time
Boot(p) ==
  /\ At(p, "off") /\ lives < MaxLife /\ lives' = lives + 1
  /\ resumes => \A x \in Panel : At(x, "off")
  /\ UNCHANGED <<chain, spent, resumes, faults>>
  /\ \/ Recovered
     \/ resumes /\ pending # 0 /\ LastOf(pending) = "activating" /\ UNCHANGED <<pin, pending>>
  /\ Set(p, IF resumes THEN [Off EXCEPT !.life = lives', !.pc = "init", !.op = "resume"]
            ELSE [Off EXCEPT !.life = lives', !.pc = "idle"])

Die(p) == proc[p].life # 0 /\ Set(p, Off) /\ Shared

\* the router's calls: #exclusive takes one at a time
Call(p, op) ==
  /\ At(p, "idle") /\ Shared
  /\ Set(p, [proc[p] EXCEPT !.op = op, !.pc = IF proc[p].init THEN "integrity" ELSE "init"])

\* the state of the last review, and a Chrome review that was cut short is failed
Known(q) ==
  LET last == chain[Len(chain)] IN
  IF chain = <<>> THEN [q EXCEPT !.pc = "integrity", !.init = TRUE]
  ELSE IF last.event = "chrome-semantic-review"
  THEN [Moving(q, "review-failed") EXCEPT !.art = q.life, !.st = last.event, !.review = last.review]
  ELSE [q EXCEPT !.pc = "integrity", !.init = TRUE, !.st = last.event, !.review = last.review]

Initialize(p) ==
  /\ At(p, "init") /\ Shared
  /\ LET q == [proc[p] EXCEPT !.tail = Len(chain)] IN
     Set(p, IF \E r \in Reviews : ~Legal(r) \/ Has(r, "custody-broken") THEN Halted(q) ELSE Known(q))

\* #integrity: another tail than the one this coordinator wrote or read
Agrees(p, pc) ==
  Set(p, IF proc[p].tail # Len(chain) THEN Halted(proc[p]) ELSE [proc[p] EXCEPT !.pc = pc])
Integrity(p) == At(p, "integrity") /\ Agrees(p, "run") /\ Shared
Check(p)     == At(p, "check") /\ Agrees(p, "append") /\ Shared

\* a chain that is busy, unreadable or cannot be written to
Fault(p) ==
  /\ proc[p].pc \in {"init", "integrity", "check", "append"} /\ faults < MaxFault
  /\ faults' = faults + 1 /\ Set(p, Halted(proc[p]))
  /\ UNCHANGED <<chain, spent, pin, pending, resumes, lives>>

-----------------------------------------------------------------------------
(* finalizeEvent, and what #move makes of its receipt.                      *)
\* the receipt that came back, or halt
After(q) ==
  LET done == [q EXCEPT !.st = q.to, !.tail = Len(chain) + 1, !.to = "none", !.art = 0] IN
  IF q.tail # Len(chain) \/ q.to = "custody-broken" THEN Halted(q)
  ELSE IF ~q.init THEN [done EXCEPT !.pc = "integrity", !.init = TRUE]   \* #recoverChrome
  ELSE IF q.to \in Terminal THEN [Ended(done) EXCEPT !.offered = FALSE]
  ELSE [done EXCEPT !.pc = "run"]

\* one artifact per review, whoever publishes it (or any number of them)
RefusedNever(q) == ArtOf(q.review) # {} /\ q.art # 0 /\ FALSE
Refused(q) == ArtOf(q.review) # {} /\ q.art # 0 /\ q.art \notin ArtOf(q.review)
Receipted(q) == [review |-> q.review, event |-> q.to, life |-> q.life,
                 art |-> IF ArtOf(q.review) = {} THEN q.art ELSE CHOOSE a \in ArtOf(q.review) : TRUE]

AppendReceipt(p) ==
  /\ At(p, "append") /\ UNCHANGED <<spent, resumes, lives, faults>>
  /\ \/ /\ Refused(proc[p]) /\ Set(p, Halted(proc[p])) /\ UNCHANGED <<chain, pin, pending>>
     \/ /\ ~Refused(proc[p]) /\ (proc[p].to = "activated" => pending = proc[p].review)
        /\ chain' = Append(chain, Receipted(proc[p])) /\ Set(p, After(proc[p]))
        /\ \/ /\ proc[p].to = "activated" /\ proc[p].tail = Len(chain)
              /\ pin' = proc[p].review /\ pending' = 0
           \/ UNCHANGED <<pin, pending>>   \* the store may still fail to complete

\* CompletionCancelledError of a live guard: nothing is appended
Cancelled(p) ==
  /\ At(p, "append") /\ Shared
  /\ \/ /\ proc[p].to = "eligible"
        /\ Set(p, [Moving(proc[p], "review-failed") EXCEPT !.art = proc[p].life])
     \/ proc[p].to = "activated" /\ Set(p, Giving(proc[p], "activation-failed"))

-----------------------------------------------------------------------------
(* checkAvailability and startReview.                                       *)
Over(q)   == q.st \in Terminal \cup {"none"}
Unused    == Review \ (Reviews \cup {proc[x].review : x \in Panel})
Fetch(p) ==
  LET q == proc[p] IN
  /\ q.op \in {"status", "start"} /\ At(p, "run") /\ Shared
  /\ \/ (Over(q) \/ q.op = "status" \/ ~q.fresh \/ q.offered) /\ Set(p, Ended(q))
     \/ \E r \in Unused : /\ Over(q) /\ \A x \in Unused : r <= x
          /\ Set(p, [Moving(q, "available") EXCEPT !.st = "none", !.review = r,
                       !.fresh = TRUE, !.finalized = FALSE, !.offered = FALSE])

\* startReview's stages in their order, each with its failures
Stages(p) ==
  /\ Doing(p, "start") /\ proc[p].fresh /\ proc[p].st \in Early /\ Shared
  /\ \E to \in Event : <<proc[p].st, to>> \in Steps
       /\ Set(p, Moving(proc[p], to))

\* #runChrome: its artifact goes with the receipt; an error after entry halts
Chrome(p) ==
  /\ Doing(p, "start") /\ proc[p].st = "chrome-semantic-review" /\ Shared
  /\ \/ Set(p, [Moving(proc[p], "eligible") EXCEPT !.art = proc[p].life])
     \/ Set(p, [Moving(proc[p], "review-failed") EXCEPT !.art = proc[p].life])
     \/ Set(p, Halted(proc[p]))

\* after eligible: withdrawn, unbound, or both nonces are issued
Grant(p) ==
  /\ Doing(p, "start") /\ proc[p].st = "eligible" /\ proc[p].fresh /\ ~proc[p].offered /\ Shared
  /\ \/ Set(p, [Ended(proc[p]) EXCEPT !.offered = TRUE, !.finalized = TRUE])
     \/ Set(p, [Moving(proc[p], "rejected") EXCEPT !.fresh = FALSE])
     \/ Set(p, Halted(proc[p]))

-----------------------------------------------------------------------------
(* acceptReview, #rollback, rejectReview.                                   *)
Stays == UNCHANGED <<chain, pin, pending, resumes, lives, faults>>

\* the receipt before the nonce is consumed
DecideUnconsumed(p, act) ==
  LET q == proc[p] IN
  /\ Doing(p, act) /\ ~(q.fresh /\ q.st \in {"human-accepted", "activating"}) /\ Stays
  /\ \/ /\ q.fresh /\ q.st = "eligible" /\ q.offered /\ UNCHANGED spent
        /\ Set(p, Moving(q, IF act = "accept" THEN "human-accepted" ELSE "rejected"))
     \/ Set(p, Ended(q)) /\ UNCHANGED spent
\* #assertBinding, the candidate once more, consumeHuman
Decide(p, act) ==
  LET q == proc[p]
      bound == q.fresh /\ q.st = "eligible" /\ q.offered IN
  /\ Doing(p, act) /\ ~(q.fresh /\ q.st \in {"human-accepted", "activating"}) /\ Stays
  /\ \/ /\ bound /\ <<q.review, act>> \notin spent /\ spent' = spent \cup {<<q.review, act>>}
        /\ Set(p, Moving(q, IF act = "accept" THEN "human-accepted" ELSE "rejected"))
     \/ bound /\ Set(p, Moving(q, "rejected")) /\ UNCHANGED spent   \* expired
     \/ bound /\ act = "accept" /\ Set(p, Moving(q, "custody-broken")) /\ UNCHANGED spent
     \/ Set(p, Ended(q)) /\ UNCHANGED spent
     \/ bound /\ Set(p, [Ended(q) EXCEPT !.fresh = FALSE]) /\ UNCHANGED spent

Activate(p) ==
  LET q == proc[p] IN
  /\ Doing(p, "accept") /\ q.fresh /\ UNCHANGED <<chain, spent, pin, resumes, lives, faults>>
  /\ \/ q.st = "human-accepted" /\ Set(p, Moving(q, "activating")) /\ UNCHANGED pending
     \/ /\ q.st = "activating" /\ pending = 0 /\ pending' = q.review /\ UNCHANGED proc
     \/ /\ q.st = "activating" /\ pending = q.review
        /\ Set(p, Moving(q, "activated")) /\ UNCHANGED pending
     \/ q.st = "activating" /\ Set(p, Giving(q, "activation-failed")) /\ UNCHANGED pending

\* versionStore.rollback, and recover where that refuses; the candidate is rolled
\* back when the active version is then the one the review began with
Rollback(p) ==
  LET q == proc[p] IN
  /\ Doing(p, "rollback") /\ UNCHANGED <<chain, spent, resumes, lives, faults>>
  /\ \/ /\ \E to \in {"activating", "activation-failed", "rolling-back"} :
             <<q.st, to>> \in Steps /\ Set(p, Moving(q, to))
        /\ UNCHANGED <<pin, pending>>
     \/ /\ q.st = "rolling-back" /\ Recovered
        /\ \/ pin' = pin /\ Set(p, Moving(q, "rolled-back"))
           \/ Set(p, Moving(q, "custody-broken"))
     \/ q.st = "rolling-back" /\ Set(p, Moving(q, "custody-broken")) /\ UNCHANGED <<pin, pending>>

\* a resume that knows activations only
ResumeActivations(p) ==
  LET q == proc[p] IN
  /\ Doing(p, "resume") /\ Shared
  /\ \/ (Over(q) \/ q.fresh \/ q.st \in Early) /\ Set(p, Ended(q))
     \/ q.st = "eligible" /\ Set(p, Moving(q, "rejected"))
     \/ /\ q.st \in {"human-accepted", "activation-failed", "rolling-back"}
        /\ Set(p, [q EXCEPT !.op = "rollback"])
     \/ q.st = "activating" /\ pending = q.review /\ Set(p, Moving(q, "activated"))
     \/ q.st = "activating" /\ Set(p, Giving(q, "activation-failed"))
\* resumePendingActivation, by a process that did not begin the review
Resume(p) ==
  LET q == proc[p] IN
  /\ Doing(p, "resume") /\ Shared
  /\ \/ (Over(q) \/ q.fresh) /\ Set(p, Ended(q))
     \/ q.st = "eligible" /\ Set(p, Moving(q, "rejected"))
     \/ q.st = "available" /\ Set(p, Moving(q, "custody-broken"))
     \/ q.st \in Early \ {"available"} /\ Set(p, Moving(q, "review-failed"))
     \/ /\ q.st \in {"human-accepted", "activation-failed", "rolling-back"}
        /\ Set(p, [q EXCEPT !.op = "rollback"])
     \/ q.st = "activating" /\ pending = q.review /\ Set(p, Moving(q, "activated"))
     \/ q.st = "activating" /\ Set(p, Giving(q, "activation-failed"))

-----------------------------------------------------------------------------
Works(p) == \/ Initialize(p) \/ Integrity(p) \/ Check(p) \/ AppendReceipt(p) \/ Cancelled(p)
            \/ Fetch(p) \/ Stages(p) \/ Chrome(p) \/ Grant(p)
            \/ Decide(p, "accept") \/ Decide(p, "reject") \/ Activate(p) \/ Rollback(p) \/ Resume(p)
Next == \E p \in Panel :
  \/ Boot(p) \/ Die(p) \/ Fault(p) \/ Works(p)
  \/ \E op \in {"status", "start", "accept", "reject"} : Call(p, op)

\* What a process has begun goes on, a new one is started while the bound lasts,
\* and the user tries again to start a review.
Spec == /\ Init /\ [][Next]_vars
        /\ \A p \in Panel : WF_vars(Works(p)) /\ WF_vars(Boot(p)) /\ SF_vars(Call(p, "start"))

-----------------------------------------------------------------------------
\* What #initialize demands of the chain holds of what the panels write to it,
\* though each checks before it appends: otherwise no coordinator works again.
HistoryLegal == \A r \in Reviews : Legal(r)

\* An acceptance in the chain is the user's, who has not also refused it; the
\* activation follows only from one.
AcceptedByUser ==
  \A r \in Reviews :
    /\ Has(r, "human-accepted") => <<r, "accept">> \in spent
    /\ pending = r \/ pin = r => Has(r, "human-accepted")
    /\ <<r, "reject">> \in spent => ~Has(r, "human-accepted")

\* The pin and the chain agree, though a store and a receipt fail separately and
\* any process may recover the store: of the activations the chain records the
\* last is the pin's, or still in the journal that will make it so, and never an
\* earlier one's in its place; a review that ended otherwise has no hold on it.
Overtaken(i) == \E j \in DOMAIN chain : i < j /\ chain[j].event = "activated"
PinAgrees ==
  /\ \A i \in DOMAIN chain : chain[i].event = "activated" /\ ~Overtaken(i)
       => chain[i].review \in {pin, pending}
  /\ \A r \in Reviews :
       LastOf(r) \in {"review-failed", "rejected", "rolled-back"} => pin # r /\ pending # r

\* A process that resumes has ended every review that an earlier one left open,
\* from whatever state, before it takes a call.
ResumedIsClosed ==
  resumes => \A p \in Panel : At(p, "idle") =>
    \A i \in DOMAIN chain :
      Before(i) = {} /\ chain[i].life # proc[p].life => LastOf(chain[i].review) \in Terminal

\* A review in its early stages whose process has died while another runs.
Orphan(r) == /\ LastOf(r) \in Early
             /\ \E i \in Of(r) : Before(i) = {} /\ \A p \in Panel : proc[p].life # chain[i].life
             /\ \E p \in Panel : ~At(p, "off")
Closed(r) == \/ LastOf(r) \in Terminal \/ \E p \in Panel : At(p, "halted")
             \/ \A p \in Panel : At(p, "off")

\* The review design's amendment (line 235): a restart before eligibility "ends
\* the current review. A later attempt uses a new review ID".
RestartEnds == \A r \in Review : Orphan(r) ~> Closed(r)
=============================================================================
