--------------------------- MODULE ChromeInvocation ---------------------------
(***************************************************************************)
(* One Chrome review: the coordinator's #runChrome and #recoverChrome      *)
(* (review-coordinator.js), the bridge that waits for the browser's answer *)
(* (chrome-review-bridge.js), and the pending file that survives a crash   *)
(* (chrome-review-journal.js).                                             *)
(*                                                                         *)
(* A panel is one bootstrap process from start to death, hence also one    *)
(* restartId.  Panels share the receipt ledger and the pending file.  Each *)
(* operation on the file runs under its kernel lock and ends in one atomic *)
(* rename, so it is one action; verifying the chain and appending to it    *)
(* are separate calls, so they are two.  The reviews' earlier receipts,    *)
(* from 'available' to 'codex-review', are one receipt "opened"; what      *)
(* follows a consumed decision is one receipt "decided".                   *)
(***************************************************************************)
EXTENDS Naturals, Sequences, FiniteSets

CONSTANTS Panel,        \* bootstrap processes, each with its restartId
          Invocation,   \* ids the trusted factory may mint
          None,         \* JavaScript's null, or nobody
          MaxReviews,   \* bound: reviews opened
          MaxTrouble    \* bound: crashes, losses, cancels, timeouts, drifts, I/O errors

ASSUME ConstantsAssumption ==
  /\ None \notin Panel \cup Invocation
  /\ MaxReviews \in Nat /\ MaxTrouble \in Nat

\* Reason codes, as far as the code tells them apart
Cancelled == {"cancellation", "connection-loss", "timeout", "provenance-drift"}
Reason == Cancelled \cup
  {"completed", "malformed-output", "unavailable", "unfavorable-analysis",
   "custody-failure", "incomplete-input", "interrupted-restart", "terminal-receipt-interrupted"}
Terminal == {"review-failed", "rejected", "decided", "custody-broken"}
Event    == Terminal \cup {"opened", "chrome-semantic-review", "eligible"}

VARIABLES
  ledger,       \* receipts: the review, the event, the artifact's invocation and reason
  record,       \* runtime/chrome-review-pending.json, None before the first
  used,         \* its usedInvocationIds
  \* volatile, per panel: the coordinator
  stage, tail,  \* where its operation stands; its #tail, as a length
  review, inv,  \* review and invocation it has in hand
  why,          \* reasonCode of the artifact it is about to publish
  granted,      \* it holds live accept and reject nonces
  \* volatile, per panel: the bridge and the journal object
  bridge, cached,
  \* environment
  gone,         \* per panel: what has befallen the current binding
  trouble

shared  == <<ledger, record, used>>
memory  == <<stage, tail, review, inv, why, granted, bridge, cached>>
vars    == <<shared, memory, gone, trouble>>

Stage == {"off", "dead", "halted",
          "on", "read", "repairing", "repair", "remark",   \* #initialize, #recoverChrome
          "idle", "opening", "open", "ready", "dropping", "drop", "omitting", "omit",
          "breaking", "break",
          "entering", "enter", "entered", "asked", "answered",
          "superseding", "passing", "pass", "failing", "fail",
          "published", "mark", "marked", "withdrawing", "withdraw", "retire",
          "deciding", "decide"}
Receipt == [review : Nat, event : Event, inv : Invocation \cup {None}, why : Reason \cup {None}]
Pending == [inv : Invocation, owner : Panel, review : Nat, reason : Reason \cup {None},
            receipted : Nat]     \* 0 while no receipt is marked
NoBridge == [phase |-> "none", cancel |-> None, reason |-> None]

\* null is no event, no reason code and no record.
ASSUME NoneAssumption == None \notin Event \cup Reason \cup Pending

TypeOK ==
  /\ ledger \in Seq(Receipt) /\ used \subseteq Invocation
  /\ record \in Pending \cup {None}
  /\ stage \in [Panel -> Stage] /\ tail \in [Panel -> Nat]
  /\ review \in [Panel -> Nat] /\ inv \in [Panel -> Invocation \cup {None}]
  /\ why \in [Panel -> Reason \cup {None}] /\ granted \in [Panel -> BOOLEAN]
  /\ bridge \in [Panel -> [phase : {"none", "preparing", "begun", "issued", "settling",
                                    "finished", "resolved"},
                           cancel : Reason \cup {None}, reason : Reason \cup {None}]]
  /\ cached \in [Panel -> Pending \cup {None}]
  /\ gone \in [Panel -> SUBSET {"closed", "moved", "late", "drift"}]
  /\ trouble \in 0 .. MaxTrouble

(***************************************************************************)
(* What the code computes.                                                 *)
(***************************************************************************)
Otherwise(a, b) == IF a # None THEN a ELSE b      \* a ?? b

\* #invalidated and #failure of the bridge
Invalidated(p) == IF gone[p] \cap {"closed", "moved"} # {} THEN "connection-loss"
                  ELSE IF "late" \in gone[p] THEN "timeout" ELSE None
Failure(p) == Otherwise(bridge[p].cancel, Invalidated(p))

\* #chromeInputIntact and #chromeReason of the coordinator, drift first; with
\* a bridge that is still responsible its status counts as well
LiveReason(p) ==
  IF "drift" \in gone[p] THEN "provenance-drift"
  ELSE IF bridge[p].phase = "none" THEN Invalidated(p)
  ELSE Otherwise(bridge[p].reason, Failure(p))

\* The receipt that gives a review its artifact, 0 if there is none
Verdicts(chain, r) == {k \in DOMAIN chain : chain[k].review = r /\ chain[k].inv # None}
VerdictOf(chain, r) == IF Verdicts(chain, r) = {} THEN 0
                       ELSE CHOOSE k \in Verdicts(chain, r) : TRUE
Events(chain, r) == {chain[k].event : k \in {k \in DOMAIN chain : chain[k].review = r}}
Retained(chain) == {chain[k].inv : k \in DOMAIN chain} \ {None}
\* Those that went through the bridge: an incomplete request never did.
Issued(chain) ==
  {chain[k].inv : k \in {k \in DOMAIN chain : chain[k].why # "incomplete-input"}} \ {None}

\* #state of a coordinator that knows the first n receipts
StateAt(n) == IF n = 0 THEN None ELSE ledger[n].event

\* assertSemanticHistory: an entered review is owed exactly one artifact
AcceptsAgain(r, e, i, w) ==     \* mistake: a second artifact goes through
  IF "chrome-semantic-review" \in Events(ledger, r)
    THEN i # None \/ e \in {"custody-broken", "rejected", "decided"}
    ELSE i = None \/ (e = "review-failed" /\ w = "incomplete-input")

Accepts(r, e, i, w) ==
  IF Verdicts(ledger, r) # {} THEN i = None
  ELSE IF "chrome-semantic-review" \in Events(ledger, r)
    THEN \/ i # None /\ e \in {"eligible", "review-failed"} /\ w # "incomplete-input"
         \/ i = None /\ e = "custody-broken"
    ELSE i = None \/ (e = "review-failed" /\ w = "incomplete-input")

At(p, s)    == stage[p] = s
Goto(p, s)  == stage' = [stage EXCEPT ![p] = s]
Halt(p)     == Goto(p, "halted")
Bridge(p, b) == bridge' = [bridge EXCEPT ![p] = b]
Cache(p, r) == cached' = [cached EXCEPT ![p] = r]

-----------------------------------------------------------------------------
(***************************************************************************)
(* #move: verify that the tail is one's own, then append.  finalizeEvent   *)
(* takes the ledger's lock anew, publishes, and only then does the caller  *)
(* compare the predecessor of its receipt with its tail.                   *)
(***************************************************************************)
Checked == [repairing |-> "repair", opening |-> "open", dropping |-> "drop",
            omitting |-> "omit", deciding |-> "decide", breaking |-> "break", entering |-> "enter", passing |-> "pass",
            failing |-> "fail", withdrawing |-> "withdraw", published |-> "mark"]

Integrity(p) ==
  /\ stage[p] \in DOMAIN Checked
  /\ Goto(p, IF tail[p] = Len(ledger) THEN Checked[stage[p]] ELSE "halted")
  /\ UNCHANGED <<shared, tail, review, inv, why, granted, bridge, cached, gone, trouble>>

Publish(p, r, e, i, w, next) ==
  IF Accepts(r, e, i, w)
    THEN /\ ledger' = Append(ledger, [review |-> r, event |-> e, inv |-> i, why |-> w])
         /\ tail' = [tail EXCEPT ![p] = Len(ledger) + 1]
         /\ Goto(p, IF tail[p] = Len(ledger) THEN next ELSE "halted")
    ELSE Halt(p) /\ UNCHANGED <<ledger, tail>>

(***************************************************************************)
(* Start of the bootstrap, then #initialize and #recoverChrome on the      *)
(* panel's first lifecycle command.                                        *)
(***************************************************************************)
\* chromeJournal.recover: another process's pending invocation has ended
Recovered(p) ==
  IF record # None /\ record.reason = None /\ record.owner # p
    THEN [record EXCEPT !.reason = "interrupted-restart"] ELSE record

Start(p) ==
  /\ At(p, "off")
  /\ record' = Recovered(p) /\ Cache(p, Recovered(p))
  /\ Goto(p, "on")
  /\ UNCHANGED <<ledger, used, tail, review, inv, why, granted, bridge, gone, trouble>>

Initialize(p) ==
  /\ At(p, "on")
  /\ tail' = [tail EXCEPT ![p] = Len(ledger)]
  /\ Goto(p, IF \E k \in DOMAIN ledger : ledger[k].event = "custody-broken"
             THEN "halted" ELSE "read")
  /\ UNCHANGED <<shared, review, inv, why, granted, bridge, cached, gone, trouble>>

\* The chain as read, and the file after recovery: what is to be done
RecoveryStage(chain, r) ==
  LET issued == Issued(chain)
      extra  == used \ issued
      k      == VerdictOf(chain, r.review)
  IN IF r = None
       THEN IF issued # {} \/ (chain # <<>> /\ chain[Len(chain)].event = "chrome-semantic-review")
            THEN "halted" ELSE "idle"
     ELSE IF \/ ~ issued \subseteq used
             \/ Cardinality(extra) > 1
             \/ extra # {} /\ (r.receipted # 0 \/ extra # {r.inv} \/ r.inv \in Retained(chain))
             \/ r.reason = None
             \/ "chrome-semantic-review" \notin Events(chain, r.review)
       THEN "halted"
     ELSE IF k # 0
       THEN IF \/ chain[k].inv # r.inv
               \/ r.receipted \notin {0, k}
               \/ /\ chain[k].why # "terminal-receipt-interrupted"
                  /\ r.reason \notin {"completed", chain[k].why}
            THEN "halted" ELSE "remark"
     ELSE IF \/ r.receipted # 0
             \/ chain[Len(chain)].event # "chrome-semantic-review"
             \/ chain[Len(chain)].review # r.review
       THEN "halted" ELSE "repairing"

RecoverChrome(p) ==
  /\ At(p, "read")
  /\ record' = Recovered(p) /\ Cache(p, Recovered(p))
  /\ Goto(p, RecoveryStage(SubSeq(ledger, 1, tail[p]), Recovered(p)))
  /\ UNCHANGED <<ledger, used, tail, review, inv, why, granted, bridge, gone, trouble>>

\* The invocation ended without its receipt: one permanent failure.
Repair(p) ==
  /\ At(p, "repair")
  /\ Publish(p, cached[p].review, "review-failed", cached[p].inv,
             "terminal-receipt-interrupted", "published")
  /\ UNCHANGED <<record, used, review, inv, why, granted, bridge, cached, gone, trouble>>

(***************************************************************************)
(* startReview up to the Chrome stage.                                     *)
(***************************************************************************)
OpenReview(p) ==
  /\ At(p, "idle") /\ StateAt(tail[p]) \in Terminal \cup {None}
  /\ Cardinality({k \in DOMAIN ledger : ledger[k].event = "opened"}) < MaxReviews
  /\ Goto(p, "opening")
  /\ UNCHANGED <<shared, tail, review, inv, why, granted, bridge, cached, gone, trouble>>

Opened(p) ==
  /\ At(p, "open")
  /\ Publish(p, Len(ledger) + 1, "opened", None, None, "ready")
  /\ review' = [review EXCEPT ![p] = Len(ledger) + 1]
  /\ UNCHANGED <<record, used, inv, why, granted, bridge, cached, gone, trouble>>

\* #prepareChrome binds an id to the live channel; an id some artifact already
\* carries is a custody break.  The other reviewers may fail the review as well,
\* and their evidence, or an unbound runtime, may break custody.
Prepare(p, i) ==
  /\ At(p, "ready") /\ "closed" \notin gone[p]
  /\ IF tail[p] # Len(ledger) THEN Halt(p) /\ UNCHANGED <<inv, gone>>
     ELSE IF i \in Retained(ledger) THEN Goto(p, "breaking") /\ UNCHANGED <<inv, gone>>
     ELSE /\ Goto(p, "entering") \/ Goto(p, "omitting")
          /\ inv' = [inv EXCEPT ![p] = i]
          /\ gone' = [gone EXCEPT ![p] = {}]
  /\ UNCHANGED <<shared, tail, review, why, granted, bridge, cached, trouble>>

FailEarly(p) ==
  /\ At(p, "ready")
  /\ Goto(p, "dropping") \/ Goto(p, "breaking")
  /\ UNCHANGED <<shared, tail, review, inv, why, granted, bridge, cached, gone, trouble>>

Dropped(p) ==
  /\ At(p, "drop")
  /\ Publish(p, review[p], "review-failed", None, None, "idle")
  /\ UNCHANGED <<record, used, review, inv, why, granted, bridge, cached, gone, trouble>>

\* An IncompleteChromeReviewRequest ends the review before the Chrome stage.
Omitted(p) ==
  /\ At(p, "omit")
  /\ Publish(p, review[p], "review-failed", inv[p], "incomplete-input", "idle")
  /\ inv' = [inv EXCEPT ![p] = None]
  /\ UNCHANGED <<record, used, review, why, granted, bridge, cached, gone, trouble>>

Broken(p) ==
  /\ At(p, "break")
  /\ Publish(p, review[p], "custody-broken", None, None, "halted")
  /\ UNCHANGED <<record, used, review, inv, why, granted, bridge, cached, gone, trouble>>

(***************************************************************************)
(* #runChrome: entry receipt, then the bridge's request.                   *)
(***************************************************************************)
Enter(p) ==
  /\ At(p, "enter")
  /\ Publish(p, review[p], "chrome-semantic-review", None, None, "entered")
  /\ UNCHANGED <<record, used, review, inv, why, granted, bridge, cached, gone, trouble>>

Request(p) ==
  /\ At(p, "entered")
  /\ IF bridge[p].phase = "none" /\ Invalidated(p) = None
       THEN Goto(p, "asked") /\ Bridge(p, [NoBridge EXCEPT !.phase = "preparing"])
       ELSE Goto(p, "answered") /\ UNCHANGED bridge
  /\ UNCHANGED <<shared, tail, review, inv, why, granted, cached, gone, trouble>>

\* The request is rejected and the bridge is free again.
Reject(p) == Bridge(p, NoBridge) /\ Goto(p, "answered")

Begins(p, owner, ids) ==
  LET r == [inv |-> inv[p], owner |-> owner, review |-> review[p],
            reason |-> None, receipted |-> 0]
  IN /\ record' = r /\ Cache(p, r)
     /\ used' = ids \cup {inv[p]}
     /\ Bridge(p, [bridge[p] EXCEPT !.phase = "begun"])
     /\ UNCHANGED <<ledger, stage, tail, review, inv, why, granted, gone, trouble>>
BeginForgetting(p) ==           \* mistake: the file is written anew, with this id only
  At(p, "asked") /\ bridge[p].phase = "preparing" /\ Begins(p, p, {})

\* journal.begin: refused for a used id or while an invocation is unreceipted
Begin(p) ==
  /\ At(p, "asked") /\ bridge[p].phase = "preparing"
  /\ IF (record # None => record.receipted # 0) /\ inv[p] \notin used
       THEN Begins(p, p, used)
       ELSE /\ Reject(p) /\ Cache(p, record)
            /\ UNCHANGED <<shared, tail, review, inv, why, granted, gone, trouble>>

\* #settle, with the failure of the moment before the given reason; bound
\* says what the binder makes of a result that came without a reason
Settle(p, given, bound) ==
  Bridge(p, [bridge[p] EXCEPT !.phase = "settling",
                              !.reason = Otherwise(Failure(p), Otherwise(given, bound))])

Issue(p) ==
  /\ bridge[p].phase = "begun"
  /\ IF Failure(p) # None THEN Settle(p, Failure(p), None)
     ELSE Bridge(p, [bridge[p] EXCEPT !.phase = "issued"])
  /\ UNCHANGED <<shared, stage, tail, review, inv, why, granted, cached, gone, trouble>>

\* handleSettlement of a result: accepted once, and only while issued
Result(p, given, bound) ==
  /\ bridge[p].phase = "issued"
  /\ Settle(p, given, bound)
  /\ UNCHANGED <<shared, stage, tail, review, inv, why, granted, cached, gone, trouble>>

Timeout(p) ==
  /\ bridge[p].phase = "issued" /\ "late" \in gone[p]
  /\ Settle(p, "timeout", None)
  /\ UNCHANGED <<shared, stage, tail, review, inv, why, granted, cached, gone, trouble>>

FinishesAnyhow(p, r) ==         \* mistake: the latest reason wins
  record # None /\ record.receipted = 0 /\ record.inv = inv[p] /\ record.owner = p

\* journal.finish: a failure may supersede a completion, nothing else
Finishes(p, r) ==
  /\ record # None /\ record.receipted = 0
  /\ record.inv = inv[p] /\ record.owner = p
  /\ record.reason \in {None, r, "completed"}

Finish(p) ==
  /\ bridge[p].phase = "settling"
  /\ LET r == Otherwise(bridge[p].reason, "completed")
         n == [record EXCEPT !.reason = r]
     IN IF Finishes(p, r)
          THEN /\ record' = n /\ Cache(p, n)
               /\ Bridge(p, [bridge[p] EXCEPT !.phase = "finished"])
               /\ UNCHANGED stage
          ELSE Reject(p) /\ Cache(p, record) /\ UNCHANGED record
  /\ UNCHANGED <<ledger, used, tail, review, inv, why, granted, gone, trouble>>

\* Back from the journal: what happened meanwhile is written as well.
Resolve(p) ==
  /\ bridge[p].phase = "finished"
  /\ IF bridge[p].reason = None /\ Failure(p) # None
       THEN /\ Bridge(p, [bridge[p] EXCEPT !.phase = "settling", !.reason = Failure(p)])
            /\ UNCHANGED stage
       ELSE Bridge(p, [bridge[p] EXCEPT !.phase = "resolved"]) /\ Goto(p, "answered")
  /\ UNCHANGED <<shared, tail, review, inv, why, granted, cached, gone, trouble>>

(***************************************************************************)
(* The coordinator's use of the answer.  Without a responsible bridge the  *)
(* status call throws, and the panel halts with the review entered.        *)
(***************************************************************************)
\* The reason to withhold, before the content of the result is looked at
Withheld(p) == IF cached[p].reason # "completed" THEN cached[p].reason ELSE LiveReason(p)

\* A completed file is superseded first if the reason came afterwards.
Withhold(p, w) ==
  /\ why' = [why EXCEPT ![p] = w]
  /\ Goto(p, IF cached[p].reason = "completed" /\ w \in Cancelled
             THEN "superseding" ELSE "failing")

Answered(p) ==
  /\ At(p, "answered")
  /\ IF \/ cached[p] = None \/ bridge[p].phase = "none"
        \/ cached[p].inv # inv[p] \/ cached[p].owner # p \/ cached[p].reason = None
       THEN Halt(p) /\ UNCHANGED why
     ELSE IF Withheld(p) # None THEN Withhold(p, Withheld(p))
     ELSE \/ Withhold(p, "unfavorable-analysis")
          \/ Goto(p, "passing") /\ why' = [why EXCEPT ![p] = "completed"]
  /\ UNCHANGED <<shared, tail, review, inv, granted, bridge, cached, gone, trouble>>

PassUnguarded(p) ==             \* mistake: the checks before the receipt are enough
  /\ At(p, "pass")
  /\ Publish(p, review[p], "eligible", inv[p], "completed", "published")
  /\ UNCHANGED <<record, used, review, inv, why, granted, bridge, cached, gone, trouble>>

\* finalizeEvent under withCommitGuard: the live checks are repeated in the
\* step that publishes.
Pass(p) ==
  /\ At(p, "pass")
  /\ IF Accepts(review[p], "eligible", inv[p], "completed") /\ LiveReason(p) # None
       THEN Withhold(p, LiveReason(p)) /\ UNCHANGED <<ledger, tail>>
       ELSE /\ Publish(p, review[p], "eligible", inv[p], "completed", "published")
            /\ UNCHANGED why
  /\ UNCHANGED <<record, used, review, inv, granted, bridge, cached, gone, trouble>>

Supersede(p) ==
  /\ At(p, "superseding")
  /\ IF Finishes(p, why[p])
       THEN LET n == [record EXCEPT !.reason = why[p]]
            IN record' = n /\ Cache(p, n) /\ Goto(p, "failing")
       ELSE Halt(p) /\ Cache(p, record) /\ UNCHANGED record
  /\ UNCHANGED <<ledger, used, tail, review, inv, why, granted, bridge, gone, trouble>>

Fail(p) ==
  /\ At(p, "fail")
  /\ Publish(p, review[p], "review-failed", inv[p], why[p], "published")
  /\ UNCHANGED <<record, used, review, inv, why, granted, bridge, cached, gone, trouble>>

\* markReceipted, after the receipt has been reread from the chain
Mark(p) ==
  /\ stage[p] \in {"mark", "remark"}
  /\ LET k == VerdictOf(ledger, cached[p].review)
         n == [record EXCEPT !.receipted = k]
     IN IF /\ record # None /\ record.reason # None
           /\ record.inv = cached[p].inv /\ record.owner = cached[p].owner
           /\ record.reason = cached[p].reason
           /\ record.receipted \in {0, k}
          THEN /\ record' = n /\ Cache(p, n)
               /\ Goto(p, IF stage[p] = "mark" /\ inv[p] # None THEN "marked" ELSE "idle")
          ELSE Halt(p) /\ Cache(p, record) /\ UNCHANGED record
  /\ UNCHANGED <<ledger, used, tail, review, inv, why, granted, bridge, gone, trouble>>

\* completeChromeReview, and the nonces if the review is still eligible
Retire(p) ==
  /\ IF bridge[p].phase = "resolved" /\ cached[p].receipted # 0
       THEN /\ Bridge(p, NoBridge) /\ Goto(p, "idle")
            /\ granted' = [granted EXCEPT ![p] = StateAt(tail[p]) = "eligible"]
            /\ inv' = [inv EXCEPT ![p] = None]
       ELSE Halt(p) /\ UNCHANGED <<bridge, granted, inv>>
  /\ UNCHANGED <<shared, tail, review, why, cached, gone, trouble>>

\* The last integrity check, the live checks and the grant in one turn
Conclude(p) ==
  /\ At(p, "marked")
  /\ \/ /\ tail[p] # Len(ledger) /\ Halt(p)
        /\ UNCHANGED <<shared, tail, review, inv, why, granted, bridge, cached, gone, trouble>>
     \/ /\ tail[p] = Len(ledger)
        /\ StateAt(tail[p]) = "eligible" /\ LiveReason(p) # None
        /\ Goto(p, "withdrawing")
        /\ UNCHANGED <<shared, tail, review, inv, why, granted, bridge, cached, gone, trouble>>
     \/ /\ tail[p] = Len(ledger)
        /\ StateAt(tail[p]) = "eligible" => LiveReason(p) = None
        /\ Retire(p)

Withdraw(p) ==
  /\ At(p, "withdraw")
  /\ Publish(p, review[p], "rejected", None, None, "retire")
  /\ UNCHANGED <<record, used, review, inv, why, granted, bridge, cached, gone, trouble>>

Retired(p) == At(p, "retire") /\ Retire(p)

\* acceptReview or rejectReview: the grant is checked once more (#assertBinding)
Decide(p) ==
  /\ At(p, "idle") /\ granted[p]
  /\ IF tail[p] # Len(ledger) THEN Halt(p)
     ELSE Goto(p, IF LiveReason(p) = None THEN "deciding" ELSE "idle")
  /\ granted' = [granted EXCEPT ![p] = FALSE]
  /\ UNCHANGED <<shared, tail, review, inv, why, bridge, cached, gone, trouble>>

Decided(p) ==
  /\ At(p, "decide")
  /\ Publish(p, review[p], "decided", None, None, "idle")
  /\ UNCHANGED <<record, used, review, inv, why, granted, bridge, cached, gone, trouble>>

-----------------------------------------------------------------------------
(* What befalls a panel. *)
Alive(p) == stage[p] \notin {"off", "dead", "halted"}
Bound(p) == Alive(p) /\ (inv[p] # None \/ granted[p])
Trouble  == trouble < MaxTrouble /\ trouble' = trouble + 1

\* cancelPending: kept for the settlement, and settling what is issued
CancelPending(p, r) ==
  IF bridge[p].phase = "none" THEN UNCHANGED bridge
  ELSE LET b == [bridge[p] EXCEPT !.cancel = Otherwise(@, r)]
       IN Bridge(p, IF b.phase # "issued" THEN b
                    ELSE [b EXCEPT !.phase = "settling", !.reason = b.cancel])

\* The Stop button (turn.interrupt), or a cancel message from the browser
Cancel(p) ==
  /\ Alive(p) /\ bridge[p].phase # "none" /\ bridge[p].cancel = None /\ Trouble
  /\ CancelPending(p, "cancellation")
  /\ UNCHANGED <<shared, stage, tail, review, inv, why, granted, cached, gone>>

\* The port closes for good, or the child is stopped and the generation moves.
Disconnect(p, how) ==
  /\ Bound(p) /\ how \notin gone[p] /\ Trouble
  /\ gone' = [gone EXCEPT ![p] = @ \cup {how}]
  /\ CancelPending(p, "connection-loss")
  /\ UNCHANGED <<shared, stage, tail, review, inv, why, granted, cached>>

\* Reviewed bytes or the adapter change.
Drift(p) ==
  /\ Bound(p) /\ "drift" \notin gone[p] /\ Trouble
  /\ gone' = [gone EXCEPT ![p] = @ \cup {"drift"}]
  /\ UNCHANGED <<shared, memory>>

\* The deadline passes; before the browser is asked, only the other reviewers
\* could have used up the ten minutes.
Expire(p) ==
  /\ Bound(p) /\ "late" \notin gone[p]
  /\ gone' = [gone EXCEPT ![p] = @ \cup {"late"}]
  /\ UNCHANGED <<shared, memory, trouble>>

Crash(p) ==
  /\ Alive(p) /\ Trouble
  /\ Goto(p, "dead")
  /\ tail' = [tail EXCEPT ![p] = 0] /\ review' = [review EXCEPT ![p] = 0]
  /\ inv' = [inv EXCEPT ![p] = None] /\ why' = [why EXCEPT ![p] = None]
  /\ granted' = [granted EXCEPT ![p] = FALSE]
  /\ Bridge(p, NoBridge) /\ Cache(p, None)
  /\ gone' = [gone EXCEPT ![p] = {}]
  /\ UNCHANGED shared

\* The journal cannot be written: the request is rejected.
JournalFails(p) ==
  /\ bridge[p].phase \in {"preparing", "settling"} /\ Trouble
  /\ Reject(p)
  /\ UNCHANGED <<shared, tail, review, inv, why, granted, cached, gone>>

\* An I/O fault: the ledger is busy, the append or the mark fails, or what a
\* recovery reads cannot be read (the journal, the retained evidence files): the
\* coordinator halts.
CustodyFails(p) ==
  /\ \/ stage[p] \in DOMAIN Checked
     \/ stage[p] \in {"on", "read", "repair", "open", "drop", "omit", "break", "enter",
                      "entered", "pass", "fail", "withdraw", "retire", "decide",
                      "superseding", "mark", "remark", "marked"}
  /\ Trouble
  /\ Halt(p)
  /\ UNCHANGED <<shared, tail, review, inv, why, granted, bridge, cached, gone>>

-----------------------------------------------------------------------------
Init ==
  /\ ledger = <<>> /\ record = None /\ used = {}
  /\ stage = [p \in Panel |-> "off"] /\ tail = [p \in Panel |-> 0]
  /\ review = [p \in Panel |-> 0] /\ inv = [p \in Panel |-> None]
  /\ why = [p \in Panel |-> None] /\ granted = [p \in Panel |-> FALSE]
  /\ bridge = [p \in Panel |-> NoBridge] /\ cached = [p \in Panel |-> None]
  /\ gone = [p \in Panel |-> {}] /\ trouble = 0

\* What a panel does by itself once a review has begun
Coordinate(p) ==
  \/ Integrity(p) \/ RecoverChrome(p) \/ Repair(p) \/ Opened(p) \/ Dropped(p) \/ Omitted(p)
  \/ Broken(p) \/ Enter(p) \/ Request(p) \/ Answered(p) \/ Pass(p) \/ Supersede(p) \/ Fail(p) \/ Mark(p)
  \/ Conclude(p) \/ Withdraw(p) \/ Retired(p) \/ Decided(p)
Bridging(p) == Begin(p) \/ Issue(p) \/ Finish(p) \/ Resolve(p) \/ Timeout(p)

\* What others ask of it
Ask(p) ==
  \/ Start(p) \/ Initialize(p) \/ OpenReview(p) \/ FailEarly(p) \/ Decide(p)
  \/ \E i \in Invocation : Prepare(p, i)
  \/ Result(p, None, None) \/ Result(p, None, "malformed-output") \/ Result(p, "unavailable", None)
Befallen(p) ==
  \/ Cancel(p) \/ Crash(p) \/ JournalFails(p) \/ CustodyFails(p)
  \/ \E how \in {"closed", "moved"} : Disconnect(p, how)
  \/ Drift(p) \/ Expire(p)

Next == \E p \in Panel : Coordinate(p) \/ Bridging(p) \/ Ask(p) \/ Befallen(p)

Spec == Init /\ [][Next]_vars

(***************************************************************************)
(* Fairness: a panel goes on with its own tasks, and its ten minutes pass. *)
(* The browser need not answer, nobody need press a button.                *)
(***************************************************************************)
Fairness == \A p \in Panel :
  WF_vars(Coordinate(p)) /\ WF_vars(Bridging(p)) /\ WF_vars(Expire(p))
LiveSpec == Spec /\ Fairness

-----------------------------------------------------------------------------
(***************************************************************************)
(* Properties                                                              *)
(***************************************************************************)
\* One artifact per review and per invocation, whoever publishes it: the live
\* owner, or a later panel that found its terminal record unreceipted.
OneArtifact ==
  \A j, k \in DOMAIN ledger :
    /\ ledger[j].inv # None /\ ledger[k].inv # None
    /\ ledger[j].review = ledger[k].review \/ ledger[j].inv = ledger[k].inv
    => j = k

\* Crash or not, the file and the ledger account for the same invocations: an
\* id without an artifact is the file's current one, still unreceipted.
NothingForgotten ==
  /\ Issued(ledger) \subseteq used
  /\ used \cap Retained(ledger) \subseteq Issued(ledger)
  /\ used \ Issued(ledger) # {} =>
       record.receipted = 0 /\ used \ Issued(ledger) = {record.inv}

\* A failure written to the file is final: no late result, second callback or
\* other panel's recovery turns it into a completion or another failure.
FailureIsFinal ==
  [][/\ record # None /\ record.reason \notin {None, "completed"}
     /\ record'.inv = record.inv
     => record'.reason = record.reason]_vars

\* An eligible receipt is published only while the panel still has its channel,
\* runtime and time, was not cancelled, and the file says completed.
EligibleIsLive ==
  [][\A k \in DOMAIN ledger' \ DOMAIN ledger : ledger'[k].event = "eligible" =>
       /\ record # None /\ record.inv = ledger'[k].inv /\ record.reason = "completed"
       /\ \E p \in Panel : /\ record.owner = p /\ At(p, "pass")
                           /\ gone[p] = {} /\ bridge[p].cancel = None]_vars

\* A review that reached the Chrome stage ends, even if the browser never
\* answers: with a verdict, or with the panel halted or gone.
ReviewEnds ==
  \A p \in Panel : inv[p] # None ~> (inv[p] = None \/ stage[p] = "halted")

\* "An ... interrupted ... Chrome result withholds only the current candidate":
\* where the other panels died, and none stopped at a fault, the recovery of a
\* new one reads what they left without a fault of its own, and accepts it.
InterruptionWithholdsOnlyItself ==
  [][\A p \in Panel : /\ At(p, "read") /\ trouble' = trouble
                      /\ \A q \in Panel \ {p} : stage[q] \in {"off", "dead"}
       => stage'[p] # "halted"]_vars

\* "maxOutstandingChromeInvocations": 1
OneOutstanding ==
  \A p, q \in Panel : bridge[p].phase = "issued" /\ bridge[q].phase = "issued" => p = q
=============================================================================
