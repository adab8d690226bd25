----------------------- MODULE ChromeInvocationProofs -----------------------
(***************************************************************************)
(* Proofs about ChromeInvocation, for any panels and ids, any number of    *)
(* reviews and any trouble.                                                *)
(*                                                                         *)
(* Inductive relates the three places that tell of an invocation: the      *)
(* ledger's receipts, the pending file, and each panel's copy of it.       *)
(* Panels check the chain in one step and append to it in a later one, so  *)
(* a publication may come from a panel that is already behind.  It is      *)
(* still harmless: such a panel's review is the live one, or a new one     *)
(* that it leaves at once (it halts), or the chain refuses the receipt.    *)
(* A step is one that publishes, one that writes the file, or one that     *)
(* does neither; for each kind there is a lemma about what is shared, one  *)
(* about the panel that takes the step, and one about the others.          *)
(***************************************************************************)
EXTENDS ChromeInvocation, TLAPS

(***************************************************************************)
(* Vocabulary of the inductive invariant                                   *)
(***************************************************************************)
\* What the ledger says of a review
Entered(r) == "chrome-semantic-review" \in Events(ledger, r)
Closed(r)  == Events(ledger, r) \cap Terminal # {}
Judged(r)  == Verdicts(ledger, r) # {}

\* A review that may still receive a receipt which ends it
Live(r) ==
  /\ r \in DOMAIN ledger /\ ~ Closed(r)
  /\ Entered(r) \/ \E p \in Panel : Alive(p) /\ review[p] = r

\* Every copy of a pending record, in the file or in a panel's memory
Copies == ({record} \cup {cached[q] : q \in Panel}) \ {None}

\* Stages by what the panel has in hand
Boot   == {"off", "on", "read", "repairing", "repair", "remark"}
Resting == {"idle", "opening", "open", "ready", "dropping", "drop", "breaking", "break",
            "deciding", "decide"}
Pre    == {"ready", "dropping", "drop", "omitting", "omit", "breaking", "break",
           "entering", "enter"}
Verdict == {"superseding", "passing", "pass", "failing", "fail"}
Amid   == {"entered", "asked", "answered"} \cup Verdict
Busy   == {"preparing", "begun", "issued", "settling", "finished"}
Begun  == {"begun", "issued", "settling", "finished", "resolved"}

\* A review is opened once, at the place that names it.
Origins ==
  \A k \in DOMAIN ledger :
    /\ ledger[k].review \in 1 .. k
    /\ ledger[k].event = "opened" <=> ledger[k].review = k
    /\ ledger[ledger[k].review].review = ledger[k].review

\* An entered review that has ended has its artifact.
Settled == \A r \in Nat : Entered(r) /\ Closed(r) => Judged(r)

\* No two panels have a review in common, and at most one review is live:
\* nothing has ended since it was opened.
Alone ==
  /\ \A p \in Panel : review[p] <= Len(ledger)
  /\ \A p, q \in Panel : review[p] = review[q] /\ review[p] # 0 => p = q
  /\ \A r \in Nat : Live(r) =>
       /\ \A s \in Nat : Live(s) => r = s
       /\ \A k \in DOMAIN ledger : k > r => ledger[k].event \notin Terminal

\* Copies of a pending record agree with the ledger and with each other.
Backed(c) ==
  /\ c.inv \in used /\ Entered(c.review)
  /\ \A k \in Verdicts(ledger, c.review) :
       ledger[k].inv = c.inv /\ ledger[k].why # "incomplete-input"
  /\ ~ Judged(c.review) => c.inv \notin Retained(ledger)
  /\ c.receipted # 0 => Judged(c.review)
Records ==
  /\ \A c \in Copies : Backed(c)
  /\ \A c, d \in Copies : c.inv = d.inv <=> c.review = d.review
  /\ record = None => used = {}

\* What a panel's stage says of its memory
Posture(p) ==
  /\ stage[p] \in Boot =>
       review[p] = 0 /\ inv[p] = None /\ ~ granted[p] /\ bridge[p].phase = "none"
  /\ stage[p] \in {"off", "on"} => tail[p] = 0
  /\ Alive(p) /\ granted[p] => At(p, "idle")
  /\ stage[p] \in Resting => inv[p] = None
  /\ Alive(p) /\ inv[p] # None => review[p] # 0
  /\ stage[p] \in {"repairing", "repair", "published", "mark", "remark"} => cached[p] # None
  /\ stage[p] \in {"published", "mark", "remark"} => Judged(cached[p].review)
  /\ stage[p] \in Amid \cup {"omitting", "omit", "entering", "enter", "marked", "withdrawing",
                           "withdraw", "retire"} => inv[p] # None
  /\ bridge[p].phase \in Busy => At(p, "asked")
  /\ stage[p] \in Verdict => bridge[p].phase = "resolved"
  /\ Alive(p) /\ bridge[p].phase = "resolved" =>
       stage[p] \in {"answered", "published", "mark", "marked", "withdrawing", "withdraw",
                     "retire"} \cup Verdict
  /\ stage[p] \in {"superseding", "failing", "fail"} => why[p] # None
  /\ stage[p] \in {"passing", "pass"} => cached[p] # None /\ cached[p].reason = "completed"

\* What the last receipt a living panel knows of says of its review
Last(p) == ledger[tail[p]]
Owns(p, e) == review[p] # 0 /\ Last(p).event = e
Knows(p) ==
  /\ tail[p] <= Len(ledger)
  /\ review[p] # 0 => tail[p] # 0 /\ Last(p).review = review[p]
  /\ stage[p] \in Pre => Owns(p, "opened")
  /\ stage[p] \in Amid => Owns(p, "chrome-semantic-review")
  /\ stage[p] \in {"withdrawing", "withdraw", "deciding", "decide"} \/ granted[p] =>
       Owns(p, "eligible")
  /\ stage[p] \in {"opening", "open"} => tail[p] = 0 \/ Last(p).event \in Terminal
  /\ Owns(p, "opened") => ~ Closed(review[p]) /\ ~ Entered(review[p]) /\ ~ Judged(review[p])
  /\ Owns(p, "eligible") => ~ Closed(review[p]) /\ Judged(review[p])

\* An id bound to a request that has not begun is nobody else's.
Unbegun(p) ==
  \/ stage[p] \in {"omitting", "omit", "entering", "enter", "entered"}
  \/ At(p, "asked") /\ bridge[p].phase = "preparing"
Fresh(p) ==
  Unbegun(p) =>
    /\ ~ Judged(review[p]) /\ inv[p] \notin Retained(ledger)
    /\ \A c \in Copies : c.inv # inv[p] /\ c.review # review[p]

\* A request that has begun is the panel's own record; once its reason is
\* known the file says the same until the artifact is published.
Holds(p) ==
  Alive(p) /\ bridge[p].phase \in Begun =>
    /\ inv[p] # None /\ cached[p] # None /\ cached[p].inv = inv[p]
    /\ cached[p].review = review[p] /\ cached[p].owner = p
    /\ cached[p].reason = None \/ Judged(review[p]) \/ record = cached[p]

Inductive ==
  /\ TypeOK
  /\ Origins /\ Settled /\ Alone /\ Records
  /\ OneArtifact /\ NothingForgotten
  /\ \A p \in Panel : Posture(p) /\ (Alive(p) => Knows(p)) /\ Fresh(p) /\ Holds(p)

-----------------------------------------------------------------------------
(***************************************************************************)
(* The ledger                                                              *)
(***************************************************************************)
\* The places of a chain of receipts
LEMMA Places ==
  ASSUME ledger \in Seq(Receipt)
  PROVE  /\ Len(ledger) \in Nat /\ DOMAIN ledger = 1 .. Len(ledger)
         /\ \A k \in DOMAIN ledger : k \in Nat /\ ledger[k] \in Receipt
  OBVIOUS

\* An append adds one place and changes no other.
LEMMA AppendPlaces ==
  ASSUME ledger \in Seq(Receipt), NEW e \in Receipt, ledger' = Append(ledger, e)
  PROVE  /\ ledger' \in Seq(Receipt) /\ Len(ledger') = Len(ledger) + 1
         /\ DOMAIN ledger' = DOMAIN ledger \cup {Len(ledger) + 1}
         /\ Len(ledger) + 1 \notin DOMAIN ledger
         /\ ledger'[Len(ledger) + 1] = e
         /\ \A k \in DOMAIN ledger : ledger'[k] = ledger[k]
  <1>1. Len(ledger) \in Nat /\ DOMAIN ledger = 1 .. Len(ledger)
    OBVIOUS
  <1>2. ledger' \in Seq(Receipt) /\ Len(ledger') = Len(ledger) + 1
    OBVIOUS
  <1>3. DOMAIN ledger' = 1 .. Len(ledger) + 1
    BY <1>2
  <1>4. \A k \in DOMAIN ledger : ledger'[k] = ledger[k]
    OBVIOUS
  <1> QED BY <1>1, <1>2, <1>3, <1>4

\* What an append adds to what the ledger says of a review and of an id
LEMMA AppendFacts ==
  ASSUME ledger \in Seq(Receipt), NEW e \in Receipt, ledger' = Append(ledger, e)
  PROVE  /\ \A r : Events(ledger, r)' = Events(ledger, r) \cup (IF e.review = r THEN {e.event} ELSE {})
         /\ \A r : Verdicts(ledger, r)' = Verdicts(ledger, r) \cup
                     (IF e.review = r /\ e.inv # None THEN {Len(ledger) + 1} ELSE {})
         /\ Retained(ledger)' = Retained(ledger) \cup ({e.inv} \ {None})
         /\ Issued(ledger)' = Issued(ledger) \cup
              (IF e.why # "incomplete-input" THEN {e.inv} \ {None} ELSE {})
  <1> DEFINE n == Len(ledger) + 1
  <1>1. /\ DOMAIN ledger' = DOMAIN ledger \cup {n} /\ n \notin DOMAIN ledger
        /\ ledger'[n] = e /\ \A k \in DOMAIN ledger : ledger'[k] = ledger[k]
    BY AppendPlaces
  <1> HIDE DEF n
  <1>2. ASSUME NEW r
        PROVE  Events(ledger, r)' = Events(ledger, r) \cup (IF e.review = r THEN {e.event} ELSE {})
    BY <1>1 DEF Events
  <1>3. ASSUME NEW r
        PROVE  Verdicts(ledger, r)' = Verdicts(ledger, r) \cup
                 (IF e.review = r /\ e.inv # None THEN {n} ELSE {})
    BY <1>1 DEF Verdicts
  <1>4. Retained(ledger)' = Retained(ledger) \cup ({e.inv} \ {None})
    BY <1>1 DEF Retained
  <1>5. Issued(ledger)' = Issued(ledger) \cup
          (IF e.why # "incomplete-input" THEN {e.inv} \ {None} ELSE {})
    BY <1>1 DEF Issued
  <1> QED BY <1>2, <1>3, <1>4, <1>5 DEF n

-----------------------------------------------------------------------------
(***************************************************************************)
(* Types                                                                   *)
(***************************************************************************)
Phase == {"none", "preparing", "begun", "issued", "settling", "finished", "resolved"}
BridgeState == [phase : Phase, cancel : Reason \cup {None}, reason : Reason \cup {None}]

\* The free bridge is a bridge state, and a receipt that is published is one.
LEMMA PublishTypes ==
  ASSUME TypeOK, NEW p \in Panel, NEW r \in Nat, NEW e \in Event,
         NEW i \in Invocation \cup {None}, NEW w \in Reason \cup {None}, NEW next \in Stage,
         Publish(p, r, e, i, w, next)
  PROVE  /\ ledger' \in Seq(Receipt) /\ tail' \in [Panel -> Nat]
         /\ stage' \in [Panel -> Stage]
  <1> DEFINE x == [review |-> r, event |-> e, inv |-> i, why |-> w]
  <1> USE DEF TypeOK, Goto, Halt
  <1>1. "halted" \in Stage /\ stage \in [Panel -> Stage] /\ Len(ledger) \in Nat
    BY DEF Stage
  <1>2. x \in Receipt
    BY DEF Receipt
  <1>3. CASE Accepts(r, e, i, w)
    <2>1. /\ ledger' = Append(ledger, x)
          /\ tail' = [tail EXCEPT ![p] = Len(ledger) + 1]
          /\ stage' = [stage EXCEPT ![p] = IF tail[p] = Len(ledger) THEN next ELSE "halted"]
      BY <1>3 DEF Publish
    <2> HIDE DEF x
    <2>2. ledger' \in Seq(Receipt)
      BY <1>2, <2>1
    <2>3. tail' \in [Panel -> Nat]
      BY <1>1, <2>1
    <2>4. stage' \in [Panel -> Stage]
      BY <1>1, <2>1
    <2> QED BY <2>2, <2>3, <2>4
  <1>4. CASE ~ Accepts(r, e, i, w)
    <2>1. /\ stage' = [stage EXCEPT ![p] = "halted"] /\ ledger' = ledger /\ tail' = tail
      BY <1>4 DEF Publish
    <2> QED BY <1>1, <2>1
  <1> QED BY <1>3, <1>4

\* Reasons of a bridge and of a panel are reason codes or nothing.
LEMMA ReasonTypes ==
  ASSUME TypeOK, NEW p \in Panel
  PROVE  /\ Invalidated(p) \in Reason \cup {None} /\ Failure(p) \in Reason \cup {None}
         /\ LiveReason(p) \in Reason \cup {None}
         /\ bridge[p] \in BridgeState /\ NoBridge \in BridgeState
         /\ [NoBridge EXCEPT !.phase = "preparing"] \in BridgeState
  <1>1. bridge[p] \in BridgeState
    BY DEF TypeOK, BridgeState, Phase
  <1>2. Invalidated(p) \in Reason \cup {None}
    BY DEF Invalidated, Reason, Cancelled
  <1>3. Failure(p) \in Reason \cup {None}
    BY <1>1, <1>2 DEF Failure, Otherwise, BridgeState
  <1>4. LiveReason(p) \in Reason \cup {None}
    BY <1>1, <1>2, <1>3 DEF LiveReason, Otherwise, BridgeState, Reason, Cancelled
  <1>5. NoBridge \in BridgeState /\ [NoBridge EXCEPT !.phase = "preparing"] \in BridgeState
    BY DEF NoBridge, BridgeState, Phase
  <1> QED BY <1>1, <1>2, <1>3, <1>4, <1>5

\* A panel's record with another reason or mark is a record.
LEMMA PendingTypes ==
  ASSUME NEW c \in Pending
  PROVE  /\ c.inv \in Invocation /\ c.owner \in Panel /\ c.review \in Nat
         /\ c.reason \in Reason \cup {None} /\ c.receipted \in Nat
         /\ \A w \in Reason \cup {None} : [c EXCEPT !.reason = w] \in Pending
         /\ \A k \in Nat : [c EXCEPT !.receipted = k] \in Pending
  BY DEF Pending

\* The start of a panel writes a record of the same shape, or none.
LEMMA RecoveredTypes ==
  ASSUME TypeOK, NEW p \in Panel
  PROVE  Recovered(p) \in Pending \cup {None}
  BY PendingTypes DEF TypeOK, Recovered, Reason

\* The place of a verdict is a number.
LEMMA VerdictTypes ==
  ASSUME ledger \in Seq(Receipt), NEW r
  PROVE  VerdictOf(ledger, r) \in Nat
  <1>1. Verdicts(ledger, r) \subseteq Nat
    BY Places DEF Verdicts
  <1> QED BY <1>1 DEF VerdictOf

-----------------------------------------------------------------------------
(***************************************************************************)
(* The steps, by what they write: the ledger, the pending file, neither    *)
(***************************************************************************)
Publishes(p) ==
  \/ Repair(p) \/ Opened(p) \/ Dropped(p) \/ Omitted(p) \/ Broken(p) \/ Enter(p) \/ Pass(p)
  \/ Fail(p) \/ Withdraw(p) \/ Decided(p)
Files(p) ==
  Start(p) \/ RecoverChrome(p) \/ Begin(p) \/ Finish(p) \/ Supersede(p) \/ Mark(p)
Quiet(p) ==
  \/ Integrity(p) \/ Initialize(p) \/ OpenReview(p) \/ FailEarly(p) \/ Decide(p)
  \/ (\E i \in Invocation : Prepare(p, i))
  \/ Request(p) \/ Answered(p) \/ Conclude(p) \/ Retired(p)
  \/ Issue(p) \/ Resolve(p) \/ Timeout(p)
  \/ Result(p, None, None) \/ Result(p, None, "malformed-output")
  \/ Result(p, "unavailable", None)
  \/ Cancel(p) \/ Crash(p) \/ JournalFails(p) \/ CustodyFails(p)
  \/ (\E how \in {"closed", "moved"} : Disconnect(p, how)) \/ Drift(p) \/ Expire(p)

\* Every step is one of a panel that publishes, writes the pending file, or
\* does neither.
LEMMA Steps == Next => \E p \in Panel : Publishes(p) \/ Files(p) \/ Quiet(p)
  BY DEF Next, Coordinate, Bridging, Ask, Befallen, Publishes, Files, Quiet

\* Where the panel's stage comes from, its targets are stages.
LEMMA StageNames ==
  /\ \A s \in Stage : s \in DOMAIN Checked => Checked[s] \in Stage
  /\ \A f, c : RecoveryStage(f, c) \in Stage
  BY DEF Stage, Checked, RecoveryStage

\* A panel that goes from one stage to another, and changes nothing else it
\* shares, keeps the types: the steps that publish.
LEMMA PublishKeepsTypes ==
  ASSUME TypeOK, NEW p \in Panel, NEW r \in Nat, NEW e \in Event,
         NEW i \in Invocation \cup {None}, NEW w \in Reason \cup {None}, NEW next \in Stage,
         Publish(p, r, e, i, w, next),
         UNCHANGED <<record, used, why, granted, bridge, cached, gone, trouble>>,
         review' \in [Panel -> Nat], inv' \in [Panel -> Invocation \cup {None}]
  PROVE  TypeOK'
  BY PublishTypes DEF TypeOK

\* Publications keep the types.
LEMMA PublicationTypes ==
  ASSUME TypeOK, NEW p \in Panel, Posture(p), Publishes(p)
  PROVE  TypeOK'
  <1>0. /\ review[p] \in Nat /\ inv[p] \in Invocation \cup {None} /\ why[p] \in Reason \cup {None}
        /\ review \in [Panel -> Nat] /\ inv \in [Panel -> Invocation \cup {None}]
        /\ Len(ledger) + 1 \in Nat
    <2>1. Len(ledger) \in Nat
      BY Places DEF TypeOK
    <2> QED BY <2>1 DEF TypeOK
  <1> USE PublishKeepsTypes DEF Stage, Event, Terminal, Reason
  <1>1. CASE Repair(p)
    <2>1. cached[p] \in Pending
      BY <1>1 DEF Repair, At, Posture, TypeOK
    <2> QED BY <1>0, <1>1, <2>1, PendingTypes DEF Repair
  <1>2. CASE Opened(p)
    <2>1. review' \in [Panel -> Nat]
      BY <1>0, <1>2 DEF Opened
    <2> QED BY <1>0, <1>2, <2>1 DEF Opened
  <1>3. CASE Dropped(p) \/ Broken(p)
    BY <1>0, <1>3 DEF Dropped, Broken
  <1>4. CASE Omitted(p)
    <2>1. inv' \in [Panel -> Invocation \cup {None}]
      BY <1>0, <1>4 DEF Omitted
    <2> QED BY <1>0, <1>4, <2>1 DEF Omitted
  <1>5. CASE Enter(p)
    BY <1>0, <1>5 DEF Enter
  <1>6. CASE Pass(p)
    <2>1. CASE Publish(p, review[p], "eligible", inv[p], "completed", "published") /\ UNCHANGED why
      BY <1>0, <1>6, <2>1 DEF Pass
    <2>2. CASE Withhold(p, LiveReason(p)) /\ UNCHANGED <<ledger, tail>>
      BY <1>6, <2>2, ReasonTypes DEF Pass, Withhold, TypeOK, Goto
    <2> QED BY <1>6, <2>1, <2>2 DEF Pass
  <1>7. CASE Fail(p)
    BY <1>0, <1>7 DEF Fail
  <1>8. CASE Withdraw(p) \/ Decided(p)
    BY <1>0, <1>8 DEF Withdraw, Decided
  <1> QED BY <1>1, <1>2, <1>3, <1>4, <1>5, <1>6, <1>7, <1>8 DEF Publishes

\* Writes of the pending file keep the types.
LEMMA RecordTypes ==
  ASSUME TypeOK, NEW p \in Panel, Posture(p), Files(p)
  PROVE  TypeOK'
  <1> USE DEF TypeOK, Goto, Halt, Bridge, Cache, At
  <1>0. /\ "halted" \in Stage /\ "failing" \in Stage /\ "answered" \in Stage /\ "on" \in Stage
        /\ "marked" \in Stage /\ "idle" \in Stage
        /\ Recovered(p) \in Pending \cup {None} /\ NoBridge \in BridgeState
        /\ bridge \in [Panel -> BridgeState]
    BY RecoveredTypes, ReasonTypes DEF Stage, BridgeState, Phase
  <1>1. CASE Start(p)
    BY <1>0, <1>1 DEF Start
  <1>2. CASE RecoverChrome(p)
    BY <1>0, <1>2, StageNames DEF RecoverChrome
  <1>3. CASE Begin(p)
    <2>1. inv[p] \in Invocation
      BY <1>3 DEF Begin, Posture, Amid
    <2>2. CASE Begins(p, p, used)
      <3> DEFINE c == [inv |-> inv[p], owner |-> p, review |-> review[p],
                       reason |-> None, receipted |-> 0]
      <3>1. c \in Pending
        BY <2>1 DEF Pending
      <3>2. [bridge[p] EXCEPT !.phase = "begun"] \in BridgeState
        BY <1>0 DEF BridgeState, Phase
      <3>3. record' = c /\ cached' = [cached EXCEPT ![p] = c]
        BY <2>2 DEF Begins
      <3> HIDE DEF c
      <3>4. bridge' \in [Panel -> BridgeState]
        BY <1>0, <2>2, <3>2 DEF Begins
      <3>5. used' \subseteq Invocation /\ cached' \in [Panel -> Pending \cup {None}]
        BY <2>1, <2>2, <3>1, <3>3 DEF Begins
      <3> QED BY <2>2, <3>1, <3>3, <3>4, <3>5 DEF Begins, BridgeState, Phase
    <2>3. CASE /\ Reject(p) /\ Cache(p, record)
               /\ UNCHANGED <<shared, tail, review, inv, why, granted, gone, trouble>>
      <3>1. bridge' \in [Panel -> BridgeState]
        BY <1>0, <2>3 DEF Reject
      <3> QED BY <1>0, <2>3, <3>1 DEF Reject, shared, BridgeState, Phase
    <2> QED BY <1>3, <2>2, <2>3 DEF Begin
  <1>4. CASE Finish(p)
    <2> DEFINE r == Otherwise(bridge[p].reason, "completed")
               n == [record EXCEPT !.reason = r]
    <2>1. r \in Reason \cup {None}
      BY <1>0 DEF Otherwise, BridgeState, Reason
    <2>2. CASE Finishes(p, r)
      <3>1. n \in Pending
        BY <2>1, <2>2, PendingTypes DEF Finishes
      <3>2. [bridge[p] EXCEPT !.phase = "finished"] \in BridgeState
        BY <1>0 DEF BridgeState, Phase
      <3>3. /\ record' = n /\ cached' = [cached EXCEPT ![p] = n]
            /\ bridge' = [bridge EXCEPT ![p] = [bridge[p] EXCEPT !.phase = "finished"]]
            /\ UNCHANGED <<ledger, used, stage, tail, review, inv, why, granted, gone, trouble>>
        BY <1>4, <2>2 DEF Finish
      <3> HIDE DEF n
      <3>4. bridge' \in [Panel -> BridgeState]
        BY <1>0, <3>2, <3>3
      <3> QED BY <3>1, <3>3, <3>4 DEF BridgeState, Phase
    <2>3. CASE ~ Finishes(p, r)
      <3>1. /\ Reject(p) /\ Cache(p, record) /\ UNCHANGED record
            /\ UNCHANGED <<ledger, used, tail, review, inv, why, granted, gone, trouble>>
        BY <1>4, <2>3 DEF Finish
      <3>2. bridge' \in [Panel -> BridgeState]
        BY <1>0, <3>1 DEF Reject
      <3> QED BY <1>0, <3>1, <3>2 DEF Reject, BridgeState, Phase
    <2> QED BY <2>2, <2>3
  <1>5. CASE Supersede(p)
    <2> DEFINE n == [record EXCEPT !.reason = why[p]]
    <2>1. UNCHANGED <<ledger, used, tail, review, inv, why, granted, bridge, gone, trouble>>
      BY <1>5 DEF Supersede
    <2>2. \E c \in Pending \cup {None}, s \in Stage :
            record' = c /\ cached' = [cached EXCEPT ![p] = c] /\ stage' = [stage EXCEPT ![p] = s]
      <3>1. CASE Finishes(p, why[p])
        <4>1. n \in Pending
          BY <3>1, PendingTypes DEF Finishes
        <4> QED BY <1>0, <1>5, <3>1, <4>1 DEF Supersede
      <3>2. CASE ~ Finishes(p, why[p])
        BY <1>0, <1>5, <3>2 DEF Supersede
      <3> QED BY <3>1, <3>2
    <2> QED BY <2>1, <2>2
  <1>6. CASE Mark(p)
    <2> DEFINE k == VerdictOf(ledger, cached[p].review)
               n == [record EXCEPT !.receipted = k]
    <2>1. UNCHANGED <<ledger, used, tail, review, inv, why, granted, bridge, gone, trouble>>
      BY <1>6 DEF Mark
    <2>2. \E c \in Pending \cup {None}, s \in Stage :
            record' = c /\ cached' = [cached EXCEPT ![p] = c] /\ stage' = [stage EXCEPT ![p] = s]
      <3>1. CASE /\ record # None /\ record' = n /\ Cache(p, n)
                 /\ Goto(p, IF stage[p] = "mark" /\ inv[p] # None THEN "marked" ELSE "idle")
        <4>1. n \in Pending
          BY <3>1, PendingTypes, VerdictTypes
        <4> QED BY <1>0, <3>1, <4>1
      <3>2. CASE Halt(p) /\ Cache(p, record) /\ UNCHANGED record
        BY <1>0, <3>2
      <3> QED BY <1>6, <3>1, <3>2 DEF Mark
    <2> QED BY <2>1, <2>2
  <1> QED BY <1>1, <1>2, <1>3, <1>4, <1>5, <1>6 DEF Files

\* So do the steps that write neither the ledger nor the pending file.
LEMMA QuietTypes ==
  ASSUME TypeOK, NEW p \in Panel, Quiet(p)
  PROVE  TypeOK'
  <1> USE DEF Goto, Halt, Bridge, Cache, At
  <1> DEFINE B == [Panel -> BridgeState]
  <1>0. /\ bridge \in B /\ NoBridge \in BridgeState
        /\ \A b \in B : b \in [Panel -> [phase : {"none", "preparing", "begun", "issued",
                                 "settling", "finished", "resolved"},
                                 cancel : Reason \cup {None}, reason : Reason \cup {None}]]
    BY ReasonTypes DEF TypeOK, BridgeState, Phase
  <1>00. ASSUME NEW f \in Phase, NEW w \in Reason \cup {None}
         PROVE  /\ [bridge[p] EXCEPT !.phase = f] \in BridgeState
                /\ [bridge[p] EXCEPT !.phase = f, !.reason = w] \in BridgeState
                /\ [bridge[p] EXCEPT !.cancel = w] \in BridgeState
                /\ \A b \in BridgeState : [b EXCEPT !.phase = f, !.reason = w] \in BridgeState
                /\ \A b \in BridgeState : [b EXCEPT !.phase = f] \in BridgeState
    BY <1>0 DEF BridgeState
  <1> HIDE DEF B
  <1>1. ASSUME NEW s \in Stage, stage' = [stage EXCEPT ![p] = s]
        PROVE  stage' \in [Panel -> Stage]
    BY <1>1 DEF TypeOK
  <1>2. ASSUME NEW b \in BridgeState, bridge' = [bridge EXCEPT ![p] = b]
        PROVE  bridge' \in B
    BY <1>0, <1>2 DEF B
  <1>3. ASSUME NEW g, NEW w, Settle(p, g, w), g \in Reason \cup {None}, w \in Reason \cup {None}
        PROVE  bridge' \in B
    <2>1. Otherwise(Failure(p), Otherwise(g, w)) \in Reason \cup {None}
      BY <1>3, ReasonTypes DEF Otherwise
    <2>2. bridge' = [bridge EXCEPT ![p] = [bridge[p] EXCEPT !.phase = "settling",
                       !.reason = Otherwise(Failure(p), Otherwise(g, w))]]
      BY <1>3 DEF Settle
    <2>3. "settling" \in Phase
      BY DEF Phase
    <2> QED BY <1>00, <1>2, <2>1, <2>2, <2>3
  <1>4. ASSUME NEW w \in Reason, CancelPending(p, w) PROVE bridge' \in B
    <2> DEFINE b == [bridge[p] EXCEPT !.cancel = Otherwise(@, w)]
    <2>1. b \in BridgeState
      BY <1>0 DEF Otherwise, BridgeState, B
    <2>2. b.cancel \in Reason \cup {None} /\ "settling" \in Phase
      BY <2>1 DEF BridgeState, Phase
    <2>3. [b EXCEPT !.phase = "settling", !.reason = b.cancel] \in BridgeState
      BY <1>00, <2>1, <2>2
    <2>4. CASE bridge[p].phase = "none"
      BY <1>0, <1>4, <2>4 DEF CancelPending
    <2>5. CASE bridge[p].phase # "none"
      <3>1. bridge' = [bridge EXCEPT ![p] = IF b.phase # "issued" THEN b
                         ELSE [b EXCEPT !.phase = "settling", !.reason = b.cancel]]
        BY <1>4, <2>5 DEF CancelPending
      <3> HIDE DEF b
      <3> QED BY <1>2, <2>1, <2>3, <3>1
    <2> QED BY <2>4, <2>5
  <1>5. Trouble => trouble' \in 0 .. MaxTrouble
    BY ConstantsAssumption DEF Trouble, TypeOK
  <1>6. CASE Integrity(p)
    <2>1. stage' \in [Panel -> Stage]
      <3>1. stage' = [stage EXCEPT ![p] = IF tail[p] = Len(ledger) THEN Checked[stage[p]]
                                          ELSE "halted"]
        BY <1>6 DEF Integrity
      <3>2. stage[p] \in Stage /\ stage[p] \in DOMAIN Checked
        BY <1>6 DEF Integrity, TypeOK
      <3>3. "halted" \in Stage
        BY DEF Stage
      <3>4. Checked[stage[p]] \in Stage
        BY <3>2, StageNames
      <3> QED BY <1>1, <3>1, <3>3, <3>4
    <2> QED BY <1>6, <2>1 DEF Integrity, TypeOK, shared
  <1>7. CASE Initialize(p)
    <2>1. Len(ledger) \in Nat
      BY Places DEF TypeOK
    <2> QED BY <1>7, <2>1 DEF Initialize, TypeOK, shared, Stage
  <1>8. CASE OpenReview(p) \/ FailEarly(p) \/ Decide(p)
    <2>1. \E s \in {"opening", "dropping", "breaking", "halted", "deciding", "idle"} :
            stage' = [stage EXCEPT ![p] = s]
      BY <1>8 DEF OpenReview, FailEarly, Decide
    <2>2. stage' \in [Panel -> Stage]
      BY <1>1, <2>1 DEF Stage
    <2>3. granted' \in [Panel -> BOOLEAN]
      BY <1>8 DEF OpenReview, FailEarly, Decide, TypeOK
    <2> QED BY <1>8, <2>2, <2>3 DEF OpenReview, FailEarly, Decide, TypeOK, shared
  <1>9. ASSUME NEW i \in Invocation, Prepare(p, i) PROVE TypeOK'
    <2>1. \E s \in {"halted", "breaking", "entering", "omitting"} :
            stage' = [stage EXCEPT ![p] = s]
      BY <1>9 DEF Prepare
    <2>2. stage' \in [Panel -> Stage]
      BY <1>1, <2>1 DEF Stage
    <2>3. /\ inv' = inv \/ inv' = [inv EXCEPT ![p] = i]
          /\ gone' = gone \/ gone' = [gone EXCEPT ![p] = {}]
      BY <1>9 DEF Prepare
    <2>4. inv' \in [Panel -> Invocation \cup {None}]
      BY <2>3 DEF TypeOK
    <2>5. gone' \in [Panel -> SUBSET {"closed", "moved", "late", "drift"}]
      BY <2>3 DEF TypeOK
    <2> QED BY <1>9, <2>2, <2>4, <2>5 DEF Prepare, TypeOK, shared
  <1>10. CASE Request(p)
    <2>1. bridge' \in B
      BY <1>0, <1>2, <1>10, ReasonTypes DEF Request
    <2>2. stage' \in [Panel -> Stage]
      BY <1>1, <1>10 DEF Request, Stage
    <2> QED BY <1>0, <1>10, <2>1, <2>2 DEF Request, TypeOK, shared, B
  <1>11. CASE Answered(p)
    <2>1. ASSUME NEW w \in Reason \cup {None}, Withhold(p, w)
          PROVE  why' \in [Panel -> Reason \cup {None}] /\ stage' \in [Panel -> Stage]
      BY <2>1 DEF Withhold, TypeOK, Stage
    <2>2. why' \in [Panel -> Reason \cup {None}] /\ stage' \in [Panel -> Stage]
      <3>1. CASE Halt(p) /\ UNCHANGED why
        BY <3>1 DEF TypeOK, Stage
      <3>2. CASE Goto(p, "passing") /\ why' = [why EXCEPT ![p] = "completed"]
        BY <3>2 DEF TypeOK, Stage, Reason
      <3>3. CASE Withhold(p, "unfavorable-analysis")
        BY <2>1, <3>3 DEF Reason
      <3>4. CASE cached[p] # None /\ Withhold(p, Withheld(p))
        <4>1. Withheld(p) \in Reason \cup {None}
          BY <3>4, PendingTypes, ReasonTypes DEF Withheld, TypeOK
        <4> QED BY <2>1, <3>4, <4>1
      <3> QED BY <1>11, <3>1, <3>2, <3>3, <3>4 DEF Answered
    <2> QED BY <1>11, <2>2 DEF Answered, TypeOK, shared
  <1>12. CASE Conclude(p) \/ Retired(p)
    <2>1. CASE Retire(p)
      <3>1. bridge' \in B
        BY <1>0, <1>2, <2>1 DEF Retire
      <3>2. /\ stage' \in [Panel -> Stage] /\ granted' \in [Panel -> BOOLEAN]
            /\ inv' \in [Panel -> Invocation \cup {None}]
        BY <2>1 DEF Retire, TypeOK, Stage
      <3> QED BY <1>0, <2>1, <3>1, <3>2 DEF Retire, TypeOK, shared, B
    <2>2. CASE \E s \in {"halted", "withdrawing"} : Goto(p, s) /\
                 UNCHANGED <<shared, tail, review, inv, why, granted, bridge, cached, gone, trouble>>
      BY <2>2 DEF TypeOK, shared, Stage
    <2> QED BY <1>12, <2>1, <2>2 DEF Conclude, Retired
  <1>13. CASE Issue(p) \/ Timeout(p) \/ Result(p, None, None)
              \/ Result(p, None, "malformed-output") \/ Result(p, "unavailable", None)
    <2>1. bridge' \in B
      <3>1. "issued" \in Phase /\ {"timeout", "malformed-output", "unavailable", None} \subseteq Reason \cup {None}
        BY DEF Phase, Reason, Cancelled
      <3>2. [bridge[p] EXCEPT !.phase = "issued"] \in BridgeState
        BY <1>00, <3>1
      <3> QED BY <1>2, <1>3, <1>13, <3>1, <3>2, ReasonTypes DEF Issue, Timeout, Result
    <2> QED BY <1>0, <1>13, <2>1 DEF Issue, Timeout, Result, TypeOK, shared, B
  <1>14. CASE Resolve(p)
    <2>1. {"settling", "resolved"} \subseteq Phase /\ Failure(p) \in Reason \cup {None}
      BY ReasonTypes DEF Phase
    <2>2. bridge' \in B
      BY <1>00, <1>2, <1>14, <2>1 DEF Resolve
    <2>3. stage' \in [Panel -> Stage]
      BY <1>14 DEF Resolve, TypeOK, Stage
    <2> QED BY <1>0, <1>14, <2>2, <2>3 DEF Resolve, TypeOK, shared, B
  <1>15. CASE Cancel(p)
    <2>1. bridge' \in B
      BY <1>4, <1>15 DEF Cancel, Reason, Cancelled
    <2> QED BY <1>0, <1>5, <1>15, <2>1 DEF Cancel, TypeOK, shared, B
  <1>16. ASSUME NEW how \in {"closed", "moved"}, Disconnect(p, how) PROVE TypeOK'
    <2>1. bridge' \in B
      BY <1>4, <1>16 DEF Disconnect, Reason, Cancelled
    <2> QED BY <1>0, <1>5, <1>16, <2>1 DEF Disconnect, TypeOK, shared, B
  <1>17. CASE Drift(p) \/ Expire(p)
    <2> DEFINE G == {"closed", "moved", "late", "drift"}
    <2>1. gone' \in [Panel -> SUBSET G]
      <3>1. PICK x \in G : gone' = [gone EXCEPT ![p] = gone[p] \cup {x}]
        BY <1>17 DEF Drift, Expire
      <3>2. gone \in [Panel -> SUBSET G]
        BY DEF TypeOK
      <3> HIDE DEF G
      <3>3. gone[p] \cup {x} \in SUBSET G
        BY <3>1, <3>2
      <3> QED BY <3>1, <3>2, <3>3
    <2>2. trouble' \in 0 .. MaxTrouble
      BY <1>5, <1>17 DEF Drift, Expire, TypeOK
    <2>3. UNCHANGED <<shared, memory>>
      BY <1>17 DEF Drift, Expire
    <2> QED BY <2>1, <2>2, <2>3 DEF TypeOK, shared, memory
  <1>18. CASE Crash(p)
    <2>1. bridge' \in B
      BY <1>0, <1>2, <1>18 DEF Crash
    <2> QED BY <1>0, <1>5, <1>18, <2>1 DEF Crash, TypeOK, shared, Stage, B
  <1>19. CASE JournalFails(p)
    <2>1. bridge' \in B /\ stage' \in [Panel -> Stage]
      BY <1>0, <1>1, <1>2, <1>19 DEF JournalFails, Reject, Stage
    <2> QED BY <1>0, <1>5, <1>19, <2>1 DEF JournalFails, TypeOK, shared, B
  <1>20. CASE CustodyFails(p)
    BY <1>5, <1>20 DEF CustodyFails, TypeOK, shared, Stage
  <1> QED BY <1>6, <1>7, <1>8, <1>9, <1>10, <1>11, <1>12, <1>13, <1>14, <1>15, <1>16, <1>17,
             <1>18, <1>19, <1>20 DEF Quiet

\* Every step keeps ledger, file and memory well formed.
LEMMA TypeStep ==
  ASSUME TypeOK, \A p \in Panel : Posture(p), [Next]_vars
  PROVE  TypeOK'
  <1>1. CASE UNCHANGED vars
    BY <1>1 DEF vars, shared, memory, TypeOK
  <1> QED BY <1>1, Steps, PublicationTypes, RecordTypes, QuietTypes

\* Before the first panel starts, everything is well formed.
LEMMA InitTypes == Init => TypeOK
  <1>1. NoBridge \in [phase : {"none", "preparing", "begun", "issued", "settling",
                               "finished", "resolved"},
                      cancel : Reason \cup {None}, reason : Reason \cup {None}]
    BY DEF NoBridge
  <1>2. Init => ledger \in Seq(Receipt)
    BY DEF Init
  <1> QED BY <1>1, <1>2, ConstantsAssumption DEF Init, TypeOK, Stage

-----------------------------------------------------------------------------
(***************************************************************************)
(* What a step leaves alone                                                *)
(***************************************************************************)
\* A panel's memory is as it was.
Apart(q) ==
  /\ stage'[q] = stage[q] /\ tail'[q] = tail[q] /\ review'[q] = review[q]
  /\ inv'[q] = inv[q] /\ why'[q] = why[q] /\ granted'[q] = granted[q]
  /\ bridge'[q] = bridge[q] /\ cached'[q] = cached[q]

\* Its own is all that a step changes of the panels' memory.
LEMMA OthersApart ==
  ASSUME TypeOK, NEW p \in Panel, NEW q \in Panel, q # p,
         Publishes(p) \/ Files(p) \/ Quiet(p)
  PROVE  Apart(q)
  <1> USE DEF TypeOK, Apart, Goto, Halt, Bridge, Cache
  <1>1. CASE Publishes(p)
    <2>1. ASSUME NEW r, NEW e, NEW i, NEW w, NEW n, Publish(p, r, e, i, w, n)
          PROVE  stage'[q] = stage[q] /\ tail'[q] = tail[q]
      BY <2>1 DEF Publish
    <2>2. CASE Pass(p)
      <3>1. CASE Withhold(p, LiveReason(p)) /\ UNCHANGED <<ledger, tail>>
        BY <2>2, <3>1 DEF Pass, Withhold
      <3>2. CASE Publish(p, review[p], "eligible", inv[p], "completed", "published") /\ UNCHANGED why
        BY <2>1, <2>2, <3>2 DEF Pass
      <3> QED BY <2>2, <3>1, <3>2 DEF Pass
    <2>3. CASE Repair(p) \/ Dropped(p) \/ Broken(p) \/ Enter(p) \/ Fail(p) \/ Withdraw(p) \/ Decided(p)
      BY <2>1, <2>3 DEF Repair, Dropped, Broken, Enter, Fail, Withdraw, Decided
    <2>4. CASE Opened(p) \/ Omitted(p)
      BY <2>1, <2>4 DEF Opened, Omitted
    <2> QED BY <1>1, <2>2, <2>3, <2>4 DEF Publishes
  <1>2. CASE Files(p)
    <2>1. CASE Start(p) \/ RecoverChrome(p)
      BY <2>1 DEF Start, RecoverChrome
    <2>2. CASE Begin(p)
      BY <2>2 DEF Begin, Begins, Reject, shared
    <2>3. CASE Finish(p)
      BY <2>3 DEF Finish, Reject
    <2>4. CASE Supersede(p)
      BY <2>4 DEF Supersede
    <2>5. CASE Mark(p)
      BY <2>5 DEF Mark
    <2> QED BY <1>2, <2>1, <2>2, <2>3, <2>4, <2>5 DEF Files
  <1>3. CASE Quiet(p)
    <2> USE DEF memory
    <2>1. CASE Integrity(p) \/ Initialize(p) \/ OpenReview(p) \/ FailEarly(p) \/ Decide(p)
      BY <2>1 DEF Integrity, Initialize, OpenReview, FailEarly, Decide
    <2>2. ASSUME NEW i \in Invocation, Prepare(p, i) PROVE Apart(q)
      BY <2>2 DEF Prepare
    <2>3. CASE Request(p) \/ Answered(p)
      BY <2>3 DEF Request, Answered, Withhold
    <2>4. CASE Conclude(p) \/ Retired(p)
      BY <2>4 DEF Conclude, Retired, Retire
    <2>5. CASE Issue(p) \/ Resolve(p) \/ Timeout(p)
      BY <2>5 DEF Issue, Resolve, Timeout, Settle
    <2>6. CASE Result(p, None, None) \/ Result(p, None, "malformed-output")
                 \/ Result(p, "unavailable", None)
      BY <2>6 DEF Result, Settle
    <2>7. CASE Cancel(p) \/ \E how \in {"closed", "moved"} : Disconnect(p, how)
      BY <2>7 DEF Cancel, Disconnect, CancelPending
    <2>8. CASE Drift(p) \/ Expire(p) \/ CustodyFails(p) \/ JournalFails(p) \/ Crash(p)
      BY <2>8 DEF Drift, Expire, CustodyFails, JournalFails, Crash, Reject
    <2> QED BY <1>3, <2>1, <2>2, <2>3, <2>4, <2>5, <2>6, <2>7, <2>8 DEF Quiet
  <1> QED BY <1>1, <1>2, <1>3

\* Only a publication changes the ledger, by one receipt; only a write of the
\* pending file changes the file.
LEMMA QuietKeeps ==
  ASSUME NEW p \in Panel, Quiet(p)
  PROVE  ledger' = ledger /\ record' = record /\ used' = used
  <1> USE DEF shared
  <1>1. CASE Integrity(p) \/ Initialize(p) \/ OpenReview(p) \/ FailEarly(p) \/ Decide(p)
    BY <1>1 DEF Integrity, Initialize, OpenReview, FailEarly, Decide
  <1>2. CASE \E i \in Invocation : Prepare(p, i)
    BY <1>2 DEF Prepare
  <1>3. CASE Request(p) \/ Answered(p) \/ Conclude(p) \/ Retired(p)
    BY <1>3 DEF Request, Answered, Conclude, Retired, Retire
  <1>4. CASE Issue(p) \/ Resolve(p) \/ Timeout(p) \/ Result(p, None, None)
               \/ Result(p, None, "malformed-output") \/ Result(p, "unavailable", None)
    BY <1>4 DEF Issue, Resolve, Timeout, Result
  <1>5. CASE Cancel(p) \/ (\E how \in {"closed", "moved"} : Disconnect(p, how)) \/ Drift(p)
               \/ Expire(p) \/ CustodyFails(p) \/ JournalFails(p) \/ Crash(p)
    BY <1>5 DEF Cancel, Disconnect, Drift, Expire, CustodyFails, JournalFails, Crash
  <1> QED BY <1>1, <1>2, <1>3, <1>4, <1>5 DEF Quiet


\* A write of the pending file changes nothing else but stage and bridge.
LEMMA FilesKeep ==
  ASSUME NEW p \in Panel, Files(p)
  PROVE  /\ ledger' = ledger /\ tail' = tail /\ review' = review /\ inv' = inv
         /\ why' = why /\ granted' = granted
  BY DEF Files, Start, RecoverChrome, Begin, Begins, Finish, Supersede, Mark, shared

-----------------------------------------------------------------------------
(***************************************************************************)
(* A step that leaves the ledger alone                                     *)
(***************************************************************************)
\* What the ledger says does not change.
LEMMA SameLedger ==
  ASSUME ledger' = ledger
  PROVE  /\ \A r : Entered(r)' = Entered(r) /\ Closed(r)' = Closed(r) /\ Judged(r)' = Judged(r)
         /\ \A r : Events(ledger, r)' = Events(ledger, r) /\ Verdicts(ledger, r)' = Verdicts(ledger, r)
         /\ Retained(ledger)' = Retained(ledger) /\ Issued(ledger)' = Issued(ledger)
         /\ Origins' = Origins /\ Settled' = Settled /\ OneArtifact' = OneArtifact
  BY DEF Entered, Closed, Judged, Events, Verdicts, Retained, Issued, Origins, Settled, OneArtifact

\* No review becomes live.
LEMMA KeepAlone ==
  ASSUME TypeOK, Alone, ledger' = ledger,
         \A q \in Panel : review'[q] \in {review[q], 0} /\
                          (Alive(q)' /\ review'[q] # 0 => Alive(q))
  PROVE  Alone'
  <1>1. \A r \in Nat : Closed(r)' = Closed(r) /\ Entered(r)' = Entered(r)
    BY SameLedger
  <1>2. ASSUME NEW r \in Nat, Live(r)' PROVE Live(r)
    <2>1. r \in DOMAIN ledger /\ ~ Closed(r) /\ r # 0
      <3>1. r \in DOMAIN ledger /\ ~ Closed(r)'
        BY <1>2 DEF Live
      <3>2. r # 0
        BY <3>1, Places DEF TypeOK
      <3>3. Closed(r)' = Closed(r)
        BY <1>1
      <3> QED BY <3>1, <3>2, <3>3
    <2>2. CASE Entered(r)'
      BY <1>1, <2>1, <2>2 DEF Live
    <2>3. ASSUME NEW q \in Panel, Alive(q)', review'[q] = r PROVE Live(r)
      BY <2>1, <2>3 DEF Live
    <2> QED BY <1>2, <2>2, <2>3 DEF Live
  <1>3. \A q \in Panel : review'[q] <= Len(ledger')
    <2>1. Len(ledger) \in Nat /\ Len(ledger') = Len(ledger)
      BY Places DEF TypeOK
    <2> QED BY <2>1 DEF Alone
  <1>4. \A q, s \in Panel : review'[q] = review'[s] /\ review'[q] # 0 => q = s
    BY DEF Alone
  <1> QED BY <1>2, <1>3, <1>4 DEF Alone

\* Copies that descend from copies are backed as those were.
Descends(c, d) ==
  c.inv = d.inv /\ c.review = d.review /\ (c.receipted = d.receipted \/ Judged(c.review))

\* So a step that makes copies only of copies keeps them backed.
LEMMA KeepRecords ==
  ASSUME Records, ledger' = ledger, used' = used,
         \A c \in Copies' : \E d \in Copies : Descends(c, d),
         record' = None => record = None
  PROVE  Records'
  <1>1. ASSUME NEW c \in Copies' PROVE Backed(c)'
    <2>1. PICK d \in Copies : Descends(c, d)
      BY <1>1
    <2>2. Backed(d)
      BY <2>1 DEF Records
    <2> QED BY <2>1, <2>2, SameLedger DEF Backed, Descends
  <1>2. ASSUME NEW c \in Copies', NEW d \in Copies' PROVE c.inv = d.inv <=> c.review = d.review
    <2>1. PICK a \in Copies : Descends(c, a)
      BY <1>2
    <2>2. PICK b \in Copies : Descends(d, b)
      BY <1>2
    <2> QED BY <2>1, <2>2 DEF Records, Descends
  <1> QED BY <1>1, <1>2 DEF Records

\* The bound, unbegun id of a panel stays its own.
LEMMA KeepFresh ==
  ASSUME NEW q \in Panel, Fresh(q), Unbegun(q)' => Unbegun(q), ledger' = ledger,
         inv'[q] = inv[q], review'[q] = review[q],
         \A c \in Copies' : \E d \in Copies : Descends(c, d)
  PROVE  Fresh(q)'
  <1> SUFFICES ASSUME Unbegun(q)' PROVE /\ ~ Judged(review[q])' /\ inv[q] \notin Retained(ledger)'
                                        /\ \A c \in Copies' : c.inv # inv[q] /\ c.review # review[q]
    BY DEF Fresh, Judged
  <1>1. /\ ~ Judged(review[q]) /\ inv[q] \notin Retained(ledger)
        /\ \A c \in Copies : c.inv # inv[q] /\ c.review # review[q]
    BY DEF Fresh
  <1>2. ~ Judged(review[q])' /\ inv[q] \notin Retained(ledger)'
    BY <1>1, SameLedger DEF Judged
  <1> QED BY <1>1, <1>2 DEF Descends

\* What a panel knows stays true while the ledger and its own memory stay.
LEMMA KeepKnows ==
  ASSUME NEW q \in Panel, Knows(q), ledger' = ledger, tail'[q] = tail[q], review'[q] = review[q],
         stage'[q] \in Pre => Owns(q, "opened"),
         stage'[q] \in Amid => Owns(q, "chrome-semantic-review"),
         stage'[q] \in {"withdrawing", "withdraw", "deciding", "decide"} \/ granted'[q] =>
           Owns(q, "eligible"),
         stage'[q] \in {"opening", "open"} => tail[q] = 0 \/ Last(q).event \in Terminal
  PROVE  Knows(q)'
  <1>1. \A e : Owns(q, e)' = Owns(q, e)
    BY DEF Owns, Last
  <1>2. Last(q)' = Last(q)
    BY DEF Last
  <1>3. Closed(review[q])' = Closed(review[q]) /\ Entered(review[q])' = Entered(review[q])
        /\ Judged(review[q])' = Judged(review[q])
    BY DEF Closed, Entered, Judged
  <1> USE DEF Knows
  <1>4. Owns(q, "opened") => ~ Closed(review[q])' /\ ~ Entered(review[q])' /\ ~ Judged(review[q])'
    BY <1>3
  <1>5. Owns(q, "eligible") => ~ Closed(review[q])' /\ Judged(review[q])'
    BY <1>3
  <1> QED BY <1>1, <1>2, <1>4, <1>5

-----------------------------------------------------------------------------
(***************************************************************************)
(* A step that publishes a receipt                                         *)
(***************************************************************************)
\* The opening of a review, by a panel that saw the last one end or by one
\* whose view has grown old (it halts)
Opening(p, x) ==
  /\ x.review = Len(ledger) + 1 /\ x.event = "opened" /\ x.inv = None
  /\ review' = [review EXCEPT ![p] = Len(ledger) + 1]
  /\ \/ stage'[p] = "halted"
     \/ \A r \in Nat : ~ Live(r)

\* A further receipt of the live review
Further(p, x) ==
  /\ Live(x.review) /\ x.event # "opened" /\ review' = review
  /\ ledger[x.review].review = x.review
  /\ x.event \in Terminal => Judged(x.review) \/ ~ Entered(x.review) \/ x.inv # None
  /\ x.inv # None =>
       /\ ~ Judged(x.review) /\ x.inv \notin Retained(ledger)
       /\ \A c \in Copies : c.inv = x.inv <=> c.review = x.review
       /\ IF x.why = "incomplete-input"
            THEN x.inv \notin used \ Issued(ledger) /\ \A c \in Copies : c.review # x.review
            ELSE x.inv \in used

\* The receipt contradicts nothing that another panel knows.
Foreign(p, x) ==
  \A q \in Panel \ {p} : Alive(q) =>
    /\ Owns(q, "opened") \/ Owns(q, "eligible") \/ Unbegun(q) => review[q] # x.review
    /\ Unbegun(q) /\ x.inv # None => x.inv # inv[q]

Due(p, x) ==
  /\ x \in Receipt /\ ledger' = Append(ledger, x)
  /\ Opening(p, x) \/ Further(p, x)
  /\ Foreign(p, x)
  /\ UNCHANGED <<record, used, cached>>

\* A live review has been opened, and nothing but its own receipts say so.
LEMMA LivePlace ==
  ASSUME TypeOK, Origins, NEW r, Live(r)
  PROVE  r \in Nat /\ r \in DOMAIN ledger /\ r <= Len(ledger)
  BY Places DEF Live, TypeOK

\* A review with a receipt was opened where it says.
LEMMA OriginPlace ==
  ASSUME TypeOK, Origins, NEW k \in DOMAIN ledger
  PROVE  /\ ledger[k].review \in DOMAIN ledger
         /\ ledger[ledger[k].review].review = ledger[k].review
  <1>1. k \in 1 .. Len(ledger) /\ Len(ledger) \in Nat /\ DOMAIN ledger = 1 .. Len(ledger)
    BY Places DEF TypeOK
  <1>2. ledger[k].review \in 1 .. k
    BY DEF Origins
  <1> QED BY <1>1, <1>2 DEF Origins

\* So was every review that entered the Chrome stage.
LEMMA EnteredPlace ==
  ASSUME TypeOK, Origins, NEW r, Entered(r)
  PROVE  r \in DOMAIN ledger /\ ledger[r].review = r
  <1>1. PICK k \in DOMAIN ledger : ledger[k].review = r
    BY DEF Entered, Events
  <1> QED BY <1>1, OriginPlace

\* The place where a due receipt's review was opened
LEMMA DuePlace ==
  ASSUME TypeOK, Origins, NEW p, NEW x, Due(p, x), x.event # "opened"
  PROVE  x.review \in DOMAIN ledger /\ ledger[x.review].review = x.review
  BY LivePlace DEF Due, Opening, Further

\* A due receipt names the place where its review was opened.
LEMMA AppendOrigins ==
  ASSUME TypeOK, Origins, NEW p, NEW x, Due(p, x)
  PROVE  Origins'
  <1> DEFINE n == Len(ledger) + 1
  <1>1. /\ DOMAIN ledger' = DOMAIN ledger \cup {n} /\ n \notin DOMAIN ledger
        /\ ledger'[n] = x /\ \A k \in DOMAIN ledger : ledger'[k] = ledger[k]
    BY AppendPlaces DEF Due, TypeOK
  <1>2. n \in Nat /\ 1 <= n /\ DOMAIN ledger = 1 .. n - 1
    BY Places DEF TypeOK
  <1>3. x.event = "opened" <=> x.review = n
    <2>1. x.event # "opened" => x.review # n
      BY <1>1, DuePlace
    <2>2. x.event = "opened" => x.review = n
      <3>1. Opening(p, x) \/ Further(p, x)
        BY DEF Due
      <3>2. Further(p, x) => x.event # "opened"
        BY DEF Further
      <3>3. Opening(p, x) => x.review = n
        BY DEF Opening
      <3> QED BY <3>1, <3>2, <3>3
    <2> QED BY <2>1, <2>2
  <1> HIDE DEF n
  <1>4. ASSUME NEW k \in DOMAIN ledger'
        PROVE  /\ ledger'[k].review \in 1 .. k
               /\ ledger'[k].event = "opened" <=> ledger'[k].review = k
               /\ ledger'[ledger'[k].review].review = ledger'[k].review
    <2>1. CASE k = n
      <3>1. CASE x.event = "opened"
        <4>1. ledger'[k] = x /\ x.review = k /\ k \in 1 .. k
          BY <1>1, <1>2, <1>3, <2>1, <3>1
        <4> QED BY <3>1, <4>1
      <3>2. CASE x.event # "opened"
        <4>1. x.review \in DOMAIN ledger /\ ledger[x.review].review = x.review
          BY <3>2, DuePlace
        <4>2. ledger'[k] = x /\ ledger'[x.review].review = x.review /\ x.review \in 1 .. k
          BY <1>1, <1>2, <2>1, <4>1
        <4> QED BY <1>3, <2>1, <3>2, <4>2
      <3> QED BY <3>1, <3>2
    <2>2. CASE k \in DOMAIN ledger
      BY <1>1, <2>2, OriginPlace DEF Origins
    <2> QED BY <1>1, <2>1, <2>2
  <1> QED BY <1>4 DEF Origins

\* What the ledger says after a due receipt
LEMMA DueFacts ==
  ASSUME TypeOK, NEW p, NEW x, Due(p, x)
  PROVE  /\ \A r : r # x.review => /\ Entered(r)' = Entered(r) /\ Closed(r)' = Closed(r)
                                   /\ Judged(r)' = Judged(r)
                                   /\ Verdicts(ledger, r)' = Verdicts(ledger, r)
         /\ \A r : (Entered(r) => Entered(r)') /\ (Closed(r) => Closed(r)') /\ (Judged(r) => Judged(r)')
         /\ Entered(x.review)' <=> Entered(x.review) \/ x.event = "chrome-semantic-review"
         /\ Closed(x.review)' <=> Closed(x.review) \/ x.event \in Terminal
         /\ Judged(x.review)' <=> Judged(x.review) \/ x.inv # None
         /\ x.inv = None => \A r : Verdicts(ledger, r)' = Verdicts(ledger, r)
         /\ x.inv = None => Retained(ledger)' = Retained(ledger) /\ Issued(ledger)' = Issued(ledger)
         /\ x.inv # None => /\ Retained(ledger)' = Retained(ledger) \cup {x.inv}
                            /\ x.why = "incomplete-input" => Issued(ledger)' = Issued(ledger)
                            /\ x.why # "incomplete-input" => Issued(ledger)' = Issued(ledger) \cup {x.inv}
  <1>0. ledger \in Seq(Receipt) /\ x \in Receipt /\ ledger' = Append(ledger, x)
    BY DEF TypeOK, Due
  <1>1. /\ \A r : Events(ledger, r)' = Events(ledger, r) \cup (IF x.review = r THEN {x.event} ELSE {})
        /\ \A r : Verdicts(ledger, r)' = Verdicts(ledger, r) \cup
                    (IF x.review = r /\ x.inv # None THEN {Len(ledger) + 1} ELSE {})
        /\ Retained(ledger)' = Retained(ledger) \cup ({x.inv} \ {None})
        /\ Issued(ledger)' = Issued(ledger) \cup
             (IF x.why # "incomplete-input" THEN {x.inv} \ {None} ELSE {})
    BY <1>0, AppendFacts
  <1>2. ASSUME NEW r
        PROVE  /\ r # x.review => Events(ledger, r)' = Events(ledger, r)
               /\ r # x.review => Verdicts(ledger, r)' = Verdicts(ledger, r)
               /\ x.inv = None => Verdicts(ledger, r)' = Verdicts(ledger, r)
               /\ Events(ledger, r) \subseteq Events(ledger, r)'
               /\ Verdicts(ledger, r) \subseteq Verdicts(ledger, r)'
    BY <1>1
  <1>3. ASSUME NEW r
        PROVE  /\ Entered(r)' <=> "chrome-semantic-review" \in Events(ledger, r)'
               /\ Closed(r)' <=> Events(ledger, r)' \cap Terminal # {}
               /\ Judged(r)' <=> Verdicts(ledger, r)' # {}
    BY DEF Entered, Closed, Judged
  <1>4. Events(ledger, x.review)' = Events(ledger, x.review) \cup {x.event}
    BY <1>1
  <1>5. x.inv # None => Verdicts(ledger, x.review)' = Verdicts(ledger, x.review) \cup {Len(ledger) + 1}
    BY <1>1
  <1>6. ASSUME NEW r
        PROVE  /\ r # x.review => /\ Entered(r)' = Entered(r) /\ Closed(r)' = Closed(r)
                                  /\ Judged(r)' = Judged(r)
               /\ (Entered(r) => Entered(r)') /\ (Closed(r) => Closed(r)') /\ (Judged(r) => Judged(r)')
    BY <1>2, <1>3 DEF Entered, Closed, Judged
  <1>7. Entered(x.review)' <=> Entered(x.review) \/ x.event = "chrome-semantic-review"
    BY <1>3, <1>4 DEF Entered
  <1>8. Closed(x.review)' <=> Closed(x.review) \/ x.event \in Terminal
    BY <1>3, <1>4 DEF Closed
  <1>9. Judged(x.review)' <=> Judged(x.review) \/ x.inv # None
    BY <1>2, <1>3, <1>5 DEF Judged
  <1> QED BY <1>1, <1>2, <1>6, <1>7, <1>8, <1>9

\* A due receipt leaves an entered review that has ended with its artifact.
LEMMA AppendSettled ==
  ASSUME TypeOK, Origins, Settled, NEW p, NEW x, Due(p, x)
  PROVE  Settled'
  <1>1. ASSUME NEW r \in Nat, Entered(r)', Closed(r)' PROVE Judged(r)'
    <2>1. CASE r # x.review
      BY <1>1, <2>1, DueFacts DEF Settled
    <2>2. CASE r = x.review /\ Opening(p, x)
      <3>1. x.event = "opened"
        BY <2>2 DEF Opening
      <3>2. Entered(r) /\ Closed(r)
        BY <1>1, <2>2, <3>1, DueFacts DEF Terminal
      <3> QED BY <3>2, DueFacts DEF Settled
    <2>3. CASE r = x.review /\ Further(p, x)
      <3>1. ~ Closed(r) /\ (x.event \in Terminal => Judged(r) \/ ~ Entered(r) \/ x.inv # None)
        BY <2>3 DEF Further, Live
      <3>2. x.event \in Terminal /\ (Entered(r) \/ x.event = "chrome-semantic-review")
        BY <1>1, <2>3, <3>1, DueFacts
      <3>3. Entered(r)
        BY <3>2 DEF Terminal
      <3> QED BY <2>3, <3>1, <3>2, <3>3, DueFacts
    <2> QED BY <2>1, <2>2, <2>3 DEF Due
  <1> QED BY <1>1 DEF Settled

\* Copies of pending records stay backed.
LEMMA AppendRecords ==
  ASSUME TypeOK, Origins, Records, NEW p, NEW x, Due(p, x)
  PROVE  Records'
  <1>0. record' = record /\ used' = used /\ cached' = cached /\ Copies' = Copies
    BY DEF Due, Copies
  <1>00. /\ ledger'[Len(ledger) + 1] = x /\ Len(ledger) + 1 \notin DOMAIN ledger
         /\ \A k \in DOMAIN ledger : ledger'[k] = ledger[k]
    BY AppendPlaces DEF Due, TypeOK
  <1>1. ASSUME NEW c \in Copies PROVE Backed(c)'
    <2>1. Backed(c)
      BY DEF Records
    <2>2. c.inv \in used' /\ Entered(c.review)' /\ (c.receipted # 0 => Judged(c.review)')
      BY <1>0, <2>1, DueFacts DEF Backed
    <2>3. ASSUME NEW k \in Verdicts(ledger, c.review)
          PROVE  ledger'[k].inv = c.inv /\ ledger'[k].why # "incomplete-input"
      BY <1>00, <2>1 DEF Backed, Verdicts
    <2>4. CASE x.inv = None
      <3>1. Judged(c.review)' = Judged(c.review) /\ Retained(ledger)' = Retained(ledger)
            /\ Verdicts(ledger, c.review)' = Verdicts(ledger, c.review)
        <4>1. Verdicts(ledger, c.review)' = Verdicts(ledger, c.review)
          BY <2>4, DueFacts
        <4> QED BY <2>4, <4>1, DueFacts DEF Judged
      <3> QED BY <2>1, <2>2, <2>3, <3>1 DEF Backed
    <2>5. CASE x.inv # None
      <3>1. Further(p, x)
        BY <2>5 DEF Due, Opening
      <3>2. /\ \A d \in Copies : d.inv = x.inv <=> d.review = x.review
            /\ x.why = "incomplete-input" => c.review # x.review
        BY <2>5, <3>1 DEF Further
      <3>3. CASE c.review = x.review
        <4>1. x.inv = c.inv /\ x.why # "incomplete-input"
          BY <3>2, <3>3
        <4>2. Judged(c.review)'
          BY <2>5, <3>3, DueFacts
        <4>3. ASSUME NEW k \in Verdicts(ledger, c.review)'
              PROVE  ledger'[k].inv = c.inv /\ ledger'[k].why # "incomplete-input"
          <5>1. k \in Verdicts(ledger, c.review) \/ k = Len(ledger) + 1
            BY AppendFacts DEF Due, TypeOK
          <5> QED BY <1>00, <2>3, <4>1, <5>1
        <4> QED BY <2>2, <4>2, <4>3 DEF Backed
      <3>4. CASE c.review # x.review
        <4>1. x.inv # c.inv
          BY <3>2, <3>4
        <4>2. Judged(c.review)' = Judged(c.review) /\ Verdicts(ledger, c.review)' = Verdicts(ledger, c.review)
              /\ Retained(ledger)' = Retained(ledger) \cup {x.inv}
          BY <2>5, <3>4, DueFacts
        <4> QED BY <2>1, <2>2, <2>3, <4>1, <4>2 DEF Backed
      <3> QED BY <3>3, <3>4
    <2> QED BY <2>4, <2>5
  <1> QED BY <1>0, <1>1 DEF Records

\* A second artifact, for its review or its id, is never due.
LEMMA AppendArtifact ==
  ASSUME TypeOK, Origins, OneArtifact, NEW p, NEW x, Due(p, x)
  PROVE  OneArtifact'
  <1> DEFINE n == Len(ledger) + 1
  <1>1. /\ DOMAIN ledger' = DOMAIN ledger \cup {n} /\ n \notin DOMAIN ledger
        /\ ledger'[n] = x /\ \A k \in DOMAIN ledger : ledger'[k] = ledger[k]
    BY AppendPlaces DEF Due, TypeOK
  <1> HIDE DEF n
  <1>2. ASSUME x.inv # None, NEW k \in DOMAIN ledger, ledger[k].inv # None
        PROVE  ledger[k].review # x.review /\ ledger[k].inv # x.inv
    <2>1. ~ Judged(x.review) /\ x.inv \notin Retained(ledger)
      BY <1>2 DEF Due, Opening, Further
    <2> QED BY <1>2, <2>1 DEF Judged, Verdicts, Retained
  <1>3. ASSUME NEW j \in DOMAIN ledger', NEW k \in DOMAIN ledger',
               ledger'[j].inv # None, ledger'[k].inv # None,
               ledger'[j].review = ledger'[k].review \/ ledger'[j].inv = ledger'[k].inv
        PROVE  j = k
    <2>1. CASE j \in DOMAIN ledger /\ k \in DOMAIN ledger
      BY <1>1, <1>3, <2>1 DEF OneArtifact
    <2>2. CASE j = n /\ k \in DOMAIN ledger
      BY <1>1, <1>2, <1>3, <2>2
    <2>3. CASE k = n /\ j \in DOMAIN ledger
      BY <1>1, <1>2, <1>3, <2>3
    <2> QED BY <1>1, <2>1, <2>2, <2>3
  <1> QED BY <1>3 DEF OneArtifact

\* File and ledger go on accounting for the same ids.
LEMMA AppendForgotten ==
  ASSUME TypeOK, Origins, NothingForgotten, NEW p, NEW x, Due(p, x)
  PROVE  NothingForgotten'
  <1>1. record' = record /\ used' = used
    BY DEF Due
  <1>2. CASE x.inv = None
    <2>1. Retained(ledger)' = Retained(ledger) /\ Issued(ledger)' = Issued(ledger)
      BY <1>2, DueFacts
    <2> QED BY <1>1, <2>1 DEF NothingForgotten
  <1>3. CASE x.inv # None /\ x.why = "incomplete-input"
    <2>1. x.inv \notin used \ Issued(ledger)
      BY <1>3 DEF Due, Opening, Further
    <2>2. Retained(ledger)' = Retained(ledger) \cup {x.inv} /\ Issued(ledger)' = Issued(ledger)
      BY <1>3, DueFacts
    <2> QED BY <1>1, <2>1, <2>2 DEF NothingForgotten
  <1>4. CASE x.inv # None /\ x.why # "incomplete-input"
    <2>1. x.inv \in used
      BY <1>4 DEF Due, Opening, Further
    <2>2. /\ Retained(ledger)' = Retained(ledger) \cup {x.inv}
          /\ Issued(ledger)' = Issued(ledger) \cup {x.inv}
      BY <1>4, DueFacts
    <2> QED BY <1>1, <2>1, <2>2 DEF NothingForgotten
  <1> QED BY <1>2, <1>3, <1>4

\* One review is live at most: a terminal receipt ends it, an opening finds
\* none unless the panel that opens halts.
LEMMA AppendAlone ==
  ASSUME TypeOK, Origins, Alone, NEW p \in Panel, NEW x, Due(p, x),
         \A q \in Panel : Alive(q)' => Alive(q)
  PROVE  Alone'
  <1>0. PICK n \in Nat : n = Len(ledger) + 1
    BY Places DEF TypeOK
  <1>1. /\ DOMAIN ledger' = DOMAIN ledger \cup {n} /\ n \notin DOMAIN ledger
        /\ ledger'[n] = x /\ \A k \in DOMAIN ledger : ledger'[k] = ledger[k]
        /\ Len(ledger') = n
    BY <1>0, AppendPlaces DEF Due, TypeOK
  <1>2. n \in Nat /\ 1 <= n /\ DOMAIN ledger = 1 .. n - 1 /\ review \in [Panel -> Nat]
    BY <1>0, Places DEF TypeOK
  <1>3. \A q \in Panel : review[q] <= n - 1
    BY <1>0, <1>2, Places DEF Alone, TypeOK
  <1>4. CASE Opening(p, x)
    <2>1. /\ x.review = n /\ x.event = "opened" /\ review' = [review EXCEPT ![p] = n]
          /\ stage'[p] = "halted" \/ \A r \in Nat : ~ Live(r)
      BY <1>0, <1>4 DEF Opening
    <2>2. ~ Entered(n)
      <3>1. n \notin DOMAIN ledger
        BY <1>1
      <3> QED BY <3>1, EnteredPlace
    <2>3. ASSUME NEW r \in Nat, Live(r)', r # n PROVE Live(r)
      <3>1. r \in DOMAIN ledger /\ ~ Closed(r)
        BY <1>1, <2>1, <2>3, DueFacts DEF Live
      <3>2. CASE Entered(r)'
        <4>1. Entered(r)
          BY <2>1, <2>3, <3>2, DueFacts
        <4> QED BY <3>1, <4>1 DEF Live
      <3>3. ASSUME NEW q \in Panel, Alive(q)', review'[q] = r PROVE Live(r)
        <4>1. review[q] = r /\ Alive(q)
          BY <1>2, <2>1, <2>3, <3>3
        <4> QED BY <3>1, <4>1 DEF Live
      <3> QED BY <2>3, <3>2, <3>3 DEF Live
    <2>4. Live(n)' => stage'[p] # "halted"
      <3>1. SUFFICES ASSUME Live(n)' PROVE stage'[p] # "halted"
        OBVIOUS
      <3>2. ~ Entered(n)'
        BY <2>1, <2>2, DueFacts
      <3>3. PICK q \in Panel : Alive(q)' /\ review'[q] = n
        BY <3>1, <3>2 DEF Live
      <3>4. q = p
        BY <1>2, <1>3, <2>1, <3>3
      <3> QED BY <3>3, <3>4 DEF Alive
    <2>5. ASSUME NEW r \in Nat, Live(r)' PROVE /\ \A s \in Nat : Live(s)' => r = s
                                               /\ \A k \in DOMAIN ledger' : k > r => ledger'[k].event \notin Terminal
      <3>1. CASE r = n
        <4>1. \A s \in Nat : Live(s)' => r = s
          BY <2>1, <2>3, <2>4, <2>5, <3>1
        <4>2. \A k \in DOMAIN ledger' : ~ (k > r)
          BY <1>1, <1>2, <3>1
        <4> QED BY <4>1, <4>2
      <3>2. CASE r # n
        <4>1. Live(r)
          BY <2>3, <2>5, <3>2
        <4>2. ~ Live(n)'
          BY <2>1, <2>4, <4>1
        <4>3. \A s \in Nat : Live(s)' => r = s
          BY <2>3, <4>1, <4>2 DEF Alone
        <4>4. ASSUME NEW k \in DOMAIN ledger', k > r PROVE ledger'[k].event \notin Terminal
          <5>1. CASE k = n
            BY <1>1, <2>1, <5>1 DEF Terminal
          <5>2. CASE k \in DOMAIN ledger
            BY <1>1, <4>1, <4>4, <5>2 DEF Alone
          <5> QED BY <1>1, <5>1, <5>2
        <4> QED BY <4>3, <4>4
      <3> QED BY <3>1, <3>2
    <2>6. \A q \in Panel : review'[q] <= Len(ledger')
      BY <1>1, <1>2, <1>3, <2>1
    <2>7. \A q, s \in Panel : review'[q] = review'[s] /\ review'[q] # 0 => q = s
      BY <1>2, <1>3, <2>1 DEF Alone
    <2> QED BY <2>5, <2>6, <2>7 DEF Alone
  <1>5. CASE Further(p, x)
    <2>1. Live(x.review) /\ review' = review
      BY <1>5 DEF Further
    <2>2. x.review \in Nat /\ x.review \in DOMAIN ledger
      BY <2>1, LivePlace
    <2>3. ASSUME NEW r \in Nat, Live(r)' PROVE Live(r) /\ x.event \notin Terminal
      <3>1. r \in DOMAIN ledger'
        BY <2>3 DEF Live
      <3>2. CASE r = x.review
        <4>1. ~ Closed(r)'
          BY <2>3 DEF Live
        <4> QED BY <2>1, <3>2, <4>1, DueFacts
      <3>3. CASE r # x.review
        <4>1. ~ Closed(r) /\ Entered(r)' = Entered(r)
          BY <2>3, <3>3, DueFacts DEF Live
        <4>2. r # n
          <5>1. ~ Entered(n) /\ n # x.review
            BY <1>1, <2>2, EnteredPlace
          <5>2. SUFFICES ASSUME r = n PROVE FALSE
            OBVIOUS
          <5>3. ~ Entered(r)'
            BY <4>1, <5>1, <5>2
          <5>4. PICK q \in Panel : review'[q] = n
            BY <2>3, <5>2, <5>3 DEF Live
          <5> QED BY <1>2, <1>3, <2>1, <5>4
        <4>3. Live(r)
          BY <1>1, <2>1, <2>3, <3>1, <4>1, <4>2 DEF Live
        <4> QED BY <2>1, <2>2, <3>3, <4>3 DEF Alone
      <3> QED BY <3>2, <3>3
    <2>4. ASSUME NEW r \in Nat, Live(r)' PROVE /\ \A s \in Nat : Live(s)' => r = s
                                               /\ \A k \in DOMAIN ledger' : k > r => ledger'[k].event \notin Terminal
      <3>1. Live(r) /\ x.event \notin Terminal
        BY <2>3, <2>4
      <3>2. \A s \in Nat : Live(s)' => r = s
        BY <2>3, <3>1 DEF Alone
      <3>3. ASSUME NEW k \in DOMAIN ledger', k > r PROVE ledger'[k].event \notin Terminal
        BY <1>1, <3>1, <3>3 DEF Alone
      <3> QED BY <3>2, <3>3
    <2>5. \A q \in Panel : review'[q] <= Len(ledger')
      BY <1>1, <1>2, <1>3, <2>1
    <2> QED BY <2>1, <2>4, <2>5 DEF Alone
  <1> QED BY <1>4, <1>5 DEF Due

-----------------------------------------------------------------------------
(***************************************************************************)
(* What another panel's step does to a panel                               *)
(***************************************************************************)
\* A stage's claims survive: artifacts are never withdrawn.
LEMMA PostureApart ==
  ASSUME NEW q \in Panel, Posture(q), Apart(q), \A r : Judged(r) => Judged(r)'
  PROVE  Posture(q)'
  <1>1. PICK v : v = cached[q].review
    OBVIOUS
  <1>2. stage[q] \in {"published", "mark", "remark"} => Judged(cached[q].review)'
    <2>1. SUFFICES ASSUME stage[q] \in {"published", "mark", "remark"} PROVE Judged(cached[q].review)'
      OBVIOUS
    <2>2. Judged(v)
      BY <1>1, <2>1 DEF Posture
    <2>3. Judged(v)' /\ v = cached'[q].review
      BY <1>1, <2>2 DEF Apart
    <2> QED BY <2>3 DEF Judged
  <1>3. Alive(q)' = Alive(q) /\ \A s : At(q, s)' = At(q, s)
    BY DEF Alive, At, Apart
  <1> QED BY <1>2, <1>3 DEF Posture, Apart

\* So does what it knows, if the receipt is not foreign to it.
LEMMA KnowsApart ==
  ASSUME TypeOK, Origins, NEW p \in Panel, NEW x, Due(p, x), NEW q \in Panel, q # p,
         Alive(q), Knows(q), Apart(q)
  PROVE  Knows(q)'
  <1>1. PICK r \in Nat : r = review[q]
    BY DEF TypeOK
  <1>2. PICK t \in Nat : t = tail[q]
    BY DEF TypeOK
  <1>3. /\ Len(ledger') = Len(ledger) + 1 /\ Len(ledger) \in Nat /\ DOMAIN ledger = 1 .. Len(ledger)
        /\ \A k \in DOMAIN ledger : ledger'[k] = ledger[k]
    BY AppendPlaces, Places DEF Due, TypeOK
  <1>4. t <= Len(ledger) /\ (r # 0 => t # 0 /\ ledger[t].review = r)
    BY <1>1, <1>2 DEF Knows, Last
  <1>5. t # 0 => ledger'[t] = ledger[t]
    BY <1>3, <1>4
  <1>6. /\ \A e : Owns(q, e) <=> r # 0 /\ ledger[t].event = e
        /\ \A e : Owns(q, e)' <=> r # 0 /\ ledger'[t].event = e
        /\ Last(q) = ledger[t] /\ Last(q)' = ledger'[t]
    <2>1. Last(q) = ledger[t] /\ Last(q)' = ledger'[t]
      BY <1>2 DEF Last, Apart
    <2>2. ASSUME NEW e
          PROVE  /\ Owns(q, e) <=> r # 0 /\ ledger[t].event = e
                 /\ Owns(q, e)' <=> r # 0 /\ ledger'[t].event = e
      BY <1>1, <2>1 DEF Owns, Apart
    <2> QED BY <2>1, <2>2
  <1>7. \A e : Owns(q, e)' <=> Owns(q, e)
    BY <1>4, <1>5, <1>6
  <1>8. Owns(q, "opened") => ~ Closed(r)' /\ ~ Entered(r)' /\ ~ Judged(r)'
    <2>1. SUFFICES ASSUME Owns(q, "opened") PROVE ~ Closed(r)' /\ ~ Entered(r)' /\ ~ Judged(r)'
      OBVIOUS
    <2>2. r # x.review
      BY <1>1, <2>1 DEF Due, Foreign
    <2>3. ~ Closed(r) /\ ~ Entered(r) /\ ~ Judged(r)
      BY <1>1, <2>1 DEF Knows
    <2> QED BY <2>2, <2>3, DueFacts
  <1>9. Owns(q, "eligible") => ~ Closed(r)' /\ Judged(r)'
    <2>1. SUFFICES ASSUME Owns(q, "eligible") PROVE ~ Closed(r)' /\ Judged(r)'
      OBVIOUS
    <2>2. r # x.review
      BY <1>1, <2>1 DEF Due, Foreign
    <2>3. ~ Closed(r) /\ Judged(r)
      BY <1>1, <2>1 DEF Knows
    <2> QED BY <2>2, <2>3, DueFacts
  <1>10. /\ Closed(r)' = Closed(review[q])' /\ Entered(r)' = Entered(review[q])'
         /\ Judged(r)' = Judged(review[q])'
    BY <1>1 DEF Closed, Entered, Judged, Apart
  <1>11. tail'[q] <= Len(ledger') /\ (review'[q] # 0 => tail'[q] # 0 /\ Last(q)'.review = review'[q])
    BY <1>1, <1>2, <1>3, <1>4, <1>5, <1>6 DEF Apart
  <1>12. stage[q] \in {"opening", "open"} => tail[q] = 0 \/ Last(q)'.event \in Terminal
    <2>1. stage[q] \in {"opening", "open"} => t = 0 \/ ledger[t].event \in Terminal
      BY <1>2, <1>6 DEF Knows
    <2> QED BY <1>2, <1>5, <1>6, <2>1
  <1> QED BY <1>7, <1>8, <1>9, <1>10, <1>11, <1>12 DEF Knows, Apart

\* So does the freshness of its id.
LEMMA FreshApart ==
  ASSUME TypeOK, Origins, NEW p \in Panel, NEW x, Due(p, x), NEW q \in Panel, q # p,
         Unbegun(q) => Alive(q), Fresh(q), Apart(q)
  PROVE  Fresh(q)'
  <1>1. PICK r : r = review[q]
    OBVIOUS
  <1>2. Copies' = Copies /\ Unbegun(q)' = Unbegun(q)
    BY DEF Copies, Due, Unbegun, At, Apart
  <1>3. SUFFICES ASSUME Unbegun(q)
                 PROVE  /\ ~ Judged(r)' /\ inv[q] \notin Retained(ledger)'
                        /\ \A c \in Copies : c.inv # inv[q] /\ c.review # r
    BY <1>1, <1>2 DEF Fresh, Apart, Judged
  <1>4. r # x.review /\ (x.inv # None => x.inv # inv[q])
    BY <1>1, <1>3 DEF Due, Foreign
  <1>5. ~ Judged(r) /\ inv[q] \notin Retained(ledger) /\ \A c \in Copies : c.inv # inv[q] /\ c.review # r
    BY <1>1, <1>3 DEF Fresh
  <1> QED BY <1>4, <1>5, DueFacts

\* So does what it holds, whoever publishes.
LEMMA HoldsApart ==
  ASSUME NEW q \in Panel, Holds(q), Apart(q), \A r : Judged(r) => Judged(r)', record' = record
  PROVE  Holds(q)'
  <1>1. PICK r : r = review[q]
    OBVIOUS
  <1>2. Judged(review[q]) => Judged(review[q])'
    <2>1. Judged(r)' = Judged(review[q])'
      BY <1>1 DEF Judged, Apart
    <2> QED BY <1>1, <2>1
  <1>3. Alive(q)' = Alive(q)
    BY DEF Alive, Apart
  <1> QED BY <1>2, <1>3 DEF Holds, Apart

-----------------------------------------------------------------------------
(***************************************************************************)
(* The pending file                                                        *)
(***************************************************************************)
\* A pending record, its reason or mark apart, and a panel's copy of it
LEMMA CopyKinds ==
  /\ \A c \in Copies : c # None
  /\ record # None => record \in Copies
  /\ \A q \in Panel : cached[q] # None => cached[q] \in Copies
  BY DEF Copies

\* A verdict is found where there is one.
LEMMA VerdictFound ==
  ASSUME NEW r, Judged(r)
  PROVE  VerdictOf(ledger, r) \in Verdicts(ledger, r)
  BY DEF Judged, VerdictOf

\* Another reason changes nothing else of a record.
LEMMA AnotherReason ==
  ASSUME NEW c \in Pending, NEW w \in Reason \cup {None}, NEW d, d = [c EXCEPT !.reason = w]
  PROVE  /\ d \in Pending /\ d # None /\ c # None /\ d.reason = w
         /\ d.inv = c.inv /\ d.review = c.review /\ d.receipted = c.receipted /\ d.owner = c.owner
  <1>1. d \in Pending
    BY PendingTypes
  <1> QED BY <1>1, NoneAssumption DEF Pending

\* Nor does another mark.
LEMMA AnotherMark ==
  ASSUME NEW c \in Pending, NEW k \in Nat, NEW d, d = [c EXCEPT !.receipted = k]
  PROVE  /\ d \in Pending /\ d # None /\ c # None /\ d.receipted = k
         /\ d.inv = c.inv /\ d.review = c.review /\ d.reason = c.reason /\ d.owner = c.owner
  <1>1. d \in Pending
    BY PendingTypes
  <1> QED BY <1>1, NoneAssumption DEF Pending

\* The file takes up a new invocation.
Beginning(p) == Begin(p) /\ Begins(p, p, used)

\* Except when an invocation begins, the file keeps the invocation it has.
LEMMA FileKeepsInvocation ==
  ASSUME TypeOK, Records, NEW p \in Panel, Posture(p), Files(p), ~ Beginning(p)
  PROVE  /\ used' = used /\ cached' = [cached EXCEPT ![p] = record']
         /\ record = None => record' = None
         /\ record # None => record' # None /\ Descends(record', record)
         /\ record # None /\ record'.receipted # record.receipted => Judged(record.review)
         /\ record # None /\ record'.receipted # record.receipted =>
              \E k \in Verdicts(ledger, record.review) : record'.receipted = k
  <1> USE DEF Cache
  <1>0. record # None => record \in Pending
    BY DEF TypeOK
  <1>1. CASE Start(p) \/ RecoverChrome(p)
    <2>1. record' = Recovered(p) /\ cached' = [cached EXCEPT ![p] = record'] /\ used' = used
      BY <1>1 DEF Start, RecoverChrome
    <2>2. CASE record' = record
      BY <2>1, <2>2 DEF Descends
    <2>3. CASE record' # record
      <3>1. record # None /\ record' = [record EXCEPT !.reason = "interrupted-restart"]
        BY <2>1, <2>3 DEF Recovered
      <3>2. "interrupted-restart" \in Reason
        BY DEF Reason
      <3>3. /\ record' # None /\ record'.inv = record.inv /\ record'.review = record.review
            /\ record'.receipted = record.receipted
        BY <1>0, <3>1, <3>2, AnotherReason
      <3> QED BY <2>1, <3>1, <3>3 DEF Descends
    <2> QED BY <2>2, <2>3
  <1>2. CASE Begin(p)
    BY <1>2 DEF Begin, Beginning, Descends, shared
  <1>3. CASE Finish(p)
    <2> DEFINE r == Otherwise(bridge[p].reason, "completed")
    <2>1. CASE Finishes(p, r)
      <3>1. record # None /\ record' = [record EXCEPT !.reason = r] /\ Cache(p, record') /\ used' = used
        BY <1>3, <2>1 DEF Finish, Finishes
      <3>2. r \in Reason \cup {None}
        BY ReasonTypes DEF Otherwise, BridgeState, Reason
      <3>3. /\ record' # None /\ record'.inv = record.inv /\ record'.review = record.review
            /\ record'.receipted = record.receipted
        BY <1>0, <3>1, <3>2, AnotherReason
      <3> QED BY <3>1, <3>3 DEF Descends
    <2>2. CASE ~ Finishes(p, r)
      BY <1>3, <2>2 DEF Finish, Descends
    <2> QED BY <2>1, <2>2
  <1>4. CASE Supersede(p)
    <2>1. CASE Finishes(p, why[p])
      <3>1. record # None /\ record' = [record EXCEPT !.reason = why[p]] /\ Cache(p, record') /\ used' = used
        BY <1>4, <2>1 DEF Supersede, Finishes
      <3>2. why[p] \in Reason \cup {None}
        BY DEF TypeOK
      <3>3. /\ record' # None /\ record'.inv = record.inv /\ record'.review = record.review
            /\ record'.receipted = record.receipted
        BY <1>0, <3>1, <3>2, AnotherReason
      <3> QED BY <3>1, <3>3 DEF Descends
    <2>2. CASE ~ Finishes(p, why[p])
      BY <1>4, <2>2 DEF Supersede, Descends
    <2> QED BY <2>1, <2>2
  <1>5. CASE Mark(p)
    <2> DEFINE k == VerdictOf(ledger, cached[p].review)
    <2>1. CASE /\ record # None /\ record.inv = cached[p].inv
               /\ record' = [record EXCEPT !.receipted = k] /\ Cache(p, record')
      <3>1. cached[p] # None /\ Judged(cached[p].review)
        BY <1>5 DEF Mark, Posture
      <3>2. record.review = cached[p].review
        BY <2>1, <3>1, CopyKinds DEF Records
      <3>3. k \in Verdicts(ledger, record.review) /\ Judged(record.review)
        BY <3>1, <3>2, VerdictFound
      <3>4. /\ record' # None /\ record'.inv = record.inv /\ record'.review = record.review
            /\ record'.receipted = k
        <4>1. k \in Nat
          BY VerdictTypes DEF TypeOK
        <4> QED BY <1>0, <2>1, <4>1, AnotherMark
      <3>5. Judged(record'.review)
        BY <3>3, <3>4
      <3>6. used' = used
        BY <1>5 DEF Mark
      <3> HIDE DEF k
      <3> QED BY <2>1, <3>3, <3>4, <3>5, <3>6 DEF Descends
    <2>2. CASE Cache(p, record) /\ record' = record
      BY <1>5, <2>2 DEF Mark, Descends
    <2> QED BY <1>5, <2>1, <2>2 DEF Mark
  <1> QED BY <1>1, <1>2, <1>3, <1>4, <1>5 DEF Files

\* Copies of what a panel writes and remembers descend from copies.
LEMMA FileCopies ==
  ASSUME TypeOK, Records, NEW p \in Panel, Posture(p), Files(p), ~ Beginning(p)
  PROVE  \A c \in Copies' : \E d \in Copies : Descends(c, d)
  <1>1. /\ cached' = [cached EXCEPT ![p] = record'] /\ (record = None => record' = None)
        /\ record # None => record' # None /\ Descends(record', record)
    BY FileKeepsInvocation
  <1>2. ASSUME NEW c \in Copies' PROVE \E d \in Copies : Descends(c, d)
    <2>1. c # None /\ (c = record' \/ \E q \in Panel : c = cached[q])
      BY <1>1, <1>2 DEF Copies, TypeOK
    <2>2. CASE c = record'
      BY <1>1, <2>1, <2>2, CopyKinds
    <2>3. ASSUME NEW q \in Panel, c = cached[q] PROVE \E d \in Copies : Descends(c, d)
      BY <2>1, <2>3, CopyKinds DEF Descends
    <2> QED BY <2>1, <2>2, <2>3
  <1> QED BY <1>2

\* A panel that acts is alive, or starts with nothing in hand.
LEMMA ActsAlive ==
  ASSUME TypeOK, NEW p \in Panel, Posture(p), Publishes(p) \/ Files(p) \/ Quiet(p), Alive(p)'
  PROVE  Alive(p) \/ review[p] = 0
  <1> USE DEF At, Alive
  <1>1. CASE Publishes(p)
    BY <1>1 DEF Publishes, Repair, Opened, Dropped, Omitted, Broken, Enter, Pass, Fail, Withdraw,
                Decided
  <1>2. CASE Start(p)
    BY <1>2 DEF Start, Posture, Boot
  <1>3. CASE Finish(p) \/ Issue(p) \/ Resolve(p) \/ Timeout(p) \/ JournalFails(p)
               \/ Result(p, None, None) \/ Result(p, None, "malformed-output")
               \/ Result(p, "unavailable", None)
    BY <1>3 DEF Finish, Issue, Resolve, Timeout, JournalFails, Result, Posture, Busy
  <1>4. CASE RecoverChrome(p) \/ Begin(p) \/ Supersede(p) \/ Mark(p)
    BY <1>4 DEF RecoverChrome, Begin, Supersede, Mark
  <1>5. CASE Integrity(p)
    BY <1>5 DEF Integrity, Checked
  <1>6. CASE Initialize(p) \/ OpenReview(p) \/ FailEarly(p) \/ Decide(p) \/ Request(p)
               \/ Answered(p) \/ Conclude(p) \/ Retired(p)
               \/ \E i \in Invocation : Prepare(p, i)
    BY <1>6 DEF Initialize, OpenReview, FailEarly, Decide, Prepare, Request, Answered, Conclude,
                Retired
  <1>7. CASE Crash(p) \/ CustodyFails(p)
    BY <1>7 DEF Crash, CustodyFails, Goto, Halt, Checked, TypeOK
  <1>8. CASE Cancel(p) \/ (\E how \in {"closed", "moved"} : Disconnect(p, how)) \/ Drift(p)
               \/ Expire(p)
    BY <1>8 DEF Cancel, Disconnect, Drift, Expire, Bound
  <1> QED BY <1>1, <1>2, <1>3, <1>4, <1>5, <1>6, <1>7, <1>8 DEF Files, Quiet

\* A publication that the ledger's rules refuse changes no store either.
Refused(p) ==
  Publishes(p) /\ UNCHANGED <<ledger, record, used, cached, review>>

\* A step that is neither a publication nor a beginning keeps what is shared.
LEMMA QuietShared ==
  ASSUME Inductive, NEW p \in Panel, Quiet(p) \/ Refused(p)
  PROVE  /\ Origins' /\ Settled' /\ Alone' /\ Records' /\ OneArtifact' /\ NothingForgotten'
         /\ \A c \in Copies' : \E d \in Copies : Descends(c, d)
  <1> USE DEF Inductive
  <1>1. ledger' = ledger /\ record' = record /\ used' = used
    BY QuietKeeps DEF Refused
  <1>2. Origins' /\ Settled' /\ OneArtifact'
    BY <1>1, SameLedger
  <1>3. NothingForgotten'
    BY <1>1, SameLedger DEF NothingForgotten
  <1>4. review'[p] \in {review[p], 0} /\ cached'[p] \in {cached[p], None}
    <2>1. CASE Crash(p)
      BY <2>1 DEF Crash, Cache, TypeOK
    <2>2. CASE Refused(p)
      BY <2>2 DEF Refused
    <2>3. CASE Quiet(p) /\ ~ Crash(p)
      <3>1. review' = review /\ cached' = cached
        BY <2>3 DEF Quiet, Integrity, Initialize, OpenReview, FailEarly, Decide, Prepare, Request,
             Answered, Conclude, Retired, Retire, Issue, Resolve, Timeout, Result, Cancel,
             JournalFails, CustodyFails, Disconnect, Drift, Expire, memory
      <3> QED BY <3>1
    <2> QED BY <2>1, <2>2, <2>3
  <1>5. \A q \in Panel : q # p => Apart(q)
    BY OthersApart DEF Refused
  <1>6. \A q \in Panel : review'[q] \in {review[q], 0} /\ (Alive(q)' /\ review'[q] # 0 => Alive(q))
    <2>1. Alive(p)' /\ review'[p] # 0 => Alive(p)
      BY <1>4, ActsAlive DEF Refused
    <2> QED BY <1>4, <1>5, <2>1 DEF Apart, Alive
  <1>7. Alone'
    BY <1>1, <1>6, KeepAlone
  <1>8. \A c \in Copies' : c \in Copies
    BY <1>1, <1>4, <1>5 DEF Copies, Apart
  <1>9. \A c \in Copies' : \E d \in Copies : Descends(c, d)
    BY <1>8 DEF Descends
  <1>10. Records'
    BY <1>1, <1>9, KeepRecords
  <1> QED BY <1>2, <1>3, <1>7, <1>9, <1>10

\* A panel's last receipt is in the ledger.
LEMMA LastPlace ==
  ASSUME TypeOK, NEW p \in Panel, Knows(p), review[p] # 0
  PROVE  /\ tail[p] \in DOMAIN ledger /\ Last(p).review = review[p] /\ review[p] \in Nat
         /\ \A e : Owns(p, e) => e \in Events(ledger, review[p])
  <1>1. tail[p] \in Nat /\ review[p] \in Nat /\ Len(ledger) \in Nat /\ DOMAIN ledger = 1 .. Len(ledger)
    BY Places DEF TypeOK
  <1>2. tail[p] \in DOMAIN ledger /\ Last(p).review = review[p]
    BY <1>1 DEF Knows
  <1> QED BY <1>1, <1>2 DEF Owns, Last, Events

\* The invocation that begins is new to the file, to the ledger and to every
\* panel.
LEMMA BeginsShared ==
  ASSUME Inductive, NEW p \in Panel, Beginning(p)
  PROVE  /\ Records' /\ NothingForgotten'
         /\ record' \in Pending /\ record'.inv = inv[p] /\ record'.review = review[p]
         /\ record'.owner = p /\ record'.reason = None
         /\ cached' = [cached EXCEPT ![p] = record']
         /\ Copies' \subseteq Copies \cup {record'}
         /\ record = None \/ record.receipted # 0
         /\ inv[p] \notin used
  <1> USE DEF Inductive
  <1>1. /\ At(p, "asked") /\ bridge[p].phase = "preparing" /\ ledger' = ledger
        /\ used' = used \cup {inv[p]} /\ record' = [inv |-> inv[p], owner |-> p, review |-> review[p],
                                                     reason |-> None, receipted |-> 0]
        /\ cached' = [cached EXCEPT ![p] = record']
    BY DEF Beginning, Begin, Begins, Cache
  <1>2. Alive(p) /\ Unbegun(p) /\ stage[p] \in Amid
    BY <1>1 DEF Alive, Unbegun, At, Amid
  <1>3. inv[p] \in Invocation /\ review[p] \in Nat /\ review[p] # 0
    BY <1>2 DEF Posture, Amid, TypeOK
  <1>4. record' \in Pending /\ record' # None
    <2>1. record' \in Pending
      BY <1>1, <1>3 DEF Pending
    <2> QED BY <2>1, NoneAssumption
  <1>5. Entered(review[p])
    <2>1. Knows(p) /\ Owns(p, "chrome-semantic-review")
      BY <1>2 DEF Knows
    <2> QED BY <1>3, <2>1, LastPlace DEF Entered
  <1>6. /\ ~ Judged(review[p]) /\ inv[p] \notin Retained(ledger)
        /\ \A c \in Copies : c.inv # inv[p] /\ c.review # review[p]
    BY <1>2 DEF Fresh
  <1>7. (record = None \/ record.receipted # 0) /\ inv[p] \notin used
    <2>1. CASE record = None /\ inv[p] \notin used
      BY <2>1
    <2>2. CASE record.receipted # 0 /\ inv[p] \notin used
      BY <2>2
    <2>3. CASE ~ ((record # None => record.receipted # 0) /\ inv[p] \notin used)
      <3>1. cached' = [cached EXCEPT ![p] = record] /\ record' = record
        BY <2>3 DEF Beginning, Begin, Cache, shared
      <3>2. record \in Copies
        BY <1>4, <3>1, CopyKinds
      <3> QED BY <1>1, <1>6, <3>1, <3>2
    <2> QED BY <2>1, <2>2, <2>3
  <1>8. Copies' \subseteq Copies \cup {record'}
    BY <1>1 DEF Copies, TypeOK
  <1>9. ASSUME NEW c \in Copies' PROVE Backed(c)'
    <2>1. CASE c = record'
      <3>1. c.inv = inv[p] /\ c.review = review[p] /\ c.receipted = 0
        BY <1>1, <2>1
      <3>2. PICK r, i : r = review[p] /\ i = inv[p]
        OBVIOUS
      <3>3. Entered(r)' /\ ~ Judged(r)' /\ i \notin Retained(ledger)' /\ i \in used'
        BY <1>1, <1>5, <1>6, <3>2, SameLedger
      <3> QED BY <3>1, <3>2, <3>3 DEF Backed, Judged
    <2>2. CASE c \in Copies
      <3>1. Backed(c)
        BY <2>2 DEF Records
      <3> QED BY <1>1, <3>1, SameLedger DEF Backed
    <2> QED BY <1>8, <1>9, <2>1, <2>2
  <1>10. ASSUME NEW c \in Copies', NEW d \in Copies' PROVE c.inv = d.inv <=> c.review = d.review
    <2>1. record'.inv = inv[p] /\ record'.review = review[p]
      BY <1>1
    <2> QED BY <1>6, <1>8, <1>10, <2>1 DEF Records
  <1>11. Records'
    BY <1>4, <1>9, <1>10 DEF Records
  <1>12. NothingForgotten'
    <2>1. Retained(ledger)' = Retained(ledger) /\ Issued(ledger)' = Issued(ledger)
      BY <1>1, SameLedger
    <2>2. used \ Issued(ledger) = {}
      BY <1>7 DEF NothingForgotten, Records
    <2>3. record'.receipted = 0 /\ record'.inv = inv[p]
      BY <1>1
    <2>4. Issued(ledger) \subseteq used' /\ used' \cap Retained(ledger) \subseteq Issued(ledger)
      BY <1>1, <1>6 DEF NothingForgotten
    <2>5. used' \ Issued(ledger) # {} => used' \ Issued(ledger) = {inv[p]}
      BY <1>1, <2>2
    <2> QED BY <2>1, <2>3, <2>4, <2>5 DEF NothingForgotten
  <1> QED BY <1>1, <1>4, <1>7, <1>8, <1>11, <1>12

\* Nor does any other write of the file lose an id.
LEMMA FilesShared ==
  ASSUME Inductive, NEW p \in Panel, Files(p)
  PROVE  Origins' /\ Settled' /\ Alone' /\ Records' /\ OneArtifact' /\ NothingForgotten'
  <1> USE DEF Inductive
  <1>1. ledger' = ledger /\ review' = review
    BY FilesKeep
  <1>2. Origins' /\ Settled' /\ OneArtifact'
    BY <1>1, SameLedger
  <1>3. \A q \in Panel : Alive(q)' /\ review'[q] # 0 => Alive(q)
    <2>1. \A q \in Panel : q # p => Alive(q)' = Alive(q)
      BY OthersApart DEF Apart, Alive
    <2> QED BY <1>1, <2>1, ActsAlive
  <1>4. Alone'
    BY <1>1, <1>3, KeepAlone
  <1>5. CASE Beginning(p)
    BY <1>2, <1>4, <1>5, BeginsShared
  <1>6. CASE ~ Beginning(p)
    <2>1. Records'
      <3>1. used' = used /\ (record' = None => record = None)
        BY <1>6, FileKeepsInvocation
      <3> QED BY <1>1, <1>6, <3>1, FileCopies, KeepRecords
    <2>2. NothingForgotten'
      <3>1. Retained(ledger)' = Retained(ledger) /\ Issued(ledger)' = Issued(ledger) /\ used' = used
        BY <1>1, <1>6, SameLedger, FileKeepsInvocation
      <3>2. SUFFICES ASSUME used \ Issued(ledger) # {}
                     PROVE  record'.receipted = 0 /\ record'.inv = record.inv
        BY <3>1 DEF NothingForgotten
      <3>3. record.receipted = 0 /\ used \ Issued(ledger) = {record.inv} /\ record # None
        BY <3>2 DEF NothingForgotten, Records
      <3>4. record'.inv = record.inv
        BY <1>6, <3>3, FileKeepsInvocation DEF Descends
      <3>5. record'.receipted = 0
        <4>1. SUFFICES ASSUME record'.receipted # 0 PROVE FALSE
          OBVIOUS
        <4>2. PICK k \in Verdicts(ledger, record.review) : record'.receipted = k
          BY <1>6, <3>3, <4>1, FileKeepsInvocation
        <4>3. ledger[k].inv = record.inv /\ ledger[k].why # "incomplete-input" /\ k \in DOMAIN ledger
              /\ ledger[k].inv # None
          BY <3>3, <4>2, CopyKinds DEF Records, Backed, Verdicts
        <4>4. record.inv \in Issued(ledger)
          BY <4>3 DEF Issued
        <4> QED BY <3>3, <4>4
      <3> QED BY <3>4, <3>5
    <2> QED BY <1>2, <1>4, <2>1, <2>2
  <1> QED BY <1>5, <1>6

-----------------------------------------------------------------------------
(***************************************************************************)
(* One request at a time                                                   *)
(***************************************************************************)
\* A living panel's review that has not ended is the live one.
LEMMA OwnLive ==
  ASSUME Inductive, NEW p \in Panel, Alive(p), review[p] # 0, ~ Closed(review[p])
  PROVE  /\ Live(review[p]) /\ review[p] \in DOMAIN ledger
         /\ ledger[review[p]].review = review[p] /\ review[p] \in Nat
  <1> USE DEF Inductive
  <1>1. tail[p] \in DOMAIN ledger /\ ledger[tail[p]].review = review[p] /\ review[p] \in Nat
    BY LastPlace DEF Last
  <1>2. review[p] \in DOMAIN ledger /\ ledger[review[p]].review = review[p]
    BY <1>1, OriginPlace
  <1> QED BY <1>1, <1>2 DEF Live

\* So is the review of a request that has not begun.
LEMMA UnbegunLive ==
  ASSUME Inductive, NEW p \in Panel, Unbegun(p)
  PROVE  /\ Alive(p) /\ review[p] # 0 /\ ~ Closed(review[p]) /\ Live(review[p])
         /\ inv[p] \in Invocation
  <1> USE DEF Inductive
  <1>1. Alive(p) /\ (stage[p] \in Pre \/ stage[p] \in Amid) /\ inv[p] \in Invocation
    <2>1. stage[p] \in {"omitting", "omit", "entering", "enter", "entered", "asked"}
      BY DEF Unbegun, At
    <2>2. inv[p] # None
      BY <2>1 DEF Posture, Amid
    <2> QED BY <2>1, <2>2 DEF Alive, Pre, Amid, TypeOK
  <1>2. review[p] # 0 /\ ~ Closed(review[p])
    <2>1. CASE stage[p] \in Pre
      BY <1>1, <2>1 DEF Knows, Owns
    <2>2. CASE stage[p] \in Amid
      <3>1. Knows(p) /\ Owns(p, "chrome-semantic-review") /\ review[p] # 0
        BY <1>1, <2>2 DEF Knows, Owns
      <3>2. Entered(review[p]) /\ review[p] \in Nat
        BY <3>1, LastPlace DEF Entered
      <3>3. ~ Judged(review[p])
        BY DEF Fresh
      <3> QED BY <3>1, <3>2, <3>3 DEF Settled
    <2> QED BY <1>1, <2>1, <2>2
  <1> QED BY <1>1, <1>2, OwnLive

\* Two panels never have one each.
LEMMA OneUnbegun ==
  ASSUME Inductive, NEW p \in Panel, NEW q \in Panel, Unbegun(p),
         Alive(q), review[q] # 0, ~ Closed(review[q])
  PROVE  p = q
  <1>1. Live(review[p]) /\ Live(review[q]) /\ review[p] # 0
    BY UnbegunLive, OwnLive
  <1>2. review[p] \in Nat /\ review[q] \in Nat
    BY DEF Inductive, TypeOK
  <1>3. review[p] = review[q]
    BY <1>1, <1>2 DEF Inductive, Alone
  <1> QED BY <1>1, <1>3 DEF Inductive, Alone

\* A step of one panel that leaves the ledger alone leaves what is true of
\* another.
LEMMA StillOthers ==
  ASSUME Inductive, NEW p \in Panel, NEW q \in Panel, q # p,
         Files(p) \/ Quiet(p) \/ Refused(p)
  PROVE  Posture(q)' /\ (Alive(q)' => Knows(q)') /\ Fresh(q)' /\ Holds(q)'
  <1> USE DEF Inductive
  <1>1. Apart(q) /\ ledger' = ledger
    BY OthersApart, QuietKeeps, FilesKeep DEF Refused
  <1>2. \A r : Judged(r) => Judged(r)'
    BY <1>1, SameLedger
  <1>3. Posture(q)'
    BY <1>1, <1>2, PostureApart
  <1>4. Alive(q)' = Alive(q) /\ Unbegun(q)' = Unbegun(q)
    BY <1>1 DEF Apart, Alive, Unbegun, At
  <1>5. Alive(q)' => Knows(q)'
    <2>1. SUFFICES ASSUME Alive(q) PROVE Knows(q)'
      BY <1>4
    <2>2. /\ stage'[q] = stage[q] /\ tail'[q] = tail[q] /\ review'[q] = review[q]
          /\ granted'[q] = granted[q]
      BY <1>1 DEF Apart
    <2>3. /\ stage[q] \in Pre => Owns(q, "opened")
          /\ stage[q] \in Amid => Owns(q, "chrome-semantic-review")
          /\ stage[q] \in {"withdrawing", "withdraw", "deciding", "decide"} \/ granted[q] =>
               Owns(q, "eligible")
          /\ stage[q] \in {"opening", "open"} => tail[q] = 0 \/ Last(q).event \in Terminal
      BY <2>1 DEF Knows
    <2> QED BY <1>1, <2>1, <2>2, <2>3, KeepKnows
  <1>6. Fresh(q)'
    <2>1. CASE ~ Beginning(p)
      <3>1. \A c \in Copies' : \E d \in Copies : Descends(c, d)
        BY <2>1, FileCopies, QuietShared
      <3>2. inv'[q] = inv[q] /\ review'[q] = review[q]
        BY <1>1 DEF Apart
      <3> QED BY <1>1, <1>4, <3>1, <3>2, KeepFresh
    <2>2. CASE Beginning(p)
      <3>1. Unbegun(p)
        BY <2>2 DEF Beginning, Begin, Unbegun
      <3>2. ~ Unbegun(q)
        BY <3>1, OneUnbegun, UnbegunLive
      <3> QED BY <1>4, <3>2 DEF Fresh
    <2> QED BY <2>1, <2>2
  <1>7. Holds(q)'
    <2>1. PICK r : r = review[q]
      OBVIOUS
    <2>2. Judged(review[q])' = Judged(review[q])
      <3>1. Judged(r)' = Judged(r)
        BY <1>1, SameLedger
      <3>2. Judged(r)' = Judged(review[q])'
        BY <1>1, <2>1 DEF Judged, Apart
      <3> QED BY <2>1, <3>1, <3>2
    <2>3. SUFFICES ASSUME Alive(q), bridge[q].phase \in Begun, cached[q].reason # None, record = cached[q],
                          record' # record, cached[q] # None, cached[q].review = review[q],
                          cached[q].owner = q
                   PROVE  Judged(review[q])
      BY <1>1, <1>4, <2>2 DEF Holds, Apart
    <2>4. Files(p)
      BY <2>3, QuietKeeps DEF Refused
    <2>5. CASE Start(p) \/ RecoverChrome(p)
      BY <2>3, <2>5 DEF Start, RecoverChrome, Recovered
    <2>6. CASE Begin(p)
      <3>1. Beginning(p)
        BY <2>3, <2>6 DEF Begin, Beginning, shared
      <3>2. record.receipted # 0 /\ record \in Copies
        BY <2>3, <3>1, BeginsShared, CopyKinds
      <3> QED BY <2>3, <3>2 DEF Records, Backed
    <2>7. CASE Finish(p) \/ Supersede(p)
      <3>1. record.owner = p
        BY <2>3, <2>7 DEF Finish, Supersede, Finishes
      <3> QED BY <2>3, <3>1
    <2>8. CASE Mark(p)
      <3>1. cached[p] # None /\ Judged(cached[p].review) /\ record.inv = cached[p].inv
        BY <2>3, <2>8 DEF Mark, Posture
      <3>2. record.review = cached[p].review
        BY <2>3, <3>1, CopyKinds DEF Records
      <3> QED BY <2>3, <3>1, <3>2
    <2> QED BY <2>4, <2>5, <2>6, <2>7, <2>8 DEF Files
  <1> QED BY <1>3, <1>5, <1>6, <1>7

\* So does a publication.
LEMMA DueOthers ==
  ASSUME Inductive, NEW p \in Panel, NEW q \in Panel, q # p, Publishes(p), NEW x, Due(p, x)
  PROVE  Posture(q)' /\ (Alive(q)' => Knows(q)') /\ Fresh(q)' /\ Holds(q)'
  <1> USE DEF Inductive
  <1>1. Apart(q) /\ record' = record
    BY OthersApart DEF Due
  <1>2. \A r : Judged(r) => Judged(r)'
    BY DueFacts
  <1>3. Alive(q)' = Alive(q)
    BY <1>1 DEF Apart, Alive
  <1>4. Unbegun(q) => Alive(q)
    BY UnbegunLive
  <1> QED BY <1>1, <1>2, <1>3, <1>4, PostureApart, KnowsApart, FreshApart, HoldsApart

-----------------------------------------------------------------------------
(***************************************************************************)
(* What a publication does for the panel that publishes                    *)
(***************************************************************************)
\* A receipt is refused, and the panel halts, or it is appended; then the
\* panel goes on if its view was current.
LEMMA PublishOut ==
  ASSUME TypeOK, NEW p \in Panel, NEW r \in Nat, NEW e \in Event,
         NEW i \in Invocation \cup {None}, NEW w \in Reason \cup {None}, NEW next \in Stage,
         Publish(p, r, e, i, w, next)
  PROVE  \/ ledger' = ledger /\ stage'[p] = "halted"
         \/ \E x \in Receipt :
              /\ x = [review |-> r, event |-> e, inv |-> i, why |-> w]
              /\ Accepts(r, e, i, w) /\ ledger' = Append(ledger, x)
              /\ tail'[p] = Len(ledger) + 1
              /\ \/ stage'[p] = "halted"
                 \/ stage'[p] = next /\ tail[p] = Len(ledger)
  <1> DEFINE x == [review |-> r, event |-> e, inv |-> i, why |-> w]
  <1>1. x \in Receipt
    BY DEF Receipt
  <1>2. stage \in [Panel -> Stage] /\ tail \in [Panel -> Nat]
    BY DEF TypeOK
  <1>3. CASE Accepts(r, e, i, w)
    <2>1. /\ ledger' = Append(ledger, x)
          /\ tail' = [tail EXCEPT ![p] = Len(ledger) + 1]
          /\ stage' = [stage EXCEPT ![p] = IF tail[p] = Len(ledger) THEN next ELSE "halted"]
      BY <1>3 DEF Publish, Goto
    <2> HIDE DEF x
    <2>2. tail'[p] = Len(ledger) + 1
      BY <1>2, <2>1
    <2>3. stage'[p] = IF tail[p] = Len(ledger) THEN next ELSE "halted"
      BY <1>2, <2>1
    <2>4. x = [review |-> r, event |-> e, inv |-> i, why |-> w]
      BY DEF x
    <2> QED BY <1>1, <1>3, <2>1, <2>2, <2>3, <2>4
  <1>4. CASE ~ Accepts(r, e, i, w)
    BY <1>2, <1>4 DEF Publish, Halt, Goto
  <1> QED BY <1>3, <1>4

\* A halted panel has no more to keep.
LEMMA HaltedOwn ==
  ASSUME NEW p \in Panel, stage'[p] = "halted", bridge'[p].phase \notin Busy
  PROVE  Posture(p)' /\ ~ Alive(p)' /\ Fresh(p)' /\ Holds(p)'
  <1>1. ~ Alive(p)' /\ ~ Unbegun(p)'
    BY DEF Alive, Unbegun, At
  <1>2. stage'[p] \notin Boot \cup Resting \cup Pre \cup Amid /\ stage'[p] \notin Verdict
    BY DEF Boot, Resting, Pre, Amid, Verdict
  <1>3. Posture(p)'
    BY <1>1, <1>2 DEF Posture, Amid, Verdict
  <1> QED BY <1>1, <1>3 DEF Fresh, Holds

\* A review that is about to be opened has no receipt yet.
LEMMA NewReview ==
  ASSUME TypeOK, Origins, NEW n, n = Len(ledger) + 1
  PROVE  ~ Entered(n) /\ ~ Closed(n) /\ ~ Judged(n)
  <1>1. n \notin DOMAIN ledger
    BY Places DEF TypeOK
  <1>2. \A k \in DOMAIN ledger : ledger[k].review # n
    BY <1>1, OriginPlace
  <1> QED BY <1>2 DEF Entered, Closed, Judged, Events, Verdicts

\* What the panel knows after its receipt
LEMMA KnowsAfter ==
  ASSUME TypeOK, Origins, NEW p \in Panel, NEW x, Due(p, x), tail'[p] = Len(ledger) + 1,
         review'[p] = 0 \/ review'[p] = x.review, ~ granted'[p],
         stage'[p] \in Pre => review'[p] # 0 /\ x.event = "opened",
         stage'[p] \in Amid => review'[p] # 0 /\ x.event = "chrome-semantic-review",
         stage'[p] \notin {"withdrawing", "withdraw", "deciding", "decide", "opening", "open"},
         x.event = "eligible" => x.inv # None
  PROVE  Knows(p)'
  <1>1. /\ Len(ledger') = Len(ledger) + 1 /\ Len(ledger) \in Nat /\ ledger'[Len(ledger) + 1] = x
        /\ x \in Receipt
    BY AppendPlaces, Places DEF Due, TypeOK
  <1>2. Last(p)' = x
    BY <1>1 DEF Last
  <1>3. tail'[p] <= Len(ledger') /\ tail'[p] # 0 /\ (review'[p] # 0 => Last(p)'.review = review'[p])
    BY <1>1, <1>2
  <1>4. \A e : Owns(p, e)' <=> review'[p] # 0 /\ x.event = e
    BY <1>2 DEF Owns
  <1>5. PICK r : r = x.review
    OBVIOUS
  <1>6. x.event = "opened" => ~ Closed(r)' /\ ~ Entered(r)' /\ ~ Judged(r)'
    <2>1. SUFFICES ASSUME x.event = "opened" PROVE ~ Closed(r)' /\ ~ Entered(r)' /\ ~ Judged(r)'
      OBVIOUS
    <2>2. x.review = Len(ledger) + 1 /\ x.inv = None
      BY <2>1 DEF Due, Opening, Further
    <2> QED BY <1>5, <2>1, <2>2, NewReview, DueFacts DEF Terminal
  <1>7. x.event = "eligible" => ~ Closed(r)' /\ Judged(r)'
    <2>1. SUFFICES ASSUME x.event = "eligible" PROVE ~ Closed(r)' /\ Judged(r)'
      OBVIOUS
    <2>2. ~ Closed(r)
      BY <1>5, <2>1 DEF Due, Opening, Further, Live
    <2> QED BY <1>5, <2>1, <2>2, DueFacts DEF Terminal
  <1>8. review'[p] # 0 => /\ Closed(review[p])' = Closed(r)' /\ Entered(review[p])' = Entered(r)'
                          /\ Judged(review[p])' = Judged(r)'
    BY <1>5 DEF Closed, Entered, Judged
  <1>9. /\ Owns(p, "opened")' => ~ Closed(review[p])' /\ ~ Entered(review[p])' /\ ~ Judged(review[p])'
        /\ Owns(p, "eligible")' => ~ Closed(review[p])' /\ Judged(review[p])'
    BY <1>4, <1>6, <1>7, <1>8
  <1> QED BY <1>3, <1>4, <1>9 DEF Knows

\* A living panel's receipt about its own review is foreign to no other panel.
LEMMA ForeignOwn ==
  ASSUME Inductive, NEW p \in Panel, Alive(p), review[p] # 0, NEW x, x.review = review[p],
         x.inv # None => (\E c \in Copies : c.inv = x.inv) \/ ~ Closed(review[p])
  PROVE  Foreign(p, x)
  <1>1. ASSUME NEW q \in Panel, q # p PROVE review[q] # x.review
    BY <1>1 DEF Inductive, Alone
  <1>2. ASSUME NEW q \in Panel, q # p, Unbegun(q), x.inv # None PROVE x.inv # inv[q]
    <2>1. PICK c \in Copies : c.inv = x.inv
      BY <1>2, OneUnbegun
    <2> QED BY <1>2, <2>1 DEF Inductive, Fresh
  <1> QED BY <1>1, <1>2 DEF Foreign

\* A receipt without an artifact, about a review that has not ended, is due
\* unless it would end an entered review.
LEMMA PlainDue ==
  ASSUME Inductive, NEW p \in Panel, Alive(p), review[p] # 0, ~ Closed(review[p]),
         NEW x \in Receipt, ledger' = Append(ledger, x), x.review = review[p], x.inv = None,
         x.event # "opened", x.event \in Terminal => Judged(review[p]) \/ ~ Entered(review[p]),
         UNCHANGED <<record, used, cached, review>>
  PROVE  Due(p, x)
  <1>1. Live(x.review) /\ ledger[x.review].review = x.review
    BY OwnLive
  <1>2. Foreign(p, x)
    BY ForeignOwn
  <1>3. Further(p, x)
    BY <1>1 DEF Further
  <1> QED BY <1>2, <1>3 DEF Due

\* What a publication leaves behind: the ledger's receipt is due or refused,
\* and the panel that published is in good order.
Done(p) ==
  /\ Refused(p) \/ \E x : Due(p, x)
  /\ Posture(p)' /\ (Alive(p)' => Knows(p)') /\ Fresh(p)' /\ Holds(p)'

\* The opening of a review
LEMMA OpenedDone ==
  ASSUME Inductive, NEW p \in Panel, Opened(p)
  PROVE  Done(p)
  <1> USE DEF Inductive
  <1>1. /\ At(p, "open") /\ Publish(p, Len(ledger) + 1, "opened", None, None, "ready")
        /\ review' = [review EXCEPT ![p] = Len(ledger) + 1]
        /\ UNCHANGED <<record, used, inv, why, granted, bridge, cached, gone, trouble>>
    BY DEF Opened
  <1>2. Len(ledger) + 1 \in Nat /\ DOMAIN ledger = 1 .. Len(ledger) /\ Len(ledger) \in Nat
    BY Places DEF TypeOK
  <1>3. Accepts(Len(ledger) + 1, "opened", None, None)
    BY NewReview DEF Accepts, Judged, Entered
  <1>4. PICK x \in Receipt :
          /\ x = [review |-> Len(ledger) + 1, event |-> "opened", inv |-> None, why |-> None]
          /\ ledger' = Append(ledger, x) /\ tail'[p] = Len(ledger) + 1
          /\ \/ stage'[p] = "halted"
             \/ stage'[p] = "ready" /\ tail[p] = Len(ledger)
    <2>1. "opened" \in Event /\ "ready" \in Stage
      BY DEF Event, Stage
    <2>2. /\ ledger' = Append(ledger, [review |-> Len(ledger) + 1, event |-> "opened",
                                       inv |-> None, why |-> None])
          /\ tail' = [tail EXCEPT ![p] = Len(ledger) + 1]
          /\ stage' = [stage EXCEPT ![p] = IF tail[p] = Len(ledger) THEN "ready" ELSE "halted"]
      BY <1>1, <1>3 DEF Publish, Goto
    <2>3. [review |-> Len(ledger) + 1, event |-> "opened", inv |-> None, why |-> None] \in Receipt
      BY <1>2, <2>1 DEF Receipt
    <2> QED BY <2>2, <2>3 DEF TypeOK
  <1>5. Alive(p) /\ stage[p] \in Resting /\ ~ granted[p] /\ inv[p] = None /\ bridge[p].phase \notin Begun
        /\ bridge[p].phase \notin Busy
    <2>1. Alive(p) /\ stage[p] \in Resting /\ ~ granted[p] /\ inv[p] = None
      BY <1>1 DEF At, Alive, Resting, Posture
    <2>2. bridge[p].phase \notin Busy /\ bridge[p].phase # "resolved"
      BY <1>1, <2>1 DEF At, Posture, Verdict
    <2> QED BY <2>1, <2>2 DEF Begun, Busy
  <1>6. Foreign(p, x)
    <2>1. ASSUME NEW q \in Panel PROVE review[q] # x.review
      BY <1>2, <1>4 DEF Alone, TypeOK
    <2> QED BY <1>4, <2>1 DEF Foreign
  <1>7. stage'[p] = "halted" \/ \A r \in Nat : ~ Live(r)
    <2>1. SUFFICES ASSUME tail[p] = Len(ledger), NEW r \in Nat, Live(r) PROVE FALSE
      BY <1>4
    <2>2. Knows(p) /\ (tail[p] = 0 \/ Last(p).event \in Terminal)
      BY <1>1, <1>5 DEF Knows, At
    <2>3. r \in DOMAIN ledger /\ ~ Closed(r) /\ \A k \in DOMAIN ledger : k > r => ledger[k].event \notin Terminal
      BY <2>1 DEF Live, Alone
    <2>4. tail[p] \in DOMAIN ledger /\ ledger[tail[p]].event \in Terminal
      BY <1>2, <2>1, <2>2, <2>3 DEF Last
    <2>5. tail[p] = r
      <3>1. ~ (Len(ledger) > r)
        BY <2>1, <2>3, <2>4
      <3>2. r <= Len(ledger)
        BY <1>2, <2>3
      <3>3. Len(ledger) \in Nat /\ r \in Nat
        BY <1>2
      <3>4. Len(ledger) = r
        BY <3>1, <3>2, <3>3
      <3> QED BY <2>1, <3>4
    <2>6. ledger[r].review = r
      <3>1. CASE Entered(r)
        BY <3>1, EnteredPlace
      <3>2. ASSUME NEW q \in Panel, Alive(q), review[q] = r PROVE ledger[r].review = r
        <4>1. review[q] # 0
          BY <1>2, <2>3, <3>2
        <4> QED BY <2>3, <3>2, <4>1, OwnLive
      <3> QED BY <2>1, <3>1, <3>2 DEF Live
    <2>7. ledger[r].event \in Events(ledger, r)
      BY <2>3, <2>6 DEF Events
    <2> QED BY <2>3, <2>4, <2>5, <2>7 DEF Closed
  <1>8. Due(p, x)
    BY <1>1, <1>4, <1>6, <1>7 DEF Due, Opening
  <1>9. CASE stage'[p] = "halted"
    BY <1>1, <1>5, <1>8, <1>9, HaltedOwn DEF Done
  <1>10. CASE stage'[p] = "ready"
    <2>1. review'[p] = Len(ledger) + 1 /\ review'[p] # 0 /\ review'[p] = x.review /\ ~ granted'[p]
      BY <1>1, <1>2, <1>4, <1>5 DEF TypeOK
    <2>2. Knows(p)'
      BY <1>4, <1>8, <1>10, <2>1, KnowsAfter DEF Amid, Verdict
    <2>3. Posture(p)'
      <3>1. inv'[p] = None /\ bridge'[p].phase \notin Busy /\ bridge'[p].phase # "resolved"
        BY <1>1, <1>5 DEF Begun
      <3> QED BY <1>10, <2>1, <3>1 DEF Posture, Boot, Amid, Verdict
    <2>4. ~ Unbegun(p)' /\ Holds(p)'
      BY <1>1, <1>5, <1>10 DEF Unbegun, At, Holds
    <2> QED BY <1>8, <2>2, <2>3, <2>4 DEF Done, Fresh
  <1> QED BY <1>4, <1>9, <1>10

\* A refused publication halts the panel and changes nothing else.
LEMMA RefusedDone ==
  ASSUME Inductive, NEW p \in Panel, Publishes(p), stage'[p] = "halted",
         UNCHANGED <<ledger, record, used, cached, review, bridge>>, ~ At(p, "asked")
  PROVE  Done(p)
  <1>1. bridge'[p].phase \notin Busy
    BY DEF Inductive, Posture
  <1> QED BY <1>1, HaltedOwn DEF Done, Refused

\* A publication after which the panel has stopped
LEMMA StoppedDone ==
  ASSUME Inductive, NEW p \in Panel, NEW x, Due(p, x), stage'[p] = "halted", bridge' = bridge,
         ~ At(p, "asked")
  PROVE  Done(p)
  <1>1. bridge'[p].phase \notin Busy
    BY DEF Inductive, Posture
  <1> QED BY <1>1, HaltedOwn DEF Done

\* The steps that end a review before the Chrome stage, enter that stage, or
\* follow the artifact
LEMMA PlainDone ==
  ASSUME Inductive, NEW p \in Panel,
         Dropped(p) \/ Broken(p) \/ Enter(p) \/ Withdraw(p) \/ Decided(p)
  PROVE  Done(p)
  <1> USE DEF Inductive
  <1>1. PICK e \in {"review-failed", "custody-broken", "chrome-semantic-review", "rejected", "decided"},
             next \in {"idle", "halted", "entered", "retire"} :
          /\ Publish(p, review[p], e, None, None, next)
          /\ UNCHANGED <<record, used, review, inv, why, granted, bridge, cached, gone, trouble>>
          /\ \/ At(p, "drop") /\ e = "review-failed" /\ next = "idle"
             \/ At(p, "break") /\ e = "custody-broken" /\ next = "halted"
             \/ At(p, "enter") /\ e = "chrome-semantic-review" /\ next = "entered"
             \/ At(p, "withdraw") /\ e = "rejected" /\ next = "retire"
             \/ At(p, "decide") /\ e = "decided" /\ next = "idle"
    BY DEF Dropped, Broken, Enter, Withdraw, Decided
  <1>2. stage[p] \in {"drop", "break", "enter", "withdraw", "decide"} /\ Publishes(p)
    BY <1>1 DEF At, Publishes
  <1>3. Alive(p) /\ ~ granted[p] /\ Knows(p) /\ ~ At(p, "asked")
    <2>1. Alive(p) /\ ~ At(p, "idle") /\ ~ At(p, "asked")
      BY <1>2 DEF At, Alive
    <2> QED BY <2>1 DEF Posture
  <1>4. /\ review[p] # 0 /\ review[p] \in Nat /\ ~ Closed(review[p])
        /\ stage[p] \in {"drop", "break", "enter"} => ~ Entered(review[p]) /\ ~ Judged(review[p])
        /\ stage[p] \in {"withdraw", "decide"} => Judged(review[p])
    <2>1. CASE stage[p] \in {"drop", "break", "enter"}
      <3>1. Owns(p, "opened")
        BY <1>3, <2>1 DEF Knows, Pre
      <3> QED BY <1>3, <2>1, <3>1 DEF Knows, Owns, TypeOK
    <2>2. CASE stage[p] \in {"withdraw", "decide"}
      <3>1. Owns(p, "eligible")
        BY <1>3, <2>2 DEF Knows
      <3> QED BY <1>3, <2>2, <3>1 DEF Knows, Owns, TypeOK
    <2> QED BY <1>2, <2>1, <2>2
  <1>5. e \in Event /\ next \in Stage
    BY DEF Event, Terminal, Stage
  <1>6. CASE ledger' = ledger /\ stage'[p] = "halted"
    BY <1>1, <1>2, <1>3, <1>6, RefusedDone
  <1>7. ASSUME NEW x \in Receipt,
               x = [review |-> review[p], event |-> e, inv |-> None, why |-> None],
               ledger' = Append(ledger, x), tail'[p] = Len(ledger) + 1,
               stage'[p] = "halted" \/ stage'[p] = next
        PROVE  Done(p)
    <2>1. /\ x.review = review[p] /\ x.event = e /\ x.inv = None /\ e # "opened"
          /\ e \in Terminal => Judged(review[p]) \/ ~ Entered(review[p])
      BY <1>1, <1>4, <1>7 DEF Terminal, At
    <2>2. Due(p, x)
      BY <1>1, <1>3, <1>4, <1>7, <2>1, PlainDue
    <2>3. CASE stage'[p] = "halted"
      BY <1>1, <1>3, <2>2, <2>3, StoppedDone
    <2>4. CASE stage'[p] = next /\ next # "halted"
      <3>1. ~ granted'[p] /\ review'[p] = x.review /\ review'[p] # 0
        BY <1>1, <1>3, <1>4, <2>1
      <3>2. stage'[p] \in {"idle", "entered", "retire"} /\ (stage'[p] = "entered" <=> At(p, "enter"))
            /\ (stage'[p] = "retire" <=> At(p, "withdraw"))
        BY <1>1, <2>4 DEF At
      <3>3. Knows(p)'
        BY <1>1, <1>7, <2>1, <2>2, <2>4, <3>1, <3>2, KnowsAfter DEF Pre, Amid, Verdict
      <3>4. inv'[p] = inv[p] /\ bridge'[p] = bridge[p] /\ cached'[p] = cached[p]
        BY <1>1
      <3>5. /\ stage'[p] = "idle" => inv[p] = None
            /\ stage'[p] \in {"entered", "retire"} => inv[p] # None
            /\ bridge[p].phase \notin Busy
            /\ bridge[p].phase = "resolved" => stage'[p] = "retire"
        <4>1. stage'[p] = "idle" => inv[p] = None
          BY <1>1, <2>4 DEF Posture, Resting, At
        <4>2. stage'[p] \in {"entered", "retire"} => inv[p] # None
          BY <3>2 DEF Posture, Amid, At
        <4>3. bridge[p].phase \notin Busy
          BY <1>3 DEF Posture
        <4>4. bridge[p].phase = "resolved" => stage'[p] = "retire"
          BY <1>2, <1>3, <3>2 DEF Posture, Verdict, At
        <4> QED BY <4>1, <4>2, <4>3, <4>4
      <3>6. Posture(p)'
        BY <3>1, <3>2, <3>4, <3>5 DEF Posture, Boot, Resting, Amid, Verdict
      <3>7. Fresh(p)'
        <4>1. SUFFICES ASSUME stage'[p] = "entered" PROVE Fresh(p)'
          BY <3>2 DEF Fresh, Unbegun, At
        <4>2. Unbegun(p)
          BY <3>2, <4>1 DEF Unbegun, At
        <4>3. ~ Judged(review[p]) /\ inv[p] \notin Retained(ledger)
              /\ \A c \in Copies : c.inv # inv[p] /\ c.review # review[p]
          BY <4>2 DEF Fresh
        <4>4. Copies' = Copies
          BY <1>1 DEF Copies
        <4>5. Retained(ledger)' = Retained(ledger)
          BY <2>1, <2>2, DueFacts
        <4>6. Verdicts(ledger, review[p])' = Verdicts(ledger, review[p])
          <5>1. PICK r : r = review[p]
            OBVIOUS
          <5>2. Verdicts(ledger, r)' = Verdicts(ledger, r)
            BY <2>1, <2>2, DueFacts
          <5> QED BY <1>1, <5>1, <5>2
        <4> QED BY <1>1, <4>3, <4>4, <4>5, <4>6 DEF Fresh, Judged
      <3>8. Holds(p)'
        <4>1. CASE bridge[p].phase \notin Begun
          BY <3>4, <4>1 DEF Holds
        <4>2. CASE bridge[p].phase \in Begun
          <5>1. Holds(p) /\ record' = record
            BY <1>1
          <5>2. Judged(review[p]) => Judged(review[p])'
            <6>1. PICK r : r = review[p]
              OBVIOUS
            <6>2. Judged(r) => Judged(r)'
              BY <2>2, DueFacts
            <6>3. Judged(r)' = Judged(review[p])'
              BY <1>1, <6>1 DEF Judged
            <6> QED BY <6>1, <6>2, <6>3
          <5> QED BY <1>1, <1>3, <4>2, <5>1, <5>2 DEF Holds
        <4> QED BY <4>1, <4>2
      <3> QED BY <2>2, <3>3, <3>6, <3>7, <3>8 DEF Done
    <2> QED BY <1>7, <2>3, <2>4
  <1>8. \/ ledger' = ledger /\ stage'[p] = "halted"
        \/ \E x \in Receipt :
             /\ x = [review |-> review[p], event |-> e, inv |-> None, why |-> None]
             /\ ledger' = Append(ledger, x) /\ tail'[p] = Len(ledger) + 1
             /\ stage'[p] = "halted" \/ stage'[p] = next
    <2>1. PICK r \in Nat : r = review[p]
      BY <1>4
    <2>2. Publish(p, r, e, None, None, next)
      BY <1>1, <2>1
    <2>3. \/ ledger' = ledger /\ stage'[p] = "halted"
          \/ \E x \in Receipt :
               /\ x = [review |-> r, event |-> e, inv |-> None, why |-> None]
               /\ Accepts(r, e, None, None) /\ ledger' = Append(ledger, x)
               /\ tail'[p] = Len(ledger) + 1
               /\ \/ stage'[p] = "halted"
                  \/ stage'[p] = next /\ tail[p] = Len(ledger)
      BY <1>5, <2>2, PublishOut
    <2> QED BY <2>1, <2>3
  <1> QED BY <1>6, <1>7, <1>8

\* An artifact that the ledger's rules accept for an entered review, from a
\* copy of its pending record, is due.
LEMMA ArtifactDue ==
  ASSUME Inductive, NEW p \in Panel, NEW c \in Copies, NEW x \in Receipt,
         x.review = c.review, x.inv = c.inv, x.event \in {"eligible", "review-failed"},
         x.why # "incomplete-input", Entered(x.review), ~ Judged(x.review),
         ledger' = Append(ledger, x), UNCHANGED <<record, used, cached, review>>
  PROVE  Due(p, x)
  <1> USE DEF Inductive
  <1>1. Backed(c) /\ c # None /\ \A d \in Copies : d.inv = x.inv <=> d.review = x.review
    BY CopyKinds DEF Records
  <1>2. x.inv \in used /\ x.inv \notin Retained(ledger)
    BY <1>1 DEF Backed
  <1>3. x.review \in DOMAIN ledger /\ ledger[x.review].review = x.review /\ x.review \in Nat
    BY EnteredPlace, Places DEF TypeOK
  <1>4. Live(x.review)
    BY <1>3 DEF Live, Settled
  <1>5. Further(p, x)
    <2>1. c \in Pending
      BY DEF Copies, TypeOK
    <2>2. x.inv # None
      BY <2>1, ConstantsAssumption DEF Pending
    <2> QED BY <1>1, <1>2, <1>3, <1>4, <2>2 DEF Further
  <1>6. Foreign(p, x)
    <2>1. ASSUME NEW q \in Panel, Alive(q), Owns(q, "opened") \/ Owns(q, "eligible") \/ Unbegun(q)
          PROVE  review[q] # x.review
      <3>1. CASE Owns(q, "opened") \/ Owns(q, "eligible")
        BY <2>1, <3>1 DEF Knows
      <3>2. CASE Unbegun(q)
        BY <3>2 DEF Fresh
      <3> QED BY <2>1, <3>1, <3>2
    <2>2. ASSUME NEW q \in Panel, Unbegun(q) PROVE x.inv # inv[q]
      BY <2>2 DEF Fresh
    <2> QED BY <2>1, <2>2 DEF Foreign
  <1> QED BY <1>5, <1>6 DEF Due

\* After an artifact the panel goes on to mark the file.
LEMMA MarksNext ==
  ASSUME Inductive, NEW p \in Panel, Alive(p), NEW x, Due(p, x), x.inv # None,
         cached[p] # None, cached[p].review = x.review,
         review[p] = 0 \/ review[p] = x.review,
         stage[p] \in {"repair", "pass", "fail"}, tail'[p] = Len(ledger) + 1,
         stage'[p] = "published",
         UNCHANGED <<review, inv, granted, bridge, cached, record>>
  PROVE  Done(p)
  <1> USE DEF Inductive
  <1>1. ~ granted'[p] /\ bridge'[p].phase \notin Busy
    BY DEF Posture, At
  <1>2. Knows(p)'
    BY <1>1, KnowsAfter DEF Pre, Amid, Verdict
  <1>3. Judged(cached[p].review)' /\ (review[p] # 0 => Judged(review[p])')
    <2>1. PICK r : r = x.review
      OBVIOUS
    <2>2. Judged(r)'
      BY <2>1, DueFacts
    <2> QED BY <2>1, <2>2 DEF Judged
  <1>4. Posture(p)'
    BY <1>1, <1>3 DEF Posture, Boot, Resting, Amid, Verdict, Alive
  <1>5. ~ Unbegun(p)'
    BY DEF Unbegun, At
  <1>6. Holds(p)'
    <2>1. SUFFICES ASSUME bridge[p].phase \in Begun PROVE Holds(p)'
      BY DEF Holds
    <2>2. /\ inv[p] # None /\ cached[p] # None /\ cached[p].inv = inv[p]
          /\ cached[p].review = review[p] /\ cached[p].owner = p
      BY <2>1 DEF Holds
    <2>3. review[p] # 0
      BY <2>2 DEF Posture
    <2>4. Judged(review[p])'
      BY <1>3, <2>3
    <2> QED BY <2>2, <2>4 DEF Holds
  <1> QED BY <1>2, <1>4, <1>5, <1>6 DEF Done, Fresh

\* The artifact of an interrupted invocation
LEMMA RepairDone ==
  ASSUME Inductive, NEW p \in Panel, Repair(p)
  PROVE  Done(p)
  <1> USE DEF Inductive
  <1>1. At(p, "repair") /\ Alive(p) /\ review[p] = 0 /\ cached[p] # None /\ cached[p] \in Pending
        /\ ~ At(p, "asked") /\ Publishes(p)
    BY DEF Repair, At, Alive, Posture, Boot, TypeOK, Publishes
  <1>2. PICK c \in Copies : c = cached[p]
    BY <1>1, CopyKinds
  <1>3. /\ Publish(p, c.review, "review-failed", c.inv, "terminal-receipt-interrupted", "published")
        /\ UNCHANGED <<record, used, review, inv, why, granted, bridge, cached, gone, trouble>>
    BY <1>2 DEF Repair
  <1>4. /\ c.review \in Nat /\ c.inv \in Invocation /\ c.inv # None
        /\ "review-failed" \in Event /\ "terminal-receipt-interrupted" \in Reason /\ "published" \in Stage
    BY <1>1, <1>2, ConstantsAssumption DEF Pending, Event, Terminal, Reason, Stage
  <1>5. CASE ledger' = ledger /\ stage'[p] = "halted"
    BY <1>1, <1>3, <1>5, RefusedDone
  <1>6. ASSUME NEW x \in Receipt,
               x = [review |-> c.review, event |-> "review-failed", inv |-> c.inv,
                    why |-> "terminal-receipt-interrupted"],
               Accepts(c.review, "review-failed", c.inv, "terminal-receipt-interrupted"),
               ledger' = Append(ledger, x), tail'[p] = Len(ledger) + 1,
               stage'[p] = "halted" \/ stage'[p] = "published"
        PROVE  Done(p)
    <2>1. /\ x.review = c.review /\ x.inv = c.inv /\ x.event = "review-failed"
          /\ x.why = "terminal-receipt-interrupted"
      BY <1>6
    <2>2. Entered(x.review) /\ ~ Judged(x.review)
      BY <1>4, <1>6, <2>1 DEF Accepts, Entered, Judged
    <2>3. Due(p, x)
      BY <1>3, <1>6, <2>1, <2>2, ArtifactDue
    <2>4. CASE stage'[p] = "halted"
      BY <1>1, <1>3, <2>3, <2>4, StoppedDone
    <2>5. CASE stage'[p] = "published"
      BY <1>1, <1>2, <1>3, <1>4, <1>6, <2>1, <2>3, <2>5, MarksNext DEF At
    <2> QED BY <1>6, <2>4, <2>5
  <1>7. \/ ledger' = ledger /\ stage'[p] = "halted"
        \/ \E x \in Receipt :
             /\ x = [review |-> c.review, event |-> "review-failed", inv |-> c.inv,
                     why |-> "terminal-receipt-interrupted"]
             /\ Accepts(c.review, "review-failed", c.inv, "terminal-receipt-interrupted")
             /\ ledger' = Append(ledger, x) /\ tail'[p] = Len(ledger) + 1
             /\ \/ stage'[p] = "halted"
                \/ stage'[p] = "published" /\ tail[p] = Len(ledger)
    BY <1>3, <1>4, PublishOut
  <1> QED BY <1>5, <1>6, <1>7

\* The artifact of a live review, eligible or failed
LEMMA VerdictDone ==
  ASSUME Inductive, NEW p \in Panel,
         NEW e \in {"eligible", "review-failed"}, NEW w \in Reason \cup {None},
         At(p, "pass") \/ At(p, "fail"), Publishes(p),
         Publish(p, review[p], e, inv[p], w, "published"),
         UNCHANGED <<record, used, review, inv, granted, bridge, cached>>
  PROVE  Done(p)
  <1> USE DEF Inductive
  <1>1. /\ Alive(p) /\ stage[p] \in {"pass", "fail"} /\ stage[p] \in Amid /\ ~ At(p, "asked")
        /\ bridge[p].phase = "resolved" /\ Knows(p)
    <2>1. Alive(p) /\ stage[p] \in {"pass", "fail"} /\ stage[p] \in Amid /\ ~ At(p, "asked") /\ stage[p] \in Verdict
      BY DEF At, Alive, Amid, Verdict
    <2> QED BY <2>1 DEF Posture
  <1>2. PICK c \in Copies : c = cached[p] /\ c.review = review[p] /\ c.inv = inv[p] /\ inv[p] # None
    <2>1. cached[p] # None /\ cached[p].review = review[p] /\ cached[p].inv = inv[p] /\ inv[p] # None
      BY <1>1 DEF Holds, Begun
    <2> QED BY <2>1, CopyKinds
  <1>3. Publish(p, c.review, e, c.inv, w, "published")
    BY <1>2
  <1>4. c.review \in Nat /\ c.inv \in Invocation \cup {None} /\ e \in Event /\ "published" \in Stage
    BY <1>2 DEF TypeOK, Event, Terminal, Stage
  <1>5. Entered(c.review) /\ review[p] # 0
    <2>1. Owns(p, "chrome-semantic-review")
      BY <1>1 DEF Knows
    <2> QED BY <1>1, <1>2, <2>1, LastPlace DEF Entered, Owns
  <1>6. CASE ledger' = ledger /\ stage'[p] = "halted"
    BY <1>1, <1>6, RefusedDone
  <1>7. ASSUME NEW x \in Receipt,
               x = [review |-> c.review, event |-> e, inv |-> c.inv, why |-> w],
               Accepts(c.review, e, c.inv, w),
               ledger' = Append(ledger, x), tail'[p] = Len(ledger) + 1,
               stage'[p] = "halted" \/ stage'[p] = "published"
        PROVE  Done(p)
    <2>1. x.review = c.review /\ x.inv = c.inv /\ x.event = e /\ x.why = w
      BY <1>7
    <2>2. ~ Judged(x.review) /\ x.why # "incomplete-input"
      BY <1>2, <1>5, <1>7, <2>1 DEF Accepts, Entered, Judged
    <2>3. Due(p, x)
      BY <1>5, <1>7, <2>1, <2>2, ArtifactDue
    <2>4. CASE stage'[p] = "halted"
      BY <1>1, <2>3, <2>4, StoppedDone
    <2>5. CASE stage'[p] = "published"
      BY <1>1, <1>2, <1>7, <2>1, <2>3, <2>5, MarksNext, CopyKinds
    <2> QED BY <1>7, <2>4, <2>5
  <1>8. \/ ledger' = ledger /\ stage'[p] = "halted"
        \/ \E x \in Receipt :
             /\ x = [review |-> c.review, event |-> e, inv |-> c.inv, why |-> w]
             /\ Accepts(c.review, e, c.inv, w) /\ ledger' = Append(ledger, x)
             /\ tail'[p] = Len(ledger) + 1
             /\ \/ stage'[p] = "halted"
                \/ stage'[p] = "published" /\ tail[p] = Len(ledger)
    BY <1>3, <1>4, PublishOut
  <1> QED BY <1>6, <1>7, <1>8

\* An incomplete request, recorded with an id the file never had
LEMMA OmittedDone ==
  ASSUME Inductive, NEW p \in Panel, Omitted(p)
  PROVE  Done(p)
  <1> USE DEF Inductive
  <1>1. At(p, "omit") /\ ~ At(p, "asked") /\ Publishes(p) /\ Unbegun(p)
    BY DEF Omitted, At, Publishes, Unbegun
  <1>2. Alive(p) /\ review[p] # 0 /\ ~ Closed(review[p]) /\ inv[p] \in Invocation
    BY <1>1, UnbegunLive
  <1>3. /\ Knows(p) /\ ~ granted[p] /\ bridge[p].phase \notin Busy /\ bridge[p].phase \notin Begun
        /\ Owns(p, "opened")
    <2>1. ~ granted[p] /\ bridge[p].phase \notin Busy /\ bridge[p].phase # "resolved"
      BY <1>1, <1>2 DEF Posture, At, Verdict
    <2> QED BY <1>1, <1>2, <2>1 DEF Busy, Begun, Knows, At, Pre
  <1>4. PICK r \in Nat, i \in Invocation : r = review[p] /\ i = inv[p] /\ i # None
    BY <1>2, ConstantsAssumption DEF TypeOK
  <1>5. /\ Publish(p, r, "review-failed", i, "incomplete-input", "idle")
        /\ inv' = [inv EXCEPT ![p] = None]
        /\ UNCHANGED <<record, used, review, why, granted, bridge, cached, gone, trouble>>
    BY <1>4 DEF Omitted
  <1>6. /\ i \in Invocation \cup {None} /\ "review-failed" \in Event
        /\ "incomplete-input" \in Reason \cup {None} /\ "idle" \in Stage
    BY DEF Event, Terminal, Reason, Stage
  <1>7. CASE ledger' = ledger /\ stage'[p] = "halted"
    BY <1>1, <1>5, <1>7, RefusedDone
  <1>8. ASSUME NEW x \in Receipt,
               x = [review |-> r, event |-> "review-failed", inv |-> i, why |-> "incomplete-input"],
               ledger' = Append(ledger, x), tail'[p] = Len(ledger) + 1,
               stage'[p] = "halted" \/ stage'[p] = "idle"
        PROVE  Done(p)
    <2>1. /\ x.review = review[p] /\ x.inv = inv[p] /\ x.event = "review-failed"
          /\ x.why = "incomplete-input" /\ x.inv # None
      BY <1>4, <1>8
    <2>2. /\ ~ Judged(x.review) /\ x.inv \notin Retained(ledger)
          /\ \A c \in Copies : c.inv # x.inv /\ c.review # x.review
      BY <1>1, <2>1 DEF Fresh
    <2>3. x.inv \notin used \ Issued(ledger)
      <3>1. SUFFICES ASSUME x.inv \in used \ Issued(ledger) PROVE FALSE
        OBVIOUS
      <3>2. record # None /\ x.inv = record.inv
        BY <3>1 DEF NothingForgotten, Records
      <3> QED BY <2>2, <3>2, CopyKinds
    <2>4. Further(p, x)
      BY <1>2, <1>5, <2>1, <2>2, <2>3, OwnLive DEF Further
    <2>5. Foreign(p, x)
      BY <1>2, <2>1, ForeignOwn
    <2>6. Due(p, x)
      BY <1>5, <1>8, <2>4, <2>5 DEF Due
    <2>7. CASE stage'[p] = "halted"
      BY <1>1, <1>5, <2>6, <2>7, StoppedDone
    <2>8. CASE stage'[p] = "idle"
      <3>1. inv'[p] = None /\ ~ granted'[p] /\ review'[p] = x.review /\ bridge'[p] = bridge[p]
        BY <1>3, <1>5, <2>1 DEF TypeOK
      <3>2. Knows(p)'
        BY <1>8, <2>1, <2>6, <2>8, <3>1, KnowsAfter DEF Pre, Amid, Verdict
      <3>3. Posture(p)'
        <4>1. bridge[p].phase # "resolved"
          BY <1>3 DEF Begun
        <4> QED BY <1>3, <2>8, <3>1, <4>1 DEF Posture, Boot, Amid, Verdict
      <3>4. ~ Unbegun(p)' /\ Holds(p)'
        BY <1>3, <2>8, <3>1 DEF Unbegun, At, Holds
      <3> QED BY <2>6, <3>2, <3>3, <3>4 DEF Done, Fresh
    <2> QED BY <1>8, <2>7, <2>8
  <1>9. \/ ledger' = ledger /\ stage'[p] = "halted"
        \/ \E x \in Receipt :
             /\ x = [review |-> r, event |-> "review-failed", inv |-> i, why |-> "incomplete-input"]
             /\ Accepts(r, "review-failed", i, "incomplete-input")
             /\ ledger' = Append(ledger, x) /\ tail'[p] = Len(ledger) + 1
             /\ \/ stage'[p] = "halted"
                \/ stage'[p] = "idle" /\ tail[p] = Len(ledger)
    BY <1>5, <1>6, PublishOut
  <1> QED BY <1>7, <1>8, <1>9

\* Every publication leaves the ledger and the panel in good order; what the
\* guard withholds from the ledger counts with the steps that write nothing.
LEMMA PublicationDone ==
  ASSUME Inductive, NEW p \in Panel, Publishes(p)
  PROVE  Done(p)
  <1> USE DEF Inductive
  <1>1. CASE Pass(p)
    <2>1. At(p, "pass") /\ UNCHANGED <<record, used, review, inv, granted, bridge, cached, gone, trouble>>
      BY <1>1 DEF Pass
    <2>2. CASE Publish(p, review[p], "eligible", inv[p], "completed", "published")
      BY <2>1, <2>2, VerdictDone DEF Reason
    <2>3. CASE Withhold(p, LiveReason(p)) /\ UNCHANGED <<ledger, tail>> /\ LiveReason(p) # None
      <3>1. stage'[p] \in {"superseding", "failing"} /\ why'[p] # None
        BY <2>3 DEF Withhold, Goto, TypeOK
      <3>2. /\ review' = review /\ inv' = inv /\ granted' = granted /\ bridge' = bridge
            /\ cached' = cached /\ ledger' = ledger /\ tail' = tail /\ record' = record
        BY <2>1, <2>3
      <3>3. /\ Alive(p) /\ Knows(p) /\ Owns(p, "chrome-semantic-review") /\ inv[p] # None
            /\ review[p] # 0 /\ ~ granted[p] /\ bridge[p].phase = "resolved"
        <4>1. Alive(p) /\ stage[p] = "pass" /\ stage[p] \in Amid /\ stage[p] \in Verdict
          BY <2>1 DEF At, Alive, Amid, Verdict
        <4> QED BY <4>1 DEF Posture, Knows, Owns, At
      <3>4. Knows(p)'
        BY <3>1, <3>2, <3>3, KeepKnows DEF Pre
      <3>5. Posture(p)'
        BY <3>1, <3>2, <3>3 DEF Posture, Boot, Resting, Amid, Verdict, Busy
      <3>6. ~ Unbegun(p)'
        BY <3>1 DEF Unbegun, At
      <3>7. Holds(p)'
        <4>1. Judged(review[p])' = Judged(review[p])
          BY <3>2 DEF Judged
        <4> QED BY <3>2, <3>3, <4>1 DEF Holds
      <3>8. Refused(p)
        BY <2>1, <3>2 DEF Refused
      <3> QED BY <3>4, <3>5, <3>6, <3>7, <3>8 DEF Done, Fresh
    <2> QED BY <1>1, <2>2, <2>3 DEF Pass
  <1>2. CASE Fail(p)
    <2>1. /\ At(p, "fail") /\ Publish(p, review[p], "review-failed", inv[p], why[p], "published")
          /\ UNCHANGED <<record, used, review, inv, why, granted, bridge, cached, gone, trouble>>
      BY <1>2 DEF Fail
    <2>2. PICK w \in Reason \cup {None} : w = why[p]
      BY DEF TypeOK
    <2> QED BY <2>1, <2>2, VerdictDone
  <1> QED BY <1>1, <1>2, OpenedDone, PlainDone, RepairDone, OmittedDone DEF Publishes

-----------------------------------------------------------------------------
(***************************************************************************)
(* What the other steps do for the panel that takes them                   *)
(***************************************************************************)
Orderly(p) ==
  Posture(p) /\ (Alive(p) => Knows(p)) /\ Fresh(p) /\ Holds(p)

\* What a panel holds stays true with its record, its bridge at most changed.
LEMMA HoldsStill ==
  ASSUME NEW p \in Panel, Holds(p), ledger' = ledger, record' = record, review'[p] = review[p],
         Alive(p)' /\ bridge'[p].phase \in Begun =>
           /\ Alive(p) /\ bridge[p].phase \in Begun
           /\ inv'[p] = inv[p] /\ cached'[p] = cached[p]
  PROVE  Holds(p)'
  <1>1. Judged(review[p])' = Judged(review[p])
    BY DEF Judged
  <1> QED BY <1>1 DEF Holds

\* A panel's copy of what it has just written is its own record.
LEMMA HoldsWritten ==
  ASSUME Inductive, NEW p \in Panel, Files(p), ~ Beginning(p), Alive(p), bridge[p].phase \in Begun,
         record # None, record.inv = cached[p].inv, record.owner = cached[p].owner,
         record' # None, record'.inv = record.inv, record'.owner = record.owner,
         record'.review = record.review, cached'[p] = record'
  PROVE  Holds(p)'
  <1> USE DEF Inductive
  <1>1. /\ inv[p] # None /\ cached[p] # None /\ cached[p].inv = inv[p]
        /\ cached[p].review = review[p] /\ cached[p].owner = p
    BY DEF Holds
  <1>2. record.review = cached[p].review
    BY <1>1, CopyKinds DEF Records
  <1>3. inv' = inv /\ review' = review
    BY FilesKeep
  <1> QED BY <1>1, <1>2, <1>3 DEF Holds

\* The panel that writes the pending file is in good order afterwards.
LEMMA FilesOrderly ==
  ASSUME Inductive, NEW p \in Panel, Files(p)
  PROVE  Orderly(p)'
  <1> USE DEF Inductive, At, Goto, Halt
  <1>0. /\ ledger' = ledger /\ tail' = tail /\ review' = review /\ inv' = inv
        /\ why' = why /\ granted' = granted
    BY FilesKeep
  <1>00. \A r : Judged(r)' = Judged(r)
    BY <1>0, SameLedger
  <1>1. CASE Start(p)
    <2>1. /\ stage[p] = "off" /\ stage'[p] = "on" /\ bridge' = bridge
      BY <1>1 DEF Start, TypeOK
    <2>2. /\ review[p] = 0 /\ inv[p] = None /\ ~ granted[p] /\ bridge[p].phase = "none" /\ tail[p] = 0
      BY <2>1 DEF Posture, Boot
    <2>3. Posture(p)'
      BY <1>0, <2>1, <2>2 DEF Posture, Boot, Resting, Amid, Verdict, Busy
    <2>4. Knows(p)'
      <3>1. 0 <= Len(ledger)
        BY Places DEF TypeOK
      <3>2. ~ Owns(p, "opened")' /\ ~ Owns(p, "eligible")'
        BY <1>0, <2>2 DEF Owns
      <3> QED BY <1>0, <2>1, <2>2, <3>1, <3>2 DEF Knows, Pre, Amid, Verdict
    <2>5. ~ Unbegun(p)' /\ Holds(p)'
      BY <2>1, <2>2 DEF Unbegun, Holds, Begun
    <2> QED BY <2>3, <2>4, <2>5 DEF Orderly, Fresh
  <1>2. CASE RecoverChrome(p)
    <2> DEFINE chain == SubSeq(ledger, 1, tail[p])
               c == Recovered(p)
    <2>1. /\ stage[p] = "read" /\ stage'[p] = RecoveryStage(chain, c) /\ bridge' = bridge
          /\ cached'[p] = c /\ Alive(p)
      BY <1>2 DEF RecoverChrome, Cache, TypeOK, Alive
    <2>2. /\ review[p] = 0 /\ inv[p] = None /\ ~ granted[p] /\ bridge[p].phase = "none" /\ Knows(p)
      BY <2>1 DEF Posture, Boot
    <2>3. stage'[p] \in {"halted", "idle", "remark", "repairing"}
      BY <2>1 DEF RecoveryStage
    <2>4. stage'[p] \in {"repairing", "remark"} => c # None
      BY <2>1 DEF RecoveryStage
    <2>5. stage'[p] = "remark" => Judged(c.review)
      <3>1. SUFFICES ASSUME stage'[p] = "remark" PROVE Judged(c.review)
        OBVIOUS
      <3>2. VerdictOf(chain, c.review) # 0
        BY <2>1, <3>1 DEF RecoveryStage
      <3>3. PICK k : k \in Verdicts(chain, c.review)
        BY <3>2 DEF VerdictOf
      <3>4. tail[p] \in Nat /\ tail[p] <= Len(ledger) /\ ledger \in Seq(Receipt) /\ Len(ledger) \in Nat
        BY <2>2, Places DEF Knows, TypeOK
      <3>5. DOMAIN chain = 1 .. tail[p] /\ \A j \in 1 .. tail[p] : chain[j] = ledger[j]
        BY <3>4
      <3>6. DOMAIN ledger = 1 .. Len(ledger)
        BY Places DEF TypeOK
      <3>7. k \in DOMAIN ledger /\ chain[k] = ledger[k] /\ chain[k].review = c.review /\ chain[k].inv # None
        BY <3>3, <3>4, <3>5, <3>6 DEF Verdicts
      <3> QED BY <3>7 DEF Judged, Verdicts
    <2> HIDE DEF c, chain
    <2>6. Posture(p)'
      <3>1. stage'[p] = "remark" => Judged(cached[p].review)'
        <4>1. PICK r : r = c.review
          OBVIOUS
        <4>2. Judged(r)' = Judged(cached[p].review)'
          BY <2>1, <4>1 DEF Judged
        <4> QED BY <1>00, <2>5, <4>1, <4>2
      <3> QED BY <1>0, <2>1, <2>2, <2>3, <2>4, <3>1 DEF Posture, Boot, Resting, Amid, Verdict, Busy
    <2>7. Knows(p)'
      BY <1>0, <2>2, <2>3, KeepKnows DEF Pre, Amid, Verdict
    <2>8. ~ Unbegun(p)' /\ Holds(p)'
      BY <2>1, <2>2, <2>3 DEF Unbegun, Holds, Begun
    <2> QED BY <2>6, <2>7, <2>8 DEF Orderly, Fresh
  <1>3. CASE Begin(p)
    <2>1. /\ stage[p] = "asked" /\ bridge[p].phase = "preparing" /\ Alive(p) /\ Knows(p)
          /\ inv[p] # None /\ Owns(p, "chrome-semantic-review") /\ ~ granted[p] /\ review[p] # 0
      BY <1>3 DEF Begin, Alive, Posture, Knows, Amid, Owns
    <2>2. CASE Beginning(p)
      <3>1. /\ stage'[p] = "asked" /\ bridge'[p].phase = "begun" /\ cached'[p] = record'
            /\ record' \in Pending /\ record'.inv = inv[p] /\ record'.review = review[p]
            /\ record'.owner = p /\ record'.reason = None
        <4>1. stage'[p] = "asked" /\ bridge'[p].phase = "begun"
          BY <2>1, <2>2, ReasonTypes DEF Beginning, Begins, Bridge, TypeOK, BridgeState
        <4> QED BY <2>2, <4>1, BeginsShared DEF TypeOK
      <3>2. Posture(p)'
        BY <1>0, <2>1, <3>1 DEF Posture, Boot, Resting, Amid, Verdict, Busy
      <3>3. Knows(p)'
        BY <1>0, <2>1, <3>1, KeepKnows DEF Pre, Amid
      <3>4. ~ Unbegun(p)'
        BY <3>1 DEF Unbegun
      <3>5. Holds(p)'
        BY <1>0, <2>1, <3>1, NoneAssumption DEF Holds
      <3> QED BY <3>2, <3>3, <3>4, <3>5 DEF Orderly, Fresh
    <2>3. CASE ~ Beginning(p)
      <3>1. stage'[p] = "answered" /\ bridge'[p].phase = "none"
        BY <1>3, <2>3 DEF Begin, Beginning, Reject, Bridge, NoBridge, TypeOK
      <3>2. Posture(p)'
        BY <1>0, <2>1, <3>1 DEF Posture, Boot, Resting, Amid, Verdict, Busy
      <3>3. Knows(p)'
        BY <1>0, <2>1, <3>1, KeepKnows DEF Pre, Amid
      <3>4. ~ Unbegun(p)' /\ Holds(p)'
        BY <3>1 DEF Unbegun, Holds, Begun
      <3> QED BY <3>2, <3>3, <3>4 DEF Orderly, Fresh
    <2> QED BY <2>2, <2>3
  <1>4. CASE Finish(p)
    <2> DEFINE r == Otherwise(bridge[p].reason, "completed")
    <2>1. bridge[p].phase = "settling" /\ stage[p] = "asked"
      BY <1>4 DEF Finish, Posture, Busy
    <2>2. /\ Alive(p) /\ Knows(p) /\ inv[p] # None /\ Owns(p, "chrome-semantic-review")
          /\ ~ granted[p] /\ review[p] # 0 /\ bridge[p].phase \in Begun
      BY <2>1 DEF Alive, Posture, Knows, Amid, Owns, Begun
    <2>3. CASE Finishes(p, r)
      <3>1. /\ stage'[p] = "asked" /\ bridge'[p].phase = "finished" /\ record # None
            /\ cached'[p] = record' /\ record' = [record EXCEPT !.reason = r]
            /\ record.inv = inv[p] /\ record.owner = p
        <4>1. /\ Bridge(p, [bridge[p] EXCEPT !.phase = "finished"]) /\ stage' = stage
              /\ record' = [record EXCEPT !.reason = r] /\ Cache(p, record')
          BY <1>4, <2>3 DEF Finish
        <4>2. record # None /\ record.inv = inv[p] /\ record.owner = p
          BY <2>3 DEF Finishes
        <4> HIDE DEF r
        <4>3. bridge'[p].phase = "finished"
          BY <4>1, ReasonTypes DEF Bridge, TypeOK, BridgeState
        <4>4. cached'[p] = record'
          BY <4>1 DEF Cache, TypeOK
        <4> QED BY <2>1, <4>1, <4>2, <4>3, <4>4
      <3>2. r \in Reason \cup {None} /\ record \in Pending
        BY <3>1, ReasonTypes DEF Otherwise, BridgeState, Reason, TypeOK
      <3>3. /\ record' # None /\ record'.inv = record.inv /\ record'.review = record.review
            /\ record'.owner = record.owner
        BY <3>1, <3>2, AnotherReason
      <3>4. Posture(p)'
        BY <1>0, <2>2, <3>1 DEF Posture, Boot, Resting, Amid, Verdict, Busy
      <3>5. Knows(p)'
        BY <1>0, <2>2, <3>1, KeepKnows DEF Pre, Amid
      <3>6. ~ Unbegun(p)'
        BY <3>1 DEF Unbegun
      <3>7. Holds(p)'
        <4>1. ~ Beginning(p)
          BY <2>1 DEF Beginning, Begin
        <4>2. cached[p].inv = inv[p] /\ cached[p].owner = p
          BY <2>2 DEF Holds
        <4> QED BY <2>2, <3>1, <3>3, <4>1, <4>2, HoldsWritten
      <3> QED BY <3>4, <3>5, <3>6, <3>7 DEF Orderly, Fresh
    <2>4. CASE ~ Finishes(p, r)
      <3>1. stage'[p] = "answered" /\ bridge'[p].phase = "none"
        BY <1>4, <2>4 DEF Finish, Reject, Bridge, NoBridge, TypeOK
      <3>2. Posture(p)'
        BY <1>0, <2>2, <3>1 DEF Posture, Boot, Resting, Amid, Verdict, Busy
      <3>3. Knows(p)'
        BY <1>0, <2>2, <3>1, KeepKnows DEF Pre, Amid
      <3>4. ~ Unbegun(p)' /\ Holds(p)'
        BY <3>1 DEF Unbegun, Holds, Begun
      <3> QED BY <3>2, <3>3, <3>4 DEF Orderly, Fresh
    <2> QED BY <2>3, <2>4
  <1>5. CASE Supersede(p)
    <2>1. stage[p] = "superseding" /\ bridge' = bridge
      BY <1>5 DEF Supersede
    <2>2. /\ Alive(p) /\ Knows(p) /\ inv[p] # None /\ Owns(p, "chrome-semantic-review")
          /\ ~ granted[p] /\ review[p] # 0 /\ bridge[p].phase = "resolved" /\ why[p] # None
      BY <2>1 DEF Alive, Posture, Knows, Amid, Verdict, Owns
    <2>3. CASE Finishes(p, why[p])
      <3>1. /\ stage'[p] = "failing" /\ record # None
            /\ cached'[p] = record' /\ record' = [record EXCEPT !.reason = why[p]]
            /\ record.inv = inv[p] /\ record.owner = p
        BY <1>5, <2>3 DEF Supersede, Finishes, Cache, TypeOK
      <3>2. why[p] \in Reason \cup {None} /\ record \in Pending
        BY <3>1 DEF TypeOK
      <3>3. /\ record' # None /\ record'.inv = record.inv /\ record'.review = record.review
            /\ record'.owner = record.owner
        BY <3>1, <3>2, AnotherReason
      <3>4. Posture(p)'
        BY <1>0, <2>1, <2>2, <3>1 DEF Posture, Boot, Resting, Amid, Verdict, Busy
      <3>5. Knows(p)'
        BY <1>0, <2>2, <3>1, KeepKnows DEF Pre, Amid, Verdict
      <3>6. ~ Unbegun(p)'
        BY <3>1 DEF Unbegun
      <3>7. Holds(p)'
        <4>1. ~ Beginning(p)
          BY <2>1 DEF Beginning, Begin
        <4>2. cached[p].inv = inv[p] /\ cached[p].owner = p
          BY <2>2 DEF Holds, Begun
        <4> QED BY <2>2, <3>1, <3>3, <4>1, <4>2, HoldsWritten DEF Begun
      <3> QED BY <3>4, <3>5, <3>6, <3>7 DEF Orderly, Fresh
    <2>4. CASE ~ Finishes(p, why[p])
      <3>1. stage'[p] = "halted"
        BY <1>5, <2>4 DEF Supersede, TypeOK
      <3> QED BY <2>1, <2>2, <3>1, HaltedOwn DEF Orderly, Busy
    <2> QED BY <2>3, <2>4
  <1>6. CASE Mark(p)
    <2> DEFINE k == VerdictOf(ledger, cached[p].review)
    <2>1. stage[p] \in {"mark", "remark"} /\ bridge' = bridge
      BY <1>6 DEF Mark
    <2>2. /\ Alive(p) /\ Knows(p) /\ ~ granted[p] /\ bridge[p].phase \notin Busy
          /\ cached[p] # None /\ Judged(cached[p].review)
          /\ stage[p] = "remark" => bridge[p].phase = "none" /\ inv[p] = None
      BY <2>1 DEF Alive, Posture, Boot
    <2>3. CASE Halt(p)
      <3>1. stage'[p] = "halted"
        BY <2>3 DEF TypeOK
      <3> QED BY <2>1, <2>2, <3>1, HaltedOwn DEF Orderly
    <2>4. CASE /\ record # None /\ record.inv = cached[p].inv /\ record.owner = cached[p].owner
               /\ record' = [record EXCEPT !.receipted = k] /\ Cache(p, record')
               /\ Goto(p, IF stage[p] = "mark" /\ inv[p] # None THEN "marked" ELSE "idle")
      <3>1. /\ cached'[p] = record'
            /\ stage'[p] = IF stage[p] = "mark" /\ inv[p] # None THEN "marked" ELSE "idle"
        BY <2>4 DEF Cache, TypeOK
      <3>2. k \in Nat /\ record \in Pending
        BY <2>4, VerdictTypes DEF TypeOK
      <3>3. /\ record' # None /\ record'.inv = record.inv /\ record'.review = record.review
            /\ record'.owner = record.owner
        BY <2>4, <3>2, AnotherMark
      <3>4. stage'[p] = "idle" => inv[p] = None /\ bridge[p].phase \notin Begun
        <4>1. SUFFICES ASSUME stage'[p] = "idle" PROVE inv[p] = None /\ bridge[p].phase \notin Begun
          OBVIOUS
        <4>2. inv[p] = None
          BY <2>1, <2>2, <3>1, <4>1
        <4> QED BY <2>2, <4>2 DEF Holds
      <3>5. stage'[p] = "marked" => inv[p] # None
        BY <3>1
      <3>6. Posture(p)'
        <4>1. bridge[p].phase = "resolved" => stage'[p] = "marked"
          BY <3>1, <3>4 DEF Begun
        <4> QED BY <1>0, <2>1, <2>2, <3>1, <3>4, <3>5, <4>1 DEF Posture, Boot, Resting, Amid, Verdict
      <3>7. Knows(p)'
        BY <1>0, <2>2, <3>1, KeepKnows DEF Pre, Amid, Verdict
      <3>8. ~ Unbegun(p)'
        BY <3>1 DEF Unbegun
      <3>9. Holds(p)'
        <4>1. ~ Beginning(p)
          BY <2>1 DEF Beginning, Begin
        <4>2. CASE bridge[p].phase \in Begun
          BY <2>2, <2>4, <3>1, <3>3, <4>1, <4>2, HoldsWritten
        <4>3. CASE bridge[p].phase \notin Begun
          BY <2>1, <4>3 DEF Holds
        <4> QED BY <4>2, <4>3
      <3> QED BY <3>6, <3>7, <3>8, <3>9 DEF Orderly, Fresh
    <2> QED BY <1>6, <2>3, <2>4 DEF Mark
  <1> QED BY <1>1, <1>2, <1>3, <1>4, <1>5, <1>6 DEF Files

\* A step that writes neither store leaves its panel in good order, if the
\* stage fits and no request is bound or begins.
LEMMA QuietOwn ==
  ASSUME Inductive, NEW p \in Panel, Quiet(p), inv'[p] = inv[p], review'[p] = review[p],
         Posture(p)', Alive(p)' => Knows(p)', Unbegun(p)' => Unbegun(p),
         Alive(p)' /\ bridge'[p].phase \in Begun =>
           Alive(p) /\ bridge[p].phase \in Begun /\ cached'[p] = cached[p]
  PROVE  Orderly(p)'
  <1>1. ledger' = ledger /\ record' = record
    BY QuietKeeps
  <1>2. Fresh(p)'
    BY <1>1, QuietShared, KeepFresh DEF Inductive
  <1>3. Holds(p)'
    BY <1>1, HoldsStill DEF Inductive
  <1> QED BY <1>2, <1>3 DEF Orderly

\* The check that comes before a publication
LEMMA IntegrityOrderly ==
  ASSUME Inductive, NEW p \in Panel, Integrity(p)
  PROVE  Orderly(p)'
  <1> USE DEF Inductive, At, Goto
  <1>0. /\ UNCHANGED <<shared, tail, review, inv, why, granted, bridge, cached, gone, trouble>>
        /\ stage[p] \in DOMAIN Checked /\ Quiet(p)
        /\ stage'[p] = IF tail[p] = Len(ledger) THEN Checked[stage[p]] ELSE "halted"
    BY DEF Integrity, Quiet, TypeOK
  <1>1. stage[p] \in {"repairing", "opening", "dropping", "omitting", "deciding", "breaking",
                      "entering", "passing", "failing", "withdrawing", "published"}
    BY <1>0 DEF Checked
  <1>2. Alive(p) /\ Knows(p) /\ Posture(p) /\ bridge[p].phase \notin Busy
    BY <1>1 DEF Alive, Posture
  <1>3. CASE stage'[p] = "halted"
    BY <1>0, <1>2, <1>3, HaltedOwn DEF Orderly
  <1>4. CASE stage'[p] = Checked[stage[p]]
    <2>1. \/ stage[p] = "repairing" /\ stage'[p] = "repair"
          \/ stage[p] = "opening" /\ stage'[p] = "open"
          \/ stage[p] = "dropping" /\ stage'[p] = "drop"
          \/ stage[p] = "omitting" /\ stage'[p] = "omit"
          \/ stage[p] = "deciding" /\ stage'[p] = "decide"
          \/ stage[p] = "breaking" /\ stage'[p] = "break"
          \/ stage[p] = "entering" /\ stage'[p] = "enter"
          \/ stage[p] = "passing" /\ stage'[p] = "pass"
          \/ stage[p] = "failing" /\ stage'[p] = "fail"
          \/ stage[p] = "withdrawing" /\ stage'[p] = "withdraw"
          \/ stage[p] = "published" /\ stage'[p] = "mark"
      BY <1>1, <1>4 DEF Checked
    <2>2. Judged(cached[p].review)' <=> Judged(cached[p].review)
      BY <1>0 DEF Judged, shared
    <2>3. Posture(p)'
      BY <1>0, <1>2, <2>1, <2>2 DEF Posture, Alive, Boot, Resting, Amid, Verdict
    <2>4. /\ stage'[p] \in Pre => stage[p] \in Pre
          /\ stage'[p] \in Amid => stage[p] \in Amid
          /\ stage'[p] \in {"withdraw", "withdrawing", "decide", "deciding"} =>
               stage[p] \in {"withdrawing", "deciding"}
          /\ stage'[p] \in {"opening", "open"} => stage[p] = "opening"
      BY <2>1 DEF Pre, Amid, Verdict
    <2>5. Knows(p)'
      <3>1. /\ stage'[p] \in Pre => Owns(p, "opened")
            /\ stage'[p] \in Amid => Owns(p, "chrome-semantic-review")
            /\ stage'[p] \in {"withdrawing", "withdraw", "deciding", "decide"} \/ granted[p] =>
                 Owns(p, "eligible")
            /\ stage'[p] \in {"opening", "open"} => tail[p] = 0 \/ Last(p).event \in Terminal
        BY <1>2, <2>4 DEF Knows
      <3> QED BY <1>0, <1>2, <3>1, KeepKnows DEF shared
    <2>6. Unbegun(p)' => Unbegun(p)
      BY <2>1 DEF Unbegun
    <2> QED BY <1>0, <1>2, <2>3, <2>5, <2>6, QuietOwn
  <1> QED BY <1>0, <1>3, <1>4

\* The first command after the start, and the opening of a review
LEMMA OpeningOrderly ==
  ASSUME Inductive, NEW p \in Panel, Initialize(p) \/ OpenReview(p) \/ FailEarly(p)
  PROVE  Orderly(p)'
  <1> USE DEF Inductive, At, Goto, Halt
  <1>0. /\ ledger' = ledger /\ Quiet(p)
        /\ UNCHANGED <<review, inv, why, granted, bridge, cached, gone, trouble>>
    BY DEF Initialize, OpenReview, FailEarly, Quiet, shared
  <1>1. CASE Initialize(p)
    <2>1. /\ stage[p] = "on" /\ stage'[p] \in {"halted", "read"} /\ tail'[p] = Len(ledger)
      BY <1>1 DEF Initialize, TypeOK
    <2>2. /\ review[p] = 0 /\ inv[p] = None /\ ~ granted[p] /\ bridge[p].phase = "none"
      BY <2>1 DEF Posture, Boot
    <2>3. Posture(p)'
      BY <1>0, <2>1, <2>2 DEF Posture, Boot, Resting, Amid, Verdict, Busy
    <2>4. Knows(p)'
      <3>1. Len(ledger) <= Len(ledger)
        BY Places DEF TypeOK
      <3>2. ~ Owns(p, "opened")' /\ ~ Owns(p, "eligible")'
        BY <1>0, <2>2 DEF Owns
      <3> QED BY <1>0, <2>1, <2>2, <3>1, <3>2 DEF Knows, Pre, Amid, Verdict
    <2>5. ~ Unbegun(p)' /\ bridge'[p].phase \notin Begun
      BY <1>0, <2>1, <2>2 DEF Unbegun, Begun
    <2> QED BY <1>0, <2>3, <2>4, <2>5, QuietOwn
  <1>2. CASE OpenReview(p)
    <2>1. /\ stage[p] = "idle" /\ stage'[p] = "opening" /\ tail' = tail
          /\ StateAt(tail[p]) \in Terminal \cup {None}
      BY <1>2 DEF OpenReview, TypeOK
    <2>2. /\ Alive(p) /\ Knows(p) /\ inv[p] = None /\ bridge[p].phase \notin Begun \cup Busy
      <3>1. Alive(p) /\ Knows(p) /\ inv[p] = None /\ bridge[p].phase \notin Busy
        BY <2>1 DEF Alive, Posture, Resting
      <3>2. bridge[p].phase \notin Begun
        BY <3>1 DEF Holds
      <3> QED BY <3>1, <3>2
    <2>3. tail[p] = 0 \/ Last(p).event \in Terminal
      <3>1. SUFFICES ASSUME tail[p] # 0 PROVE Last(p).event \in Terminal
        OBVIOUS
      <3>2. tail[p] \in DOMAIN ledger
        <4>1. tail[p] \in Nat /\ tail[p] <= Len(ledger) /\ Len(ledger) \in Nat
              /\ DOMAIN ledger = 1 .. Len(ledger)
          BY <2>2, Places DEF Knows, TypeOK
        <4> QED BY <3>1, <4>1
      <3>3. ledger[tail[p]].event \in Event
        BY <3>2, Places DEF TypeOK, Receipt
      <3> QED BY <2>1, <3>1, <3>3, NoneAssumption DEF StateAt, Last
    <2>4. ~ granted[p]
      <3>1. SUFFICES ASSUME granted[p] PROVE FALSE
        OBVIOUS
      <3>2. review[p] # 0 /\ Last(p).event = "eligible" /\ tail[p] # 0
        BY <2>2, <3>1 DEF Knows, Owns
      <3> QED BY <2>3, <3>2 DEF Terminal
    <2>5. Posture(p)'
      BY <1>0, <2>1, <2>2, <2>4 DEF Posture, Boot, Resting, Amid, Verdict, Begun
    <2>6. Knows(p)'
      BY <1>0, <2>1, <2>2, <2>3, <2>4, KeepKnows DEF Pre, Amid, Verdict
    <2>7. ~ Unbegun(p)'
      BY <2>1 DEF Unbegun
    <2> QED BY <1>0, <2>2, <2>5, <2>6, <2>7, QuietOwn
  <1>3. CASE FailEarly(p)
    <2>1. /\ stage[p] = "ready" /\ stage'[p] \in {"dropping", "breaking"} /\ tail' = tail
      BY <1>3 DEF FailEarly, TypeOK
    <2>2. /\ Alive(p) /\ Knows(p) /\ inv[p] = None /\ bridge[p].phase \notin Begun \cup Busy
          /\ ~ granted[p] /\ Owns(p, "opened")
      <3>1. /\ Alive(p) /\ Knows(p) /\ inv[p] = None /\ bridge[p].phase \notin Busy
            /\ ~ granted[p] /\ Owns(p, "opened")
        BY <2>1 DEF Alive, Posture, Resting, Knows, Pre
      <3>2. bridge[p].phase \notin Begun
        BY <3>1 DEF Holds
      <3> QED BY <3>1, <3>2
    <2>5. Posture(p)'
      BY <1>0, <2>1, <2>2 DEF Posture, Boot, Resting, Amid, Verdict, Begun
    <2>6. Knows(p)'
      BY <1>0, <2>1, <2>2, KeepKnows DEF Amid, Verdict
    <2>7. ~ Unbegun(p)'
      BY <2>1 DEF Unbegun
    <2> QED BY <1>0, <2>2, <2>5, <2>6, <2>7, QuietOwn
  <1> QED BY <1>1, <1>2, <1>3

\* An id that is bound is nobody else's: the ledger has never seen it, and a
\* record that had it would make its review the live one.
LEMMA PrepareOrderly ==
  ASSUME Inductive, NEW p \in Panel, NEW i \in Invocation, Prepare(p, i)
  PROVE  Orderly(p)'
  <1> USE DEF Inductive, At, Goto, Halt
  <1>0. /\ ledger' = ledger /\ Quiet(p) /\ stage[p] = "ready" /\ tail' = tail /\ review' = review
        /\ record' = record /\ cached' = cached /\ granted' = granted /\ bridge' = bridge /\ why' = why
    BY DEF Prepare, Quiet, shared
  <1>1. /\ Alive(p) /\ Knows(p) /\ inv[p] = None /\ bridge[p].phase \notin Begun \cup Busy
        /\ ~ granted[p] /\ Owns(p, "opened") /\ review[p] # 0
    <2>1. /\ Alive(p) /\ Knows(p) /\ inv[p] = None /\ bridge[p].phase \notin Busy
          /\ ~ granted[p] /\ Owns(p, "opened") /\ review[p] # 0
      BY <1>0 DEF Alive, Posture, Resting, Knows, Pre, Owns
    <2>2. bridge[p].phase \notin Begun
      BY <2>1 DEF Holds
    <2> QED BY <2>1, <2>2
  <1>2. CASE stage'[p] = "halted"
    BY <1>0, <1>1, <1>2, HaltedOwn DEF Orderly
  <1>3. CASE stage'[p] = "breaking" /\ inv' = inv
    <2>1. Posture(p)'
      BY <1>0, <1>1, <1>3 DEF Posture, Boot, Resting, Amid, Verdict, Begun
    <2>2. Knows(p)'
      BY <1>0, <1>1, <1>3, KeepKnows DEF Amid, Verdict
    <2>3. ~ Unbegun(p)'
      BY <1>3 DEF Unbegun
    <2> QED BY <1>0, <1>1, <1>3, <2>1, <2>2, <2>3, QuietOwn
  <1>4. CASE /\ stage'[p] \in {"entering", "omitting"} /\ inv' = [inv EXCEPT ![p] = i]
             /\ i \notin Retained(ledger)
    <2>0. inv'[p] = i /\ i # None
      BY <1>4, ConstantsAssumption DEF TypeOK
    <2>1. Posture(p)'
      BY <1>0, <1>1, <1>4, <2>0 DEF Posture, Boot, Resting, Amid, Verdict, Begun
    <2>2. Knows(p)'
      BY <1>0, <1>1, <1>4, KeepKnows DEF Pre, Amid, Verdict
    <2>3. PICK r \in Nat : r = review[p]
      BY DEF TypeOK
    <2>4. ~ Closed(r) /\ ~ Entered(r) /\ ~ Judged(r) /\ Live(r)
      BY <1>1, <2>3, OwnLive DEF Knows
    <2>5. ASSUME NEW c \in Copies PROVE c.inv # i /\ c.review # r
      <3>1. Backed(c)
        BY <2>5 DEF Records
      <3>2. Entered(c.review) /\ c.review # r
        BY <2>4, <3>1 DEF Backed
      <3>3. c.review \in Nat
        BY <2>5, PendingTypes DEF Copies, TypeOK
      <3>4. CASE ~ Judged(c.review)
        <4>1. ~ Closed(c.review)
          BY <3>2, <3>3, <3>4 DEF Settled
        <4>2. c.review \in DOMAIN ledger
          BY <3>2, EnteredPlace
        <4>3. Live(c.review)
          BY <3>2, <4>1, <4>2 DEF Live
        <4> QED BY <2>3, <2>4, <3>2, <3>3, <4>3 DEF Alone
      <3>5. CASE Judged(c.review)
        <4>1. PICK k \in DOMAIN ledger : k \in Verdicts(ledger, c.review) /\ ledger[k].inv # None
          BY <3>5 DEF Judged, Verdicts
        <4>2. ledger[k].inv = c.inv
          BY <3>1, <4>1 DEF Backed
        <4>3. c.inv \in Retained(ledger)
          BY <4>1, <4>2 DEF Retained
        <4> QED BY <1>4, <3>2, <4>3
      <3> QED BY <3>4, <3>5
    <2>6. Copies' = Copies
      BY <1>0 DEF Copies
    <2>7. ~ Judged(review[p])' /\ i \notin Retained(ledger)'
      BY <1>0, <1>4, <2>3, <2>4 DEF Judged
    <2>8. Fresh(p)'
      BY <1>0, <2>0, <2>3, <2>5, <2>6, <2>7 DEF Fresh, Judged
    <2>9. Holds(p)'
      BY <1>0, <1>1 DEF Holds
    <2> QED BY <2>1, <2>2, <2>8, <2>9 DEF Orderly
  <1> QED
    <2>1. \A s \in Stage : stage' = [stage EXCEPT ![p] = s] => stage'[p] = s
      BY DEF TypeOK
    <2>2. {"halted", "breaking", "entering", "omitting"} \subseteq Stage
      BY DEF Stage
    <2> QED BY <1>2, <1>3, <1>4, <2>1, <2>2 DEF Prepare

\* The request to the bridge, and the use of its answer
LEMMA AnswerOrderly ==
  ASSUME Inductive, NEW p \in Panel, Request(p) \/ Answered(p)
  PROVE  Orderly(p)'
  <1> USE DEF Inductive, At, Goto, Halt
  <1>0. /\ ledger' = ledger /\ Quiet(p) /\ tail' = tail /\ review' = review /\ inv' = inv
        /\ record' = record /\ cached' = cached /\ granted' = granted
        /\ stage[p] \in {"entered", "answered"}
    BY DEF Request, Answered, Quiet, shared
  <1>1. /\ Alive(p) /\ Knows(p) /\ inv[p] # None /\ bridge[p].phase \notin Busy
        /\ ~ granted[p] /\ Owns(p, "chrome-semantic-review") /\ review[p] # 0
    BY <1>0 DEF Alive, Posture, Knows, Amid, Owns
  <1>2. CASE Request(p)
    <2>1. /\ stage[p] = "entered"
          /\ \/ stage'[p] = "asked" /\ bridge'[p].phase = "preparing"
             \/ stage'[p] = "answered" /\ bridge' = bridge
      BY <1>2 DEF Request, Bridge, NoBridge, TypeOK
    <2>2. bridge[p].phase \notin Begun
      BY <1>1, <2>1 DEF Posture, Begun, Busy, Verdict
    <2>3. Posture(p)'
      BY <1>0, <1>1, <2>1, <2>2 DEF Posture, Boot, Resting, Amid, Verdict, Begun
    <2>4. Knows(p)'
      BY <1>0, <1>1, <2>1, KeepKnows DEF Pre, Amid
    <2>5. Unbegun(p) /\ bridge'[p].phase \notin Begun
      BY <2>1, <2>2 DEF Unbegun, Begun
    <2> QED BY <1>0, <1>1, <2>3, <2>4, <2>5, QuietOwn
  <1>3. CASE Answered(p)
    <2>1. stage[p] = "answered" /\ bridge' = bridge
      BY <1>3 DEF Answered
    <2>2. CASE stage'[p] = "halted"
      BY <1>1, <2>1, <2>2, HaltedOwn DEF Orderly
    <2>3. CASE /\ stage'[p] \in {"superseding", "failing", "passing"} /\ bridge[p].phase # "none"
               /\ stage'[p] = "passing" => cached[p] # None /\ cached[p].reason = "completed"
               /\ stage'[p] # "passing" => why'[p] # None
      <3>1. bridge[p].phase = "resolved"
        BY <1>1, <2>3, ReasonTypes DEF BridgeState, Phase, Busy
      <3>2. Posture(p)'
        BY <1>0, <1>1, <2>1, <2>3, <3>1 DEF Posture, Boot, Resting, Amid, Verdict, Busy
      <3>3. Knows(p)'
        BY <1>0, <1>1, <2>3, KeepKnows DEF Pre, Amid, Verdict
      <3>4. ~ Unbegun(p)'
        BY <2>3 DEF Unbegun
      <3> QED BY <1>0, <1>1, <2>1, <3>2, <3>3, <3>4, QuietOwn
    <2>4. ASSUME NEW w \in Reason \cup {None}, w # None, Withhold(p, w)
          PROVE  stage'[p] \in {"superseding", "failing"} /\ why'[p] # None
      BY <2>4 DEF Withhold, TypeOK
    <2>5. CASE Halt(p)
      BY <2>2, <2>5 DEF TypeOK
    <2>6. CASE /\ ~ (\/ cached[p] = None \/ bridge[p].phase = "none"
                     \/ cached[p].inv # inv[p] \/ cached[p].owner # p \/ cached[p].reason = None)
               /\ Withheld(p) # None /\ Withhold(p, Withheld(p))
      <3>1. Withheld(p) \in Reason \cup {None}
        BY <2>6, ReasonTypes, PendingTypes DEF Withheld, TypeOK
      <3> QED BY <2>3, <2>4, <2>6, <3>1
    <2>7. CASE bridge[p].phase # "none" /\ Withhold(p, "unfavorable-analysis")
      <3>1. "unfavorable-analysis" \in Reason
        BY DEF Reason
      <3> QED BY <2>3, <2>4, <2>7, <3>1, NoneAssumption
    <2>8. CASE /\ ~ (\/ cached[p] = None \/ bridge[p].phase = "none"
                     \/ cached[p].inv # inv[p] \/ cached[p].owner # p \/ cached[p].reason = None)
               /\ Withheld(p) = None /\ Goto(p, "passing")
      <3>1. cached[p].reason = "completed"
        BY <2>8 DEF Withheld
      <3>2. stage'[p] = "passing"
        BY <2>8 DEF TypeOK
      <3> QED BY <2>3, <2>8, <3>1, <3>2
    <2> QED BY <1>3, <2>5, <2>6, <2>7, <2>8 DEF Answered
  <1> QED BY <1>2, <1>3

\* The end of a review, and the use of the grant
LEMMA GrantOrderly ==
  ASSUME Inductive, NEW p \in Panel, Conclude(p) \/ Retired(p) \/ Decide(p)
  PROVE  Orderly(p)'
  <1> USE DEF Inductive, At, Goto, Halt
  <1>0. /\ ledger' = ledger /\ Quiet(p) /\ tail' = tail /\ review' = review
        /\ record' = record /\ cached' = cached /\ why' = why
        /\ stage[p] \in {"marked", "retire", "idle"}
    BY DEF Conclude, Retired, Retire, Decide, Quiet, shared
  <1>1. Alive(p) /\ Knows(p) /\ bridge[p].phase \notin Busy
    BY <1>0 DEF Alive, Posture
  <1>2. tail[p] # 0 /\ StateAt(tail[p]) = "eligible" => Last(p).event = "eligible"
    BY DEF StateAt, Last
  <1>3. CASE stage'[p] = "halted" /\ bridge' = bridge
    BY <1>1, <1>3, HaltedOwn DEF Orderly
  <1>4. CASE Retire(p) /\ stage[p] \in {"marked", "retire"} /\ stage'[p] # "halted"
    <2>1. /\ stage'[p] = "idle" /\ bridge'[p].phase = "none" /\ inv'[p] = None
          /\ granted'[p] => StateAt(tail[p]) = "eligible"
      <3> DEFINE now == StateAt(tail[p]) = "eligible"
      <3>1. /\ bridge' = [bridge EXCEPT ![p] = NoBridge] /\ stage' = [stage EXCEPT ![p] = "idle"]
            /\ inv' = [inv EXCEPT ![p] = None] /\ granted' = [granted EXCEPT ![p] = now]
        BY <1>4 DEF Retire, Bridge, TypeOK
      <3> HIDE DEF now
      <3>2. granted'[p] => now
        BY <3>1 DEF TypeOK
      <3>3. stage'[p] = "idle" /\ bridge'[p].phase = "none" /\ inv'[p] = None
        BY <3>1 DEF NoBridge, TypeOK
      <3> QED BY <3>2, <3>3 DEF now
    <2>2. inv[p] # None /\ review[p] # 0 /\ tail[p] # 0
      BY <1>1, <1>4 DEF Posture, Knows
    <2>3. granted'[p] => Owns(p, "eligible")
      BY <1>2, <2>1, <2>2 DEF Owns
    <2>4. Posture(p)'
      BY <2>1 DEF Posture, Boot, Resting, Amid, Verdict, Busy
    <2>5. Knows(p)'
      BY <1>0, <1>1, <2>1, <2>3, KeepKnows DEF Pre, Amid, Verdict
    <2>6. ~ Unbegun(p)' /\ Holds(p)'
      BY <2>1 DEF Unbegun, Holds, Begun
    <2> QED BY <2>4, <2>5, <2>6 DEF Orderly, Fresh
  <1>5. CASE /\ stage[p] = "marked" /\ stage'[p] = "withdrawing" /\ StateAt(tail[p]) = "eligible"
             /\ UNCHANGED <<inv, granted, bridge>>
    <2>1. inv[p] # None /\ review[p] # 0 /\ tail[p] # 0 /\ ~ granted[p]
      BY <1>1, <1>5 DEF Posture, Knows
    <2>2. Owns(p, "eligible")
      BY <1>2, <1>5, <2>1 DEF Owns
    <2>3. Posture(p)'
      BY <1>0, <1>1, <1>5, <2>1 DEF Posture, Boot, Resting, Amid, Verdict
    <2>4. Knows(p)'
      BY <1>0, <1>1, <1>5, <2>2, KeepKnows DEF Pre, Amid, Verdict
    <2>5. ~ Unbegun(p)'
      BY <1>5 DEF Unbegun
    <2> QED BY <1>0, <1>1, <1>5, <2>3, <2>4, <2>5, QuietOwn
  <1>6. CASE Decide(p)
    <2>1. /\ stage[p] = "idle" /\ granted[p] /\ ~ granted'[p] /\ inv' = inv /\ bridge' = bridge
          /\ stage'[p] \in {"halted", "deciding", "idle"}
      BY <1>6 DEF Decide, TypeOK
    <2>2. inv[p] = None /\ bridge[p].phase \notin Begun /\ Owns(p, "eligible")
      <3>1. inv[p] = None /\ Owns(p, "eligible")
        BY <1>1, <2>1 DEF Posture, Resting, Knows
      <3> QED BY <1>1, <3>1 DEF Holds
    <2>3. Posture(p)'
      BY <1>0, <1>1, <2>1, <2>2 DEF Posture, Boot, Resting, Amid, Verdict, Begun
    <2>4. Knows(p)'
      BY <1>0, <1>1, <2>1, <2>2, KeepKnows DEF Pre, Amid, Verdict
    <2>5. ~ Unbegun(p)'
      BY <2>1 DEF Unbegun
    <2> QED BY <1>0, <2>1, <2>2, <2>3, <2>4, <2>5, QuietOwn
  <1>7. CASE Retire(p) /\ stage[p] \in {"marked", "retire"}
    BY <1>3, <1>4, <1>7 DEF Retire, TypeOK
  <1>8. CASE Conclude(p)
    BY <1>3, <1>5, <1>7, <1>8 DEF Conclude, TypeOK
  <1>9. CASE Retired(p)
    BY <1>7, <1>9 DEF Retired
  <1> QED BY <1>6, <1>8, <1>9

\* The bridge on its way to an answer, and what befalls it
LEMMA BridgeOrderly ==
  ASSUME Inductive, NEW p \in Panel,
         \/ Issue(p) \/ Resolve(p) \/ Timeout(p) \/ JournalFails(p)
         \/ Result(p, None, None) \/ Result(p, None, "malformed-output")
         \/ Result(p, "unavailable", None)
  PROVE  Orderly(p)'
  <1> USE DEF Inductive, At, Goto, Halt
  <1>0. /\ ledger' = ledger /\ Quiet(p) /\ tail' = tail /\ review' = review /\ inv' = inv
        /\ record' = record /\ cached' = cached /\ granted' = granted /\ why' = why
        /\ bridge[p].phase \in Busy
    BY DEF Issue, Resolve, Timeout, JournalFails, Result, Quiet, shared, Busy
  <1>1. stage[p] = "asked"
    BY <1>0 DEF Posture
  <1>2. /\ Alive(p) /\ Knows(p) /\ inv[p] # None /\ ~ granted[p] /\ review[p] # 0
        /\ Owns(p, "chrome-semantic-review")
    BY <1>1 DEF Alive, Posture, Knows, Amid, Owns
  <1>3. ASSUME NEW g, NEW w, Settle(p, g, w) PROVE bridge'[p].phase = "settling"
    <2>1. PICK o : bridge' = [bridge EXCEPT ![p] = [bridge[p] EXCEPT !.phase = "settling", !.reason = o]]
      BY <1>3 DEF Settle, Bridge
    <2> QED BY <2>1, ReasonTypes DEF TypeOK, BridgeState
  <1>4. /\ \/ /\ stage'[p] = "asked" /\ bridge[p].phase # "preparing"
              /\ bridge'[p].phase \in {"settling", "issued"}
           \/ /\ stage'[p] = "answered" /\ bridge[p].phase = "finished"
              /\ bridge'[p].phase = "resolved"
           \/ stage'[p] = "answered" /\ bridge'[p].phase = "none"
    <2>1. CASE Issue(p)
      <3>1. CASE Bridge(p, [bridge[p] EXCEPT !.phase = "issued"])
        BY <1>1, <2>1, <3>1, ReasonTypes DEF Issue, Bridge, TypeOK, BridgeState
      <3> QED BY <1>1, <1>3, <2>1, <3>1 DEF Issue
    <2>2. CASE Resolve(p)
      <3>1. bridge[p].phase = "finished"
        BY <2>2 DEF Resolve
      <3>2. CASE /\ Bridge(p, [bridge[p] EXCEPT !.phase = "settling", !.reason = Failure(p)])
                 /\ UNCHANGED stage
        BY <1>1, <3>1, <3>2, ReasonTypes DEF Bridge, TypeOK, BridgeState
      <3>3. CASE Bridge(p, [bridge[p] EXCEPT !.phase = "resolved"]) /\ Goto(p, "answered")
        BY <3>1, <3>3, ReasonTypes DEF Bridge, TypeOK, BridgeState
      <3> QED BY <2>2, <3>2, <3>3 DEF Resolve
    <2>3. CASE Timeout(p) \/ Result(p, None, None) \/ Result(p, None, "malformed-output")
                 \/ Result(p, "unavailable", None)
      <3>1. bridge[p].phase = "issued" /\ stage' = stage
        BY <2>3 DEF Timeout, Result
      <3>2. bridge'[p].phase = "settling"
        BY <1>3, <2>3 DEF Timeout, Result
      <3> QED BY <1>1, <3>1, <3>2
    <2>4. CASE JournalFails(p)
      BY <2>4 DEF JournalFails, Reject, Bridge, NoBridge, TypeOK
    <2> QED BY <2>1, <2>2, <2>3, <2>4
  <1>5. Posture(p)'
    BY <1>0, <1>2, <1>4 DEF Posture, Boot, Resting, Amid, Verdict, Busy
  <1>6. Knows(p)'
    BY <1>0, <1>2, <1>4, KeepKnows DEF Pre, Amid
  <1>7. ~ Unbegun(p)'
    BY <1>4 DEF Unbegun
  <1>8. bridge'[p].phase \in Begun => bridge[p].phase \in Begun
    BY <1>0, <1>4 DEF Busy, Begun
  <1> QED BY <1>0, <1>2, <1>5, <1>6, <1>7, <1>8, QuietOwn

\* What befalls a panel from outside
LEMMA BefallenOrderly ==
  ASSUME Inductive, NEW p \in Panel,
         \/ Cancel(p) \/ (\E how \in {"closed", "moved"} : Disconnect(p, how)) \/ Drift(p)
         \/ Expire(p) \/ Crash(p) \/ CustodyFails(p)
  PROVE  Orderly(p)'
  <1> USE DEF Inductive, At, Goto, Halt
  <1>1. CASE CustodyFails(p)
    <2>1. stage[p] # "asked" /\ stage'[p] = "halted" /\ bridge' = bridge
      BY <1>1 DEF CustodyFails, Checked, TypeOK
    <2>2. bridge[p].phase \notin Busy
      BY <2>1 DEF Posture
    <2> QED BY <2>1, <2>2, HaltedOwn DEF Orderly
  <1>2. CASE Crash(p)
    <2>1. stage'[p] = "dead" /\ bridge'[p].phase = "none"
      BY <1>2 DEF Crash, Bridge, NoBridge, TypeOK
    <2>2. ~ Alive(p)' /\ ~ Unbegun(p)'
      BY <2>1 DEF Alive, Unbegun
    <2>3. stage'[p] \notin Boot \cup Resting \cup Pre \cup Amid /\ stage'[p] \notin Verdict
      BY <2>1 DEF Boot, Resting, Pre, Amid, Verdict
    <2>4. Posture(p)'
      BY <2>1, <2>2, <2>3 DEF Posture, Busy
    <2> QED BY <2>2, <2>4 DEF Orderly, Fresh, Holds
  <1>3. CASE /\ UNCHANGED <<shared, stage, tail, review, inv, why, granted, cached>> /\ Quiet(p)
             /\ Alive(p)
             /\ \/ bridge'[p].phase = bridge[p].phase
                \/ bridge[p].phase = "issued" /\ bridge'[p].phase = "settling"
    <2>0. ledger' = ledger
      BY <1>3 DEF shared
    <2>1. /\ bridge'[p].phase \in Busy <=> bridge[p].phase \in Busy
          /\ bridge'[p].phase \in Begun <=> bridge[p].phase \in Begun
          /\ bridge'[p].phase = "resolved" <=> bridge[p].phase = "resolved"
          /\ bridge'[p].phase = "preparing" <=> bridge[p].phase = "preparing"
          /\ bridge'[p].phase = "none" <=> bridge[p].phase = "none"
      BY <1>3 DEF Busy, Begun
    <2>2. Judged(cached[p].review)' <=> Judged(cached[p].review)
      BY <1>3, <2>0 DEF Judged
    <2>3. Posture(p)'
      <3>1. Alive(p)'
        BY <1>3 DEF Alive
      <3> QED BY <1>3, <2>1, <2>2, <3>1 DEF Posture
    <2>4. Knows(p)'
      <3>1. Knows(p)
        BY <1>3
      <3> QED BY <1>3, <2>0, <3>1, KeepKnows DEF Knows
    <2>5. Unbegun(p)' => Unbegun(p)
      BY <1>3, <2>1 DEF Unbegun
    <2> QED BY <1>3, <2>1, <2>3, <2>4, <2>5, QuietOwn
  <1>4. CASE Drift(p) \/ Expire(p)
    BY <1>3, <1>4 DEF Drift, Expire, Bound, memory, Quiet
  <1>5. ASSUME NEW w, CancelPending(p, w)
        PROVE  \/ bridge'[p].phase = bridge[p].phase
               \/ bridge[p].phase = "issued" /\ bridge'[p].phase = "settling"
    <2>1. CASE bridge[p].phase = "none"
      BY <1>5, <2>1 DEF CancelPending
    <2>2. CASE bridge[p].phase # "none"
      <3>1. PICK b : b = [bridge[p] EXCEPT !.cancel = Otherwise(@, w)]
        OBVIOUS
      <3>2. bridge' = [bridge EXCEPT ![p] = IF b.phase # "issued" THEN b
                         ELSE [b EXCEPT !.phase = "settling", !.reason = b.cancel]]
        BY <1>5, <2>2, <3>1 DEF CancelPending, Bridge
      <3>3. b.phase = bridge[p].phase /\ DOMAIN b = {"phase", "cancel", "reason"}
        BY <3>1, ReasonTypes DEF BridgeState
      <3>4. [b EXCEPT !.phase = "settling", !.reason = b.cancel].phase = "settling"
        BY <3>3
      <3>5. bridge'[p] = IF b.phase # "issued" THEN b
                         ELSE [b EXCEPT !.phase = "settling", !.reason = b.cancel]
        BY <3>2 DEF TypeOK
      <3> QED BY <3>3, <3>4, <3>5
    <2> QED BY <2>1, <2>2
  <1>6. CASE Cancel(p)
    BY <1>3, <1>5, <1>6 DEF Cancel, Quiet
  <1>7. CASE \E how \in {"closed", "moved"} : Disconnect(p, how)
    BY <1>3, <1>5, <1>7 DEF Disconnect, Bound, Quiet
  <1> QED BY <1>1, <1>2, <1>4, <1>6, <1>7

\* A step that writes neither store leaves its panel in good order.
LEMMA QuietOrderly ==
  ASSUME Inductive, NEW p \in Panel, Quiet(p)
  PROVE  Orderly(p)'
  BY IntegrityOrderly, OpeningOrderly, PrepareOrderly, AnswerOrderly, GrantOrderly, BridgeOrderly,
     BefallenOrderly DEF Quiet

-----------------------------------------------------------------------------
(***************************************************************************)
(* The invariant                                                           *)
(***************************************************************************)
\* At the start nothing has been written and nobody holds anything.
LEMMA InitInductive == Init => Inductive
  <1> SUFFICES ASSUME Init PROVE Inductive
    OBVIOUS
  <1>1. TypeOK
    BY InitTypes
  <1>2. /\ ledger = <<>> /\ record = None /\ used = {} /\ DOMAIN ledger = {} /\ Len(ledger) = 0
        /\ \A p \in Panel : /\ stage[p] = "off" /\ tail[p] = 0 /\ review[p] = 0 /\ inv[p] = None
                            /\ ~ granted[p] /\ bridge[p].phase = "none" /\ cached[p] = None
    BY DEF Init, NoBridge
  <1>3. /\ \A r : Events(ledger, r) = {} /\ Verdicts(ledger, r) = {}
        /\ Retained(ledger) = {} /\ Issued(ledger) = {} /\ Copies = {}
    BY <1>2 DEF Events, Verdicts, Retained, Issued, Copies
  <1>4. \A r : ~ Entered(r) /\ ~ Closed(r) /\ ~ Live(r)
    BY <1>2, <1>3 DEF Entered, Closed, Live
  <1>5. Origins /\ Settled /\ OneArtifact
    BY <1>2, <1>4 DEF Origins, Settled, OneArtifact
  <1>6. Alone
    BY <1>2, <1>4 DEF Alone
  <1>7. Records /\ NothingForgotten
    BY <1>2, <1>3 DEF Records, NothingForgotten
  <1>8. ASSUME NEW p \in Panel PROVE Posture(p) /\ ~ Alive(p) /\ Fresh(p) /\ Holds(p)
    <2>1. ~ Alive(p) /\ ~ Unbegun(p)
      BY <1>2 DEF Alive, Unbegun, At
    <2>2. Posture(p)
      BY <1>2 DEF Posture, Alive, At, Boot, Resting, Amid, Verdict, Busy
    <2> QED BY <2>1, <2>2 DEF Fresh, Holds
  <1> QED BY <1>1, <1>5, <1>6, <1>7, <1>8 DEF Inductive

\* A publication takes the invariant with it.
LEMMA PublishesInductive ==
  ASSUME Inductive, NEW p \in Panel, Publishes(p)
  PROVE  /\ Origins' /\ Settled' /\ Alone' /\ Records' /\ OneArtifact' /\ NothingForgotten'
         /\ \A q \in Panel : Posture(q)' /\ (Alive(q)' => Knows(q)') /\ Fresh(q)' /\ Holds(q)'
  <1> USE DEF Inductive
  <1>1. Done(p)
    BY PublicationDone
  <1>2. CASE Refused(p)
    BY <1>1, <1>2, QuietShared, StillOthers DEF Done
  <1>3. ASSUME NEW x, Due(p, x)
        PROVE  /\ Origins' /\ Settled' /\ Alone' /\ Records' /\ OneArtifact' /\ NothingForgotten'
               /\ \A q \in Panel : Posture(q)' /\ (Alive(q)' => Knows(q)') /\ Fresh(q)' /\ Holds(q)'
    <2>1. \A q \in Panel : Alive(q)' => Alive(q)
      <3>1. \A q \in Panel : q # p => Alive(q)' = Alive(q)
        BY OthersApart DEF Apart, Alive
      <3>2. Alive(p)
        BY DEF Publishes, Repair, Opened, Dropped, Omitted, Broken, Enter, Pass, Fail, Withdraw,
               Decided, At, Alive
      <3> QED BY <3>1, <3>2
    <2>2. Alone'
      BY <1>3, <2>1, AppendAlone
    <2>3. Origins' /\ Settled' /\ Records' /\ OneArtifact' /\ NothingForgotten'
      BY <1>3, AppendOrigins, AppendSettled, AppendRecords, AppendArtifact, AppendForgotten
    <2>4. \A q \in Panel : Posture(q)' /\ (Alive(q)' => Knows(q)') /\ Fresh(q)' /\ Holds(q)'
      BY <1>1, <1>3, DueOthers DEF Done
    <2> QED BY <2>2, <2>3, <2>4
  <1> QED BY <1>1, <1>2, <1>3 DEF Done

\* No step of any panel disturbs the invariant.
LEMMA InductiveStep == Inductive /\ [Next]_vars => Inductive'
  <1> SUFFICES ASSUME Inductive, [Next]_vars PROVE Inductive'
    OBVIOUS
  <1> USE DEF Inductive
  <1>1. TypeOK'
    BY TypeStep
  <1>2. CASE UNCHANGED vars
    <2> USE <1>2 DEF vars, shared, memory
    <2>1. /\ Copies' = Copies
          /\ \A c \in Copies' : \E d \in Copies : Descends(c, d)
      BY DEF Copies, Descends
    <2>2. Origins' /\ Settled' /\ OneArtifact' /\ NothingForgotten'
      BY SameLedger DEF NothingForgotten
    <2>3. Alone' /\ Records'
      BY <2>1, KeepAlone, KeepRecords DEF Alive
    <2>4. ASSUME NEW q \in Panel
          PROVE  Posture(q)' /\ (Alive(q)' => Knows(q)') /\ Fresh(q)' /\ Holds(q)'
      <3>1. Apart(q)
        BY DEF Apart
      <3>2. \A r : Judged(r)' = Judged(r)
        BY SameLedger
      <3>3. Posture(q)' /\ Holds(q)'
        BY <3>1, <3>2, PostureApart, HoldsApart
      <3>4. Fresh(q)'
        BY <2>1, KeepFresh DEF Unbegun, At
      <3>5. ASSUME Alive(q) PROVE Knows(q)'
        BY <3>5, KeepKnows DEF Knows
      <3>6. Alive(q)' <=> Alive(q)
        BY DEF Alive
      <3> QED BY <3>3, <3>4, <3>5, <3>6
    <2> QED BY <1>1, <2>2, <2>3, <2>4
  <1>3. ASSUME NEW p \in Panel, Publishes(p) \/ Files(p) \/ Quiet(p) PROVE Inductive'
    <2>1. CASE Publishes(p)
      BY <1>1, <2>1, PublishesInductive
    <2>2. CASE Files(p)
      BY <1>1, <2>2, FilesShared, FilesOrderly, StillOthers DEF Orderly
    <2>3. CASE Quiet(p)
      BY <1>1, <2>3, QuietShared, QuietOrderly, StillOthers DEF Orderly
    <2> QED BY <1>3, <2>1, <2>2, <2>3
  <1> QED BY <1>2, <1>3, Steps

\* The invariant holds of every state that the panels reach.
THEOREM Invariant == Spec => []Inductive
  <1> QED BY InitInductive, InductiveStep, PTL DEF Spec

-----------------------------------------------------------------------------
(***************************************************************************)
(* What the runs check, for every value of the constants                   *)
(***************************************************************************)
\* Ledger, file and memory keep their shape, whoever crashes or is cut off.
THEOREM TypeCorrect == Spec => []TypeOK
  <1>1. Inductive => TypeOK
    BY DEF Inductive
  <1> QED BY <1>1, Invariant, PTL

\* A review gets one artifact and an invocation is spent on one, whether its
\* owner publishes (#runChrome) or a later panel repairs (#recoverChrome).
THEOREM ArtifactIsSingle == Spec => []OneArtifact
  <1>1. Inductive => OneArtifact
    BY DEF Inductive
  <1> QED BY <1>1, Invariant, PTL

\* Whatever crash falls between begin, finish, the receipt and its mark, the
\* file's ids and the ledger's differ by the file's current one at most.
THEOREM AccountsAgree == Spec => []NothingForgotten
  <1>1. Inductive => NothingForgotten
    BY DEF Inductive
  <1> QED BY <1>1, Invariant, PTL

\* What a publication appends is its own event.
LEMMA PublishedEvent ==
  ASSUME TypeOK, NEW p, NEW r, NEW e, NEW i, NEW w, NEW next, Publish(p, r, e, i, w, next),
         NEW k \in DOMAIN ledger' \ DOMAIN ledger, ledger'[k].event = "eligible"
  PROVE  Accepts(r, e, i, w) /\ e = "eligible" /\ ledger'[k].inv = i
  <1> DEFINE x == [review |-> r, event |-> e, inv |-> i, why |-> w]
  <1>1. Accepts(r, e, i, w) /\ ledger' = Append(ledger, x)
    BY DEF Publish
  <1>2. x.event = e /\ x.inv = i
    OBVIOUS
  <1> HIDE DEF x
  <1>3. ledger'[k] = x
    <2>1. /\ DOMAIN ledger = 1 .. Len(ledger) /\ Len(ledger) \in Nat
          /\ DOMAIN ledger' = 1 .. Len(ledger) + 1 /\ ledger'[Len(ledger) + 1] = x
      BY <1>1 DEF TypeOK
    <2>2. k = Len(ledger) + 1
      BY <2>1
    <2> QED BY <2>1, <2>2
  <1> QED BY <1>1, <1>2, <1>3

\* Nothing to withhold: no cancel, nothing gone.
LEMMA LiveMeans ==
  ASSUME TypeOK, NEW p \in Panel, bridge[p].phase # "none", LiveReason(p) = None
  PROVE  gone[p] = {} /\ bridge[p].cancel = None
  <1>1. "provenance-drift" # None /\ "connection-loss" # None /\ "timeout" # None
    BY NoneAssumption DEF Reason, Cancelled
  <1>2. "drift" \notin gone[p] /\ Otherwise(bridge[p].reason, Failure(p)) = None
    BY <1>1 DEF LiveReason
  <1>3. Failure(p) = None
    BY <1>2 DEF Otherwise
  <1>4. bridge[p].cancel = None /\ Invalidated(p) = None
    BY <1>3 DEF Failure, Otherwise
  <1>5. gone[p] \cap {"closed", "moved"} = {} /\ "late" \notin gone[p]
    BY <1>1, <1>4 DEF Invalidated
  <1>6. gone[p] \subseteq {"closed", "moved", "late", "drift"}
    BY DEF TypeOK
  <1>7. \A z : z \notin gone[p]
    BY <1>2, <1>5, <1>6
  <1> QED BY <1>4, <1>7

\* The guard of withCommitGuard: an eligible receipt, for any number of panels,
\* is the owner's, uncancelled and connected, and the file says completed.
LEMMA EligibleStep ==
  ASSUME Inductive, NEW p \in Panel, Publishes(p) \/ Files(p) \/ Quiet(p),
         NEW k \in DOMAIN ledger' \ DOMAIN ledger, ledger'[k].event = "eligible"
  PROVE  /\ record # None /\ record.inv = ledger'[k].inv /\ record.reason = "completed"
         /\ record.owner = p /\ At(p, "pass") /\ gone[p] = {} /\ bridge[p].cancel = None
  <1> USE DEF Inductive
  <1>1. Publishes(p)
    BY QuietKeeps, FilesKeep
  <1>2. Pass(p)
    <2>1. ASSUME NEW r, NEW e, NEW i, NEW w, NEW next, Publish(p, r, e, i, w, next)
          PROVE  e = "eligible"
      BY <2>1, PublishedEvent
    <2> QED BY <1>1, <2>1 DEF Publishes, Repair, Opened, Dropped, Omitted, Broken, Enter, Fail,
                              Withdraw, Decided
  <1>3. /\ At(p, "pass") /\ Publish(p, review[p], "eligible", inv[p], "completed", "published")
        /\ Accepts(review[p], "eligible", inv[p], "completed") => LiveReason(p) = None
    BY <1>2 DEF Pass
  <1>4. Accepts(review[p], "eligible", inv[p], "completed") /\ ledger'[k].inv = inv[p]
    BY <1>3, PublishedEvent
  <1>5. /\ Alive(p) /\ inv[p] # None /\ bridge[p].phase = "resolved"
        /\ cached[p] # None /\ cached[p].reason = "completed"
    BY <1>3 DEF At, Alive, Posture, Amid, Verdict
  <1>6. ~ Judged(review[p])
    BY <1>4, <1>5 DEF Accepts, Judged
  <1>7. "completed" # None
    BY NoneAssumption DEF Reason
  <1>8. record = cached[p] /\ cached[p].inv = inv[p] /\ cached[p].owner = p
    BY <1>5, <1>6, <1>7 DEF Holds, Begun
  <1>9. gone[p] = {} /\ bridge[p].cancel = None
    BY <1>3, <1>4, <1>5, LiveMeans
  <1> QED BY <1>3, <1>4, <1>5, <1>8, <1>9

\* An eligible receipt is published only by the live owner of a completed
\* invocation, in the very step that repeats the checks.
THEOREM EligibleWhileLive == Spec => EligibleIsLive
  <1> DEFINE A == \A k \in DOMAIN ledger' \ DOMAIN ledger : ledger'[k].event = "eligible" =>
                    /\ record # None /\ record.inv = ledger'[k].inv /\ record.reason = "completed"
                    /\ \E p \in Panel : /\ record.owner = p /\ At(p, "pass")
                                        /\ gone[p] = {} /\ bridge[p].cancel = None
  <1>1. Inductive /\ [Next]_vars => [A]_vars
    <2>1. SUFFICES ASSUME Inductive, Next PROVE A
      OBVIOUS
    <2>2. PICK p \in Panel : Publishes(p) \/ Files(p) \/ Quiet(p)
      BY <2>1, Steps
    <2> QED BY <2>1, <2>2, EligibleStep
  <1>2. Spec => [][A]_vars
    BY <1>1, Invariant, PTL DEF Spec
  <1> QED BY <1>2 DEF EligibleIsLive

\* Who writes a reason over a reason: nobody, once it is a failure.
LEMMA FailureStep ==
  ASSUME Inductive, NEW p \in Panel, Publishes(p) \/ Files(p) \/ Quiet(p),
         record # None, record.reason \notin {None, "completed"}, record'.inv = record.inv
  PROVE  record'.reason = record.reason
  <1> USE DEF Inductive
  <1>0. record \in Pending /\ record.inv \in used
    BY CopyKinds DEF TypeOK, Records, Backed
  <1>1. CASE Publishes(p) \/ Quiet(p)
    <2>1. record' = record
      BY <1>1, QuietKeeps DEF Publishes, Repair, Opened, Dropped, Omitted, Broken, Enter, Pass, Fail,
                              Withdraw, Decided
    <2> QED BY <2>1
  <1>2. CASE Start(p) \/ RecoverChrome(p)
    BY <1>2 DEF Start, RecoverChrome, Recovered
  <1>3. CASE Begin(p)
    <2>1. ~ Beginning(p)
      BY <1>0, BeginsShared
    <2> QED BY <1>3, <2>1 DEF Begin, Beginning, shared
  <1>4. ASSUME NEW w \in Reason \cup {None}, Finishes(p, w), record' = [record EXCEPT !.reason = w]
        PROVE  record'.reason = record.reason
    <2>1. w = record.reason
      BY <1>4 DEF Finishes
    <2>2. record'.reason = w
      BY <1>0, <1>4, AnotherReason
    <2> QED BY <2>1, <2>2
  <1>5. CASE Finish(p)
    <2> DEFINE r == Otherwise(bridge[p].reason, "completed")
    <2>1. r \in Reason \cup {None}
      BY ReasonTypes DEF Otherwise, BridgeState, Reason
    <2>2. \/ Finishes(p, r) /\ record' = [record EXCEPT !.reason = r]
          \/ record' = record
      BY <1>5 DEF Finish
    <2> HIDE DEF r
    <2> QED BY <1>4, <2>1, <2>2
  <1>6. CASE Supersede(p)
    <2>1. \/ Finishes(p, why[p]) /\ record' = [record EXCEPT !.reason = why[p]]
          \/ record' = record
      BY <1>6 DEF Supersede
    <2>2. why[p] \in Reason \cup {None}
      BY DEF TypeOK
    <2> QED BY <1>4, <2>1, <2>2
  <1>7. CASE Mark(p)
    <2> DEFINE k == VerdictOf(ledger, cached[p].review)
    <2>1. record' = [record EXCEPT !.receipted = k] \/ record' = record
      BY <1>7 DEF Mark
    <2>2. k \in Nat
      BY VerdictTypes DEF TypeOK
    <2> HIDE DEF k
    <2> QED BY <1>0, <2>1, <2>2, AnotherMark
  <1> QED BY <1>1, <1>2, <1>3, <1>5, <1>6, <1>7 DEF Files

\* A failure in the pending file stays: finish and supersede may only fail a
\* completion, recovery only an invocation without a reason.
THEOREM FailureStays == Spec => FailureIsFinal
  <1> DEFINE A == /\ record # None /\ record.reason \notin {None, "completed"}
                  /\ record'.inv = record.inv
                  => record'.reason = record.reason
  <1>1. Inductive /\ [Next]_vars => [A]_vars
    <2>1. SUFFICES ASSUME Inductive, Next PROVE A
      OBVIOUS
    <2>2. PICK p \in Panel : Publishes(p) \/ Files(p) \/ Quiet(p)
      BY <2>1, Steps
    <2> QED BY <2>1, <2>2, FailureStep
  <1>2. Spec => [][A]_vars
    BY <1>1, Invariant, PTL DEF Spec
  <1> QED BY <1>2 DEF FailureIsFinal
=============================================================================
