------------------------ MODULE ReviewCoordinatorProofs ------------------------
(***************************************************************************)
(* The review coordinator, and three parts of a review, each for every     *)
(* value of its constants.                                                 *)
(* Coordinator: what the panels write is legal, the user's, and agrees     *)
(* with the pin.  A process that acts on a review either knows its last    *)
(* receipt (Current) or comes with a Chrome artifact after another one was *)
(* published, which the ledger will refuse (Beaten); two processes that    *)
(* act on one review are apart in all stages but Chrome (Apart).  So what  *)
(* is appended is the next step of a history that the process knows whole. *)
(* Codex run (Codex!): the types, the gate of the prompt, and what a       *)
(* passed review has behind it.  A child that is not yet closed belongs to *)
(* the review under way, and what Close judged cannot change any more      *)
(* until the review has returned.                                          *)
(* Decision nonces (Nonces!): a nonce is consumed at most once, by the     *)
(* session that issued it and with the binding it was issued for; a spent  *)
(* nonce stays spent.                                                      *)
(* Chrome adapter (Adapter!): it settles once and leaves no session.       *)
(* Every action either settles through Terminal, finalizes, or leaves the  *)
(* settlement alone; TerminalSettles and the lemmas below say so once.     *)
(***************************************************************************)
EXTENDS ReviewCoordinator, CodexPromises, NoncePromises, AdapterPromises,
        SequenceTheorems, TLAPS

CONSTANTS Item, MaxSaid, MaxPipe,                    \* of the Codex run
          Session, Binding, None, Ttl, MaxReading,   \* of the nonces
          Deadline, MaxTime                          \* of the adapter
VARIABLES stage, life, read, cut, parser, os, attestation, finalized, held,
          record, time, recovered,
          inspecting, destroyed, now, timer

Codex   == INSTANCE CodexReview
Nonces  == INSTANCE DecisionNonces WITH now <- time, MaxTime <- MaxReading
Adapter == INSTANCE ChromeAdapter

(* Where a review is once the user has accepted it.                         *)
Accepted == {"human-accepted", "activating", "activated", "activation-failed",
             "rolling-back", "rolled-back"}

(* The chain: what Latest chooses is there, and every history is legal.     *)
IsLatest(S, e) ==
  \/ S = {} /\ e = "none"
  \/ \E i \in S : (\A j \in S : j <= i) /\ chain[i].event = e
Paths ==
  /\ \A r \in Nat : \E e \in Event \cup {"none"} : IsLatest(Of(r), e)
  /\ \A i \in DOMAIN chain :
       \E e \in Event \cup {"none"} : IsLatest(Before(i), e) /\ <<e, chain[i].event>> \in Steps

(* What a review's last receipt says of the earlier ones, and of its nonces. *)
Story(r) ==
  /\ \A e \in Terminal : Has(r, e) => LastOf(r) = e
  /\ LastOf(r) \in Accepted => Has(r, "human-accepted")
  /\ Has(r, "human-accepted") => LastOf(r) \in Accepted \cup {"custody-broken"}
  /\ ArtOf(r) # {} => LastOf(r) \notin Early \cup {"chrome-semantic-review"}
  /\ Has(r, "human-accepted") => <<r, "accept">> \in spent
  /\ <<r, "reject">> \in spent => LastOf(r) \in {"eligible", "rejected"}

(* The journal holds an accepted review whose activation is not settled,    *)
(* the pin an activated one; the last activation is the pin's, or the       *)
(* journal's, and what the journal holds is not activated before another.   *)
Pinned ==
  /\ pending # 0 => LastOf(pending) \in {"activating", "activated", "activation-failed",
                                         "rolling-back", "custody-broken"}
  /\ pending # 0 => Has(pending, "human-accepted")
  /\ pin # 0 => LastOf(pin) = "activated"
  /\ \A i \in DOMAIN chain : chain[i].event = "activated" =>
       /\ ~Overtaken(i) => chain[i].review \in {pin, pending}
       /\ chain[i].review = pending => ~Overtaken(i)

(* A process that may still publish a receipt of its review knows the last  *)
(* one, or has a Chrome artifact where another one was published.           *)
Publishing(q) == q.pc \in {"check", "append"}
Acts(q)    == q.pc # "halted" /\ (q.fresh \/ Publishing(q))
Current(q) == LastOf(q.review) = q.st
Beaten(q)  == q.st = "chrome-semantic-review" /\ ArtOf(q.review) # {} /\ q.life \notin ArtOf(q.review)
Knows(q)   == Acts(q) => q.review \in Review /\ (Current(q) \/ Beaten(q))
(* What a process is about to publish is a step of the table from the state *)
(* it knows, with the artifact and the nonce that go with it; an eligible   *)
(* review that it may still accept has not been refused.                    *)
Moves(q) ==
  /\ Publishing(q) =>
       /\ <<q.st, q.to>> \in Steps
       /\ q.st = "chrome-semantic-review" => q.art = q.life
       /\ q.st # "chrome-semantic-review" => q.art = 0
       /\ q.st \notin {"chrome-semantic-review", "eligible"} => q.fresh \/ resumes
       /\ q.st # "chrome-semantic-review" => q.init
       /\ q.to = "chrome-semantic-review" => q.fresh
       /\ q.to = "human-accepted" => <<q.review, "accept">> \in spent
       /\ q.to = "rolled-back" => pending # q.review
  /\ ~ Publishing(q) => q.art = 0
  /\ Acts(q) /\ q.st = "eligible" /\ ~ (Publishing(q) /\ q.to = "rejected") =>
       q.fresh /\ <<q.review, "reject">> \notin spent
(* Where a process can be with what it knows: a review of its own is fresh, *)
(* and only a launcher that resumes works on another's.                     *)
Ops(q) ==
  /\ q.op = "resume" => resumes
  /\ q.op = "rollback" => q.fresh \/ resumes
  /\ q.fresh => q.init
  /\ q.st = "chrome-semantic-review" => q.fresh \/ q.pc \in {"check", "append", "halted"}
  /\ q.pc = "idle" => q.op = "none"
  /\ q.pc \in {"integrity", "run"} => q.init
  /\ q.pc = "init" => ~ q.init
  /\ q.pc \in {"idle", "init"} /\ ~ q.init => q.st = "none"
  /\ q.pc = "off" <=> q.life = 0
  /\ q.pc = "off" => q = Off
  /\ q.life <= lives

(* Two processes act on one review only where one of them waits for Chrome. *)
Apart(q, y) ==
  /\ q.life = y.life => q.life = 0
  /\ Acts(q) /\ Acts(y) /\ q.review = y.review =>
       q.st = "chrome-semantic-review" \/ y.st = "chrome-semantic-review"
  /\ resumes => q.pc = "off" \/ y.pc = "off"

(* A process of a launcher that resumes is alone, and knows that every      *)
(* review but its own has ended; its own is one it began, one that has      *)
(* ended, or one that it is about to end.                                   *)
First(i) == i \in DOMAIN chain /\ Before(i) = {}
Mine(q) == \A i \in Of(q.review) : First(i) => chain[i].life = q.life
Resumed(q) ==
  /\ q.pc = "init" => q.op = "resume"
  /\ q.pc = "idle" \/ (q.op # "resume" /\ Publishing(q)) => q.init
  /\ q.pc \notin {"off", "init", "halted"} =>
       /\ Current(q)
       /\ \A r \in Reviews : r # q.review => LastOf(r) \in Terminal
       /\ q.fresh => Mine(q)
       /\ q.op \notin {"resume", "rollback"} => Over(q) \/ Mine(q)
Alone == resumes =>
  /\ \A r \in Reviews : r # chain[Len(chain)].review => LastOf(r) \in Terminal
  /\ \A p \in Panel : Resumed(proc[p])

(* The inductive invariant.                                                 *)
Panels == \A p \in Panel : Knows(proc[p]) /\ Moves(proc[p]) /\ Ops(proc[p])
Aparts == \A p, x \in Panel : p # x => Apart(proc[p], proc[x])
Stories == \A r \in Review : Story(r)
Inductive == TypeOK /\ Paths /\ Stories /\ Pinned /\ Panels /\ Aparts /\ Alone
-----------------------------------------------------------------------------
\* What comes last of some places is the greatest of them
LEMMA LatestIs ==
  ASSUME NEW S \in SUBSET Nat, NEW i \in S, \A j \in S : j <= i
  PROVE  Latest(S) = chain[i].event
<1>1. \A k \in S : (\A j \in S : j <= k) => k = i
  OBVIOUS
<1>2. (CHOOSE k \in S : \A j \in S : j <= k) = i
  BY <1>1
<1> QED BY <1>2 DEF Latest

\* What IsLatest says of some places is what Latest reads of them
LEMMA LatestSays ==
  ASSUME NEW S \in SUBSET Nat, NEW e, IsLatest(S, e)
  PROVE  Latest(S) = e
<1>1. CASE S = {} /\ e = "none"
  BY <1>1 DEF Latest
<1>2. ASSUME NEW i \in S, \A j \in S : j <= i, chain[i].event = e PROVE Latest(S) = e
  BY <1>2, LatestIs
<1> QED BY <1>1, <1>2 DEF IsLatest

\* The places of a review are places of the chain, and hold receipts
LEMMA Places == TypeOK => /\ DOMAIN chain = 1 .. Len(chain) /\ Len(chain) \in Nat
                          /\ \A r : Of(r) \in SUBSET Nat /\ Of(r) \subseteq DOMAIN chain
                          /\ \A i : Before(i) \in SUBSET Nat /\ Before(i) \subseteq DOMAIN chain
                          /\ \A i \in DOMAIN chain : chain[i] \in Receipt
  BY DEF TypeOK, Of, Before

\* What IsLatest says of S is what LastOf reads
LEMMA LastIs ==
  ASSUME TypeOK, NEW r, NEW e, IsLatest(Of(r), e)
  PROVE  LastOf(r) = e
  BY Places, LatestSays DEF LastOf

\* "none" is the last of no receipt, and of none else
LEMMA NoneIsNone ==
  ASSUME TypeOK, Paths, NEW r \in Nat
  PROVE  /\ LastOf(r) \in Event \cup {"none"}
         /\ IsLatest(Of(r), LastOf(r))
         /\ LastOf(r) = "none" <=> Of(r) = {}
         /\ r \in Reviews <=> Of(r) # {}
         /\ LastOf(r) # "none" => Has(r, LastOf(r)) /\ r \in Reviews /\ r \in Review
<1>1. PICK e \in Event \cup {"none"} : IsLatest(Of(r), e)
  BY DEF Paths
<1>2. LastOf(r) = e
  BY <1>1, LastIs
<1>3. \A i \in DOMAIN chain : chain[i].event \in Event /\ chain[i].review \in Review
  BY Places DEF Receipt
<1>4. Of(r) # {} => e # "none"
  BY <1>1, <1>3 DEF IsLatest, Of, Event, Early, Terminal
<1>5. Of(r) # {} => Has(r, e)
  BY <1>1 DEF IsLatest, Has
<1>6. r \in Reviews <=> Of(r) # {}
  BY DEF Reviews, Of
<1>7. Of(r) # {} => r \in Review
  BY <1>3 DEF Of
<1>8. Of(r) = {} => e = "none"
  BY <1>1 DEF IsLatest
<1> QED BY <1>1, <1>2, <1>4, <1>5, <1>6, <1>7, <1>8


\* What the table of transitions allows
LEMMA StepsAre ==
  ASSUME NEW a, NEW b, <<a, b>> \in Steps
  PROVE  /\ b \in Event /\ a \in Event \cup {"none"} /\ a \notin Terminal
         /\ b \in Early \cup {"chrome-semantic-review"} => a \in Early \cup {"none"}
         /\ a = "chrome-semantic-review" => b \in {"eligible", "review-failed", "custody-broken"}
         /\ b \in {"human-accepted", "rejected"} => a = "eligible"
         /\ a = "eligible" => b \in {"human-accepted", "rejected", "custody-broken"}
         /\ b \in Accepted /\ b # "human-accepted" => a \in Accepted
         /\ a \in Accepted => b \in Accepted \cup {"custody-broken"}
         /\ b \in Accepted /\ a \in Accepted => b # "human-accepted"
         /\ a \in {"activating", "activation-failed", "rolling-back"} =>
              b \in {"activated", "activation-failed", "rolling-back", "rolled-back", "custody-broken"}
         /\ b = "activated" => a = "activating"
         /\ b = "eligible" => a = "chrome-semantic-review"
         /\ b = "rolled-back" => a = "rolling-back"
  BY DEF Steps, Event, Early, Terminal, Accepted

\* A chain is longer by what is appended, and the same before it
LEMMA AppendIs ==
  ASSUME TypeOK, NEW x \in Receipt, chain' = Append(chain, x)
  PROVE  LET n == Len(chain) + 1 IN
         /\ n \notin DOMAIN chain /\ n \in Nat /\ Len(chain') = n
         /\ DOMAIN chain' = DOMAIN chain \cup {n} /\ chain'[n] = x
         /\ \A i \in DOMAIN chain : chain'[i] = chain[i] /\ i < n /\ i \in Nat
  BY DEF TypeOK

\* A receipt is the last of its review and leaves the others as they are.
LEMMA AppendLast ==
  ASSUME TypeOK, Paths, NEW x \in Receipt, chain' = Append(chain, x)
  PROVE  /\ \A r \in Nat : r # x.review =>
               /\ IsLatest(Of(r), LastOf(r))' /\ LastOf(r)' = LastOf(r) /\ ArtOf(r)' = ArtOf(r)
               /\ Of(r)' = Of(r)
               /\ \A e : Has(r, e)' <=> Has(r, e)
         /\ LET r == x.review IN
               /\ IsLatest(Of(r), x.event)' /\ LastOf(r)' = x.event
               /\ ArtOf(r)' = ArtOf(r) \cup ({x.art} \ {0})
               /\ Of(r)' = Of(r) \cup {Len(chain) + 1}
               /\ \A e : Has(r, e)' <=> Has(r, e) \/ e = x.event
         /\ Reviews' = Reviews \cup {x.review}
         /\ \A i \in DOMAIN chain : Before(i)' = Before(i)
         /\ \A n : n = Len(chain) + 1 => Before(n)' = Of(x.review)
<1>. PICK n : n = Len(chain) + 1
  OBVIOUS
<1>1. /\ n \notin DOMAIN chain /\ n \in Nat /\ DOMAIN chain' = DOMAIN chain \cup {n}
      /\ chain'[n] = x
      /\ \A i \in DOMAIN chain : chain'[i] = chain[i] /\ i < n /\ i \in Nat
  BY AppendIs
<1>2. \A r : Of(r)' = IF r = x.review THEN Of(r) \cup {n} ELSE Of(r)
  BY <1>1 DEF Of
<1>3. \A i \in DOMAIN chain : Before(i)' = Before(i)
  BY <1>1, <1>2 DEF Before
<1>4. Before(n)' = Of(x.review)
  <2>1. Before(n)' = {j \in Of(x.review)' : j < n}
    BY <1>1 DEF Before, Of
  <2>2. Of(x.review) \subseteq DOMAIN chain
    BY DEF Of
  <2>3. Of(x.review)' = Of(x.review) \cup {n}
    BY <1>2
  <2>4. \A j \in Of(x.review) : j < n
    BY <1>1, <2>2
  <2>5. ~ (n < n)
    BY <1>1
  <2> QED BY <2>1, <2>3, <2>4, <2>5
<1>5. \A r : Of(r) \subseteq DOMAIN chain
  BY DEF Of
<1>6. ASSUME NEW r \in Nat, r # x.review
      PROVE  /\ IsLatest(Of(r), LastOf(r))' /\ LastOf(r)' = LastOf(r)
  <2>1. IsLatest(Of(r), LastOf(r))
    BY NoneIsNone
  <2>2. Of(r)' = Of(r) /\ Of(r) \subseteq DOMAIN chain
    BY <1>2, <1>5, <1>6
  <2>3. LastOf(r)' = LastOf(r)
    <3>1. CASE Of(r) = {}
      BY <2>2, <3>1 DEF LastOf, Latest
    <3>2. CASE Of(r) # {}
      <4>1. PICK i \in Of(r) : \A j \in Of(r) : j <= i
        BY <2>1, <3>2 DEF IsLatest
      <4>2. (CHOOSE k \in Of(r) : \A j \in Of(r) : j <= k) \in Of(r)
        BY <4>1
      <4>3. LastOf(r)' = chain'[CHOOSE k \in Of(r) : \A j \in Of(r) : j <= k].event
        BY <2>2, <3>2 DEF LastOf, Latest
      <4>4. LastOf(r) = chain[CHOOSE k \in Of(r) : \A j \in Of(r) : j <= k].event
        BY <3>2 DEF LastOf, Latest
      <4> QED BY <4>2, <4>3, <4>4, <1>1, <2>2
    <3> QED BY <3>1, <3>2
  <2>4. IsLatest(Of(r), LastOf(r))'
    <3>1. CASE Of(r) = {}
      BY <2>1, <2>2, <2>3, <3>1 DEF IsLatest
    <3>2. CASE Of(r) # {}
      <4>1. PICK i \in Of(r) : (\A j \in Of(r) : j <= i) /\ chain[i].event = LastOf(r)
        BY <2>1, <3>2 DEF IsLatest
      <4>2. chain'[i].event = LastOf(r)' /\ i \in Of(r)' /\ \A j \in Of(r)' : j <= i
        BY <4>1, <2>2, <2>3, <1>1
      <4> QED BY <4>2 DEF IsLatest
    <3> QED BY <3>1, <3>2
  <2> QED BY <2>3, <2>4
<1>7. \A r : r # x.review => ArtOf(r)' = ArtOf(r) /\ \A e : Has(r, e)' <=> Has(r, e)
  BY <1>1, <1>2, <1>5 DEF ArtOf, Has
<1>8. /\ ArtOf(x.review)' = ArtOf(x.review) \cup ({x.art} \ {0})
      /\ \A e : Has(x.review, e)' <=> Has(x.review, e) \/ e = x.event
  BY <1>1, <1>2, <1>5 DEF ArtOf, Has
<1>9. IsLatest(Of(x.review), x.event)' /\ LastOf(x.review)' = x.event
  <2>1. n \in Of(x.review)' /\ Of(x.review)' \in SUBSET Nat
    BY <1>1, <1>2, <1>5
  <2>2. \A j \in Of(x.review)' : j <= n
    BY <1>1, <1>2, <1>5
  <2>3. (Latest(Of(x.review)))' = x.event
    <3>1. \A k \in Of(x.review)' : (\A j \in Of(x.review)' : j <= k) => k = n
      BY <2>1, <2>2
    <3>2. (CHOOSE k \in Of(x.review)' : \A j \in Of(x.review)' : j <= k) = n
      BY <2>1, <2>2, <3>1
    <3> QED BY <1>1, <2>1, <3>2 DEF Latest
  <2>4. IsLatest(Of(x.review), x.event)'
    BY <1>1, <2>1, <2>2 DEF IsLatest
  <2> QED BY <2>3, <2>4 DEF LastOf
<1>10. Reviews' = Reviews \cup {x.review}
  BY <1>1 DEF Reviews
<1> QED BY <1>2, <1>3, <1>4, <1>6, <1>7, <1>8, <1>9, <1>10

\* A legal next receipt keeps the histories legal
LEMMA AppendPaths ==
  ASSUME TypeOK, Paths, NEW x \in Receipt, chain' = Append(chain, x),
         <<LastOf(x.review), x.event>> \in Steps
  PROVE  Paths'
<1>. PICK n : n = Len(chain) + 1
  OBVIOUS
<1>1. /\ n \notin DOMAIN chain /\ n \in Nat /\ DOMAIN chain' = DOMAIN chain \cup {n}
      /\ chain'[n] = x
      /\ \A i \in DOMAIN chain : chain'[i] = chain[i] /\ i < n /\ i \in Nat
  BY AppendIs
<1>2. x.review \in Nat /\ x.event \in Event
  BY DEF Receipt, Review
<1>3. \A r \in Nat : \E e \in Event \cup {"none"} : IsLatest(Of(r), e)'
  <2> TAKE r \in Nat
  <2>1. CASE r = x.review
    BY <1>2, <2>1, AppendLast
  <2>2. CASE r # x.review
    BY <2>2, AppendLast, NoneIsNone
  <2> QED BY <2>1, <2>2
<1>4. ASSUME NEW i \in DOMAIN chain
      PROVE  \E e \in Event \cup {"none"} :
               IsLatest(Before(i), e)' /\ <<e, chain'[i].event>> \in Steps
  <2>1. PICK e \in Event \cup {"none"} : IsLatest(Before(i), e) /\ <<e, chain[i].event>> \in Steps
    BY DEF Paths
  <2>2. Before(i)' = Before(i) /\ Before(i) \subseteq DOMAIN chain
    BY AppendLast DEF Before, Of
  <2>3. IsLatest(Before(i), e)'
    BY <1>1, <2>1, <2>2 DEF IsLatest
  <2> QED BY <1>1, <2>1, <2>3
<1>5. \A e : e = LastOf(x.review) => IsLatest(Before(n), e)'
  <2>1. IsLatest(Of(x.review), LastOf(x.review)) /\ Of(x.review) \subseteq DOMAIN chain
    BY <1>2, NoneIsNone DEF Of
  <2>2. Before(n)' = Of(x.review)
    BY AppendLast
  <2> QED
    BY <1>1, <2>1, <2>2 DEF IsLatest
<1> QED
  BY <1>1, <1>2, <1>3, <1>4, <1>5, NoneIsNone DEF Paths

\* While the chain stays, so does all that is read from it.
LEMMA SameChain ==
  ASSUME chain' = chain
  PROVE  /\ \A r : LastOf(r)' = LastOf(r) /\ ArtOf(r)' = ArtOf(r) /\ Of(r)' = Of(r)
         /\ \A r, e : Has(r, e)' <=> Has(r, e)
         /\ \A i : Before(i)' = Before(i) /\ (First(i)' <=> First(i))
         /\ Reviews' = Reviews
         /\ \A i : Overtaken(i)' <=> Overtaken(i)
         /\ \A q : (Knows(q)' <=> Knows(q)) /\ (Current(q)' <=> Current(q))
                   /\ (Mine(q)' <=> Mine(q))
         /\ Paths => Paths'
<1>1. /\ \A r : Of(r)' = Of(r)
      /\ \A S : Latest(S)' = Latest(S)
  BY DEF Of, Latest
<1>2. \A r : LastOf(r)' = LastOf(r) /\ ArtOf(r)' = ArtOf(r)
  BY <1>1 DEF LastOf, ArtOf
<1>3. \A r, e : Has(r, e)' <=> Has(r, e)
  BY <1>1 DEF Has
<1>4. \A i : Before(i)' = Before(i)
  BY <1>1 DEF Before
<1>5. \A i : First(i)' <=> First(i)
  BY <1>4 DEF First
<1>6. \A q : (Knows(q)' <=> Knows(q)) /\ (Current(q)' <=> Current(q))
  BY <1>2 DEF Knows, Current, Beaten
<1>7. \A q : Mine(q)' <=> Mine(q)
  BY <1>1, <1>5 DEF Mine
<1>8. Paths => Paths'
  BY <1>1, <1>4 DEF Paths, IsLatest
<1>9. Reviews' = Reviews
  BY DEF Reviews
<1>10. \A i : Overtaken(i)' <=> Overtaken(i)
  BY DEF Overtaken
<1> QED BY <1>1, <1>2, <1>3, <1>4, <1>5, <1>6, <1>7, <1>8, <1>9, <1>10

\* So does what is known of a process of a resuming launcher
LEMMA SameResumed ==
  ASSUME chain' = chain, NEW q
  PROVE  Resumed(q)' <=> Resumed(q)
<1>1. Over(q)' <=> Over(q)
  BY DEF Over
<1> QED
  BY <1>1, SameChain DEF Resumed

\* One process takes a step and the chain stays: what is to be shown.
LEMMA Step ==
  ASSUME Inductive, NEW p \in Panel, NEW q \in Process,
         proc' = [proc EXCEPT ![p] = q], chain' = chain, resumes' = resumes, lives <= lives',
         TypeOK', Stories', Pinned',
         \A x \in Panel \ {p} : \A y \in Process : y = proc[x] => Moves(y)' /\ Apart(q, y),
         Knows(q), Moves(q)', Ops(q)', resumes => Resumed(q)
  PROVE  Inductive'
<1>1. /\ proc \in [Panel -> Process] /\ proc'[p] = q
      /\ \A x \in Panel \ {p} : proc'[x] = proc[x]
      /\ lives \in Nat /\ lives' \in Nat /\ \A x \in Panel : proc[x].life \in Nat
  BY CoordinatorAssumption DEF Inductive, TypeOK, Process
<1>2. Paths'
  BY SameChain DEF Inductive
<1>3. ASSUME NEW x \in Panel PROVE (Knows(proc[x]) /\ Moves(proc[x]) /\ Ops(proc[x]))'
  <2>1. CASE x = p
    <3>1. proc'[x] = q
      BY <1>1, <2>1
    <3>2. Knows(q)'
      BY SameChain
    <3> QED BY <3>1, <3>2 DEF Knows, Moves, Ops, Current, Beaten
  <2>2. CASE x # p
    <3>1. PICK y \in Process : y = proc[x]
      BY <1>1
    <3>2. Knows(y) /\ Ops(y)
      BY <3>1 DEF Inductive, Panels
    <3>3. Knows(y)' /\ Moves(y)'
      BY <2>2, <3>1, <3>2, SameChain
    <3>4. Ops(y)'
      BY <1>1, <3>1, <3>2 DEF Ops
    <3>5. proc'[x] = y
      BY <1>1, <2>2, <3>1
    <3> QED BY <3>3, <3>4, <3>5 DEF Knows, Moves, Ops, Current, Beaten
  <2> QED BY <2>1, <2>2
<1>4. Aparts'
  <2>1. \A x, z \in Panel : x # z => Apart(proc[x], proc[z])
    BY DEF Inductive, Aparts
  <2>2. \A x \in Panel \ {p} : Apart(q, proc[x])
    BY <1>1
  <2>3. \A y, z : Apart(y, z) <=> Apart(z, y)
    BY DEF Apart
  <2>4. \A y, z : Apart(y, z)' <=> Apart(y, z)
    BY DEF Apart
  <2>5. \A x, z \in Panel : x # z => Apart(proc'[x], proc'[z])
    BY <1>1, <2>1, <2>2, <2>3
  <2> QED BY <2>5 DEF Aparts, Apart
<1>5. Alone'
  <2> SUFFICES ASSUME resumes PROVE Alone'
    BY DEF Alone
  <2>1. \A x \in Panel : Resumed(proc'[x])
    BY <1>1 DEF Inductive, Alone
  <2>2. \A x \in Panel : Resumed(proc[x])'
    <3> TAKE x \in Panel
    <3>1. PICK y : y = proc'[x]
      OBVIOUS
    <3>2. Resumed(y)'
      BY <2>1, <3>1, SameResumed
    <3> QED BY <3>1, <3>2 DEF Resumed, Current, Mine, Over
  <2>3. \A r \in Reviews' : r # chain'[Len(chain')].review => LastOf(r)' \in Terminal
    BY SameChain DEF Inductive, Alone
  <2> QED BY <2>2, <2>3 DEF Alone
<1> QED BY <1>2, <1>3, <1>4, <1>5 DEF Inductive, Panels

\* The same when only the process changes.
LEMMA Local ==
  ASSUME Inductive, NEW p \in Panel, NEW q \in Process,
         proc' = [proc EXCEPT ![p] = q],
         UNCHANGED <<chain, spent, pin, pending, resumes, lives>>, faults' \in 0 .. MaxFault,
         \A x \in Panel \ {p} : Apart(q, proc[x]),
         Knows(q), Moves(q), Ops(q), resumes => Resumed(q)
  PROVE  Inductive'
<1>1. TypeOK'
  BY DEF Inductive, TypeOK
<1>2. Stories' /\ Pinned'
  BY SameChain DEF Inductive, Stories, Story, Pinned
<1>3. \A y \in Process : (Moves(y)' <=> Moves(y)) /\ (Ops(y)' <=> Ops(y))
  BY DEF Moves, Ops
<1>4. \A x \in Panel \ {p} : Moves(proc[x])
  BY DEF Inductive, Panels
<1>5. lives <= lives'
  BY DEF Inductive, TypeOK
<1> QED BY <1>1, <1>2, <1>3, <1>4, <1>5, Step

\* What is known of one process, and of the others when a launcher resumes
LEMMA ProcessIs ==
  ASSUME Inductive, NEW p \in Panel
  PROVE  /\ proc[p] \in Process /\ Knows(proc[p]) /\ Moves(proc[p]) /\ Ops(proc[p])
         /\ resumes => Resumed(proc[p])
         /\ \A x \in Panel \ {p} :
              /\ proc[x] \in Process /\ Apart(proc[p], proc[x]) /\ Ops(proc[x])
              /\ resumes /\ proc[p].pc # "off" => proc[x] = Off
<1>1. proc[p] \in Process /\ \A x \in Panel : proc[x] \in Process
  BY DEF Inductive, TypeOK
<1>2. \A x \in Panel \ {p} : Apart(proc[p], proc[x]) /\ Ops(proc[x])
  BY DEF Inductive, Aparts, Panels
<1>3. \A x \in Panel \ {p} : resumes /\ proc[p].pc # "off" => proc[x] = Off
  BY <1>2 DEF Apart, Ops
<1> QED BY <1>1, <1>2, <1>3 DEF Inductive, Panels, Alone

\* A process goes on with its review as it knows it, or stops.
LEMMA Continue ==
  ASSUME Inductive, NEW p \in Panel, NEW q \in Process, NEW o, o = proc[p],
         proc' = [proc EXCEPT ![p] = q],
         UNCHANGED <<chain, spent, pin, pending, resumes, lives>>, faults' \in 0 .. MaxFault,
         o.pc # "off", q.pc # "off", q.life = o.life, q.review = o.review, q.st = o.st,
         q.init = o.init, q.fresh => o.fresh,
         Acts(q) => Acts(o) \/ (resumes /\ o.pc \notin {"init", "halted"} /\ o.st # "none"),
         Moves(q),
         q.op = "resume" => o.op = "resume",
         q.op = "rollback" => q.fresh \/ resumes, q.pc = "idle" => q.op = "none",
         q.pc \in {"integrity", "run"} => q.init, q.pc = "init" => ~ q.init,
         q.pc \in {"idle", "init"} /\ ~ q.init => q.st = "none",
         q.st = "chrome-semantic-review" => q.fresh \/ q.pc \in {"check", "append", "halted"},
         resumes /\ q.pc # "halted" =>
           /\ q.pc = "init" => q.op = "resume"
           /\ q.pc = "idle" \/ (q.op # "resume" /\ Publishing(q)) => q.init
           /\ o.pc \notin {"init", "halted"}
           /\ q.op \notin {"resume", "rollback"} =>
                o.op \notin {"resume", "rollback"} \/ Over(q) \/ Mine(q)
  PROVE  Inductive'
<1>1. /\ o \in Process /\ Knows(o) /\ Moves(o) /\ Ops(o) /\ (resumes => Resumed(o))
      /\ \A x \in Panel \ {p} :
           /\ proc[x] \in Process /\ Apart(o, proc[x])
           /\ resumes => proc[x] = Off
  BY ProcessIs
<1>2. /\ (Current(q) <=> Current(o)) /\ (Beaten(q) <=> Beaten(o)) /\ (Mine(q) <=> Mine(o))
      /\ (Over(q) <=> Over(o))
  BY DEF Current, Beaten, Mine, Over
<1>3. Ops(q)
  BY <1>1 DEF Ops
<1>4. resumes => Resumed(q)
  BY <1>1, <1>2 DEF Resumed, Publishing
<1>5. \A x \in Panel \ {p} : Apart(q, proc[x])
  <2> SUFFICES ASSUME NEW x \in Panel \ {p} PROVE Apart(q, proc[x])
    OBVIOUS
  <2>1. CASE resumes
    <3>1. proc[x] = Off
      BY <1>1, <2>1
    <3>2. ~ Acts(Off) /\ Off.pc = "off" /\ Off.life = 0
      BY DEF Off, Acts, Publishing
    <3> QED BY <3>1, <3>2 DEF Apart
  <2>2. CASE ~ resumes
    BY <1>1, <2>2 DEF Apart
  <2> QED BY <2>1, <2>2
<1>6. Knows(q)
  <2>1. CASE Acts(o)
    BY <1>1, <1>2, <2>1 DEF Knows
  <2>2. CASE resumes /\ o.pc \notin {"init", "halted"} /\ o.st # "none"
    <3>1. Current(o)
      BY <1>1, <2>2 DEF Resumed
    <3>2. o.review \in Nat
      BY <1>1, CoordinatorAssumption DEF Process
    <3>3. o.review \in Review
      BY <2>2, <3>1, <3>2, NoneIsNone DEF Current, Inductive
    <3> QED BY <1>2, <3>1, <3>3 DEF Knows
  <2> QED BY <2>1, <2>2 DEF Knows
<1> QED BY <1>3, <1>4, <1>5, <1>6, Local

\* Two processes that know the same of the same review
Alike(q, o) == /\ q.life = o.life /\ q.review = o.review /\ q.st = o.st /\ q.init = o.init
               /\ q.fresh = o.fresh

\* A call that returned leaves the process what it knows
LEMMA EndedIs ==
  ASSUME NEW o \in Process
  PROVE  LET q == Ended(o) IN
         q \in Process /\ q.pc = "idle" /\ q.op = "none" /\ q.art = 0 /\ Alike(q, o)
<1>1. 0 \in Artifact
  BY CoordinatorAssumption DEF Artifact
<1> QED BY <1>1 DEF Ended, Process, Alike

\* So does a halt
LEMMA HaltedIs ==
  ASSUME NEW o \in Process
  PROVE  LET q == Halted(o) IN
         q \in Process /\ q.pc = "halted" /\ q.op = "none" /\ q.art = 0 /\ Alike(q, o)
<1>1. 0 \in Artifact
  BY CoordinatorAssumption DEF Artifact
<1> QED BY <1>1 DEF Halted, Ended, Process, Alike

\* So does the first step of #move
LEMMA MovingIs ==
  ASSUME NEW o \in Process, NEW to \in Event
  PROVE  LET q == Moving(o, to) IN
         q \in Process /\ q.pc = "check" /\ q.to = to /\ q.op = o.op /\ q.art = o.art /\ Alike(q, o)
  BY DEF Moving, Process, Alike

\* The process halts: it does not act any more.
LEMMA Halts ==
  ASSUME Inductive, NEW p \in Panel, NEW q \in Process, proc[p].pc # "off",
         proc' = [proc EXCEPT ![p] = q],
         q.pc = "halted", q.op = "none", q.art = 0, Alike(q, proc[p]),
         UNCHANGED <<chain, spent, pin, pending, resumes, lives>>, faults' \in 0 .. MaxFault
  PROVE  Inductive'
<1>1. ~ Acts(q) /\ ~ Publishing(q)
  BY DEF Acts, Publishing
<1>2. Moves(q)
  BY <1>1 DEF Moves
<1> QED BY <1>1, <1>2, Continue DEF Alike

\* The call returns: the process rests with what it knows.
LEMMA Ends ==
  ASSUME Inductive, NEW p \in Panel, NEW q \in Process,
         proc[p].pc = "run",
         proc' = [proc EXCEPT ![p] = q],
         q.pc = "idle", q.op = "none", q.art = 0,
         q.life = proc[p].life, q.review = proc[p].review, q.st = proc[p].st,
         q.init = proc[p].init, q.fresh => proc[p].fresh,
         q.fresh \/ ~ proc[p].fresh \/ q.st # "chrome-semantic-review",
         proc[p].op \in {"resume", "rollback"} => Over(proc[p]) \/ proc[p].fresh,
         UNCHANGED <<chain, spent, pin, pending, resumes, lives>>, faults' \in 0 .. MaxFault
  PROVE  Inductive'
<1>1. /\ Moves(proc[p]) /\ Ops(proc[p]) /\ (resumes => Resumed(proc[p]))
  BY ProcessIs
<1>2. ~ Publishing(q) /\ (Acts(q) => Acts(proc[p])) /\ ~ Publishing(proc[p])
  BY DEF Acts, Publishing
<1>3. Moves(q)
  BY <1>1, <1>2 DEF Moves, Acts
<1>4. proc[p].init /\ (resumes => (proc[p].fresh => Mine(q)))
  BY <1>1 DEF Resumed, Mine, Ops
<1>5. Over(proc[p]) => Over(q)
  BY DEF Over
<1>6. q.st = "chrome-semantic-review" => q.fresh
  BY <1>1 DEF Ops
<1> QED BY <1>6, <1>1, <1>2, <1>3, <1>4, <1>5, Continue

\* A dead process knows nothing, and claims nothing.
LEMMA DieStep == ASSUME Inductive, NEW p \in Panel, Die(p) PROVE Inductive'
<1>1. Off \in Process
  BY CoordinatorAssumption DEF Off, Process, Artifact
<1>2. ~ Acts(Off) /\ ~ Publishing(Off) /\ Off.pc = "off" /\ Off.life = 0 /\ Off.op = "none"
      /\ Off.art = 0 /\ Off.fresh = FALSE
  BY DEF Off, Acts, Publishing
<1>3. Knows(Off) /\ Moves(Off) /\ Resumed(Off)
  BY <1>2 DEF Knows, Moves, Resumed, Publishing
<1>4. Ops(Off)
  BY <1>2, CoordinatorAssumption DEF Ops, Inductive, TypeOK, Off
<1>5. \A x \in Panel \ {p} : Apart(Off, proc[x])
  BY <1>2 DEF Apart
<1>6. faults' \in 0 .. MaxFault
  BY DEF Die, Shared, Inductive, TypeOK
<1> QED BY <1>1, <1>3, <1>4, <1>5, <1>6, Local DEF Die, Set, Shared

\* An I/O fault halts.
LEMMA FaultStep == ASSUME Inductive, NEW p \in Panel, Fault(p) PROVE Inductive'
<1>1. proc[p] \in Process /\ faults' \in 0 .. MaxFault
  BY CoordinatorAssumption DEF Fault, Inductive, TypeOK
<1> QED BY <1>1, HaltedIs, Halts DEF Fault, Set

\* A call begins with #initialize or #integrity.
LEMMA CallStep ==
  ASSUME Inductive, NEW p \in Panel, NEW op \in {"status", "start", "accept", "reject"},
         Call(p, op)
  PROVE  Inductive'
<1>1. proc[p] \in Process /\ Moves(proc[p]) /\ Ops(proc[p]) /\ (resumes => Resumed(proc[p]))
  BY ProcessIs
<1>2. PICK q : q = [proc[p] EXCEPT !.op = op, !.pc = IF proc[p].init THEN "integrity" ELSE "init"]
  OBVIOUS
<1>3. /\ q \in Process /\ q.op = op /\ q.pc = (IF proc[p].init THEN "integrity" ELSE "init")
      /\ q.art = proc[p].art /\ Alike(q, proc[p])
  BY <1>1, <1>2 DEF Process, Alike
<1>4. proc[p].pc = "idle" /\ proc' = [proc EXCEPT ![p] = q] /\ Shared
  BY <1>2 DEF Call, At, Set
<1>5. ~ Publishing(q) /\ ~ Publishing(proc[p]) /\ (Acts(q) => Acts(proc[p]))
  BY <1>3, <1>4 DEF Publishing, Acts, Alike
<1>6. Moves(q)
  BY <1>1, <1>3, <1>5 DEF Moves, Alike
<1>7. /\ proc[p].op = "none" /\ (q.st = "chrome-semantic-review" => q.fresh)
      /\ (~ proc[p].init => proc[p].st = "none")
      /\ resumes => proc[p].init /\ q.pc = "integrity"
  BY <1>1, <1>3, <1>4 DEF Resumed, Ops, Alike
<1>8. faults' \in 0 .. MaxFault
  BY <1>4 DEF Shared, Inductive, TypeOK
<1> QED BY <1>3, <1>4, <1>5, <1>6, <1>7, <1>8, Continue DEF Shared, Alike

\* The last receipt of the chain is the last of its review.
LEMMA LastReceipt ==
  ASSUME TypeOK, Paths, chain # <<>>
  PROVE  LET x == chain[Len(chain)] IN
         /\ x.review \in Review /\ x.event \in Event /\ x.review \in Reviews
         /\ LastOf(x.review) = x.event
<1> DEFINE n == Len(chain)
<1>1. n \in DOMAIN chain /\ chain[n] \in Receipt /\ \A i \in DOMAIN chain : i <= n /\ i \in Nat
  BY DEF TypeOK
<1>2. n \in Of(chain[n].review) /\ Of(chain[n].review) \in SUBSET Nat
      /\ \A i \in Of(chain[n].review) : i <= n
  BY <1>1 DEF Of
<1>3. LastOf(chain[n].review) = chain[n].event
  BY <1>2, LatestIs, Zenon DEF LastOf
<1> QED BY <1>1, <1>3 DEF Receipt, Reviews

\* The chain is as long as it was, or the process halts.
LEMMA AgreesStep ==
  ASSUME Inductive, NEW p \in Panel, NEW pc \in {"run", "append"}, Agrees(p, pc), Shared,
         proc[p].pc = IF pc = "run" THEN "integrity" ELSE "check"
  PROVE  Inductive'
<1>1. proc[p] \in Process /\ Moves(proc[p]) /\ Ops(proc[p]) /\ (resumes => Resumed(proc[p]))
  BY ProcessIs
<1>2. faults' \in 0 .. MaxFault
  BY DEF Shared, Inductive, TypeOK
<1>3. CASE proc[p].tail # Len(chain)
  BY <1>1, <1>2, <1>3, HaltedIs, Halts DEF Agrees, Set, Shared
<1>4. CASE proc[p].tail = Len(chain)
  <2>1. PICK q : q = [proc[p] EXCEPT !.pc = pc]
    OBVIOUS
  <2>2. /\ q \in Process /\ q.pc = pc /\ q.op = proc[p].op /\ q.to = proc[p].to
        /\ q.art = proc[p].art /\ Alike(q, proc[p])
    BY <1>1, <2>1 DEF Process, Alike
  <2>3. /\ Publishing(q) <=> Publishing(proc[p])
        /\ Acts(q) <=> Acts(proc[p])
    BY <2>2 DEF Publishing, Acts, Alike
  <2>4. Moves(q)
    BY <1>1, <2>2, <2>3 DEF Moves, Alike
  <2>5. proc' = [proc EXCEPT ![p] = q]
    BY <1>4, <2>1 DEF Agrees, Set
  <2>6. q.op \in {"resume", "rollback"} => proc[p].op \in {"resume", "rollback"}
    BY <2>2
  <2>7. q.pc = "run" => q.init
    BY <1>1, <2>2 DEF Ops, Alike
  <2>8. resumes /\ q.op # "resume" /\ Publishing(q) => q.init
    BY <1>1, <2>2, <2>3 DEF Resumed, Alike
  <2>9. q.op = "rollback" => q.fresh \/ resumes
    BY <1>1, <2>2 DEF Ops, Alike
  <2>10. q.st = "chrome-semantic-review" => q.fresh \/ q.pc \in {"check", "append", "halted"}
    BY <1>1, <2>2 DEF Ops, Alike
  <2> QED BY <2>10, <1>2, <2>2, <2>3, <2>4, <2>5, <2>7, <2>8, <2>9, Continue DEF Shared, Alike
<1> QED BY <1>3, <1>4

\* #integrity before an operation, and once more within #move
LEMMA CheckStep ==
  ASSUME Inductive, NEW p \in Panel, Integrity(p) \/ Check(p)
  PROVE  Inductive'
  BY AgreesStep DEF Integrity, Check, At

\* A first look at the chain: the review of the last receipt is where it is.
LEMMA InitializeStep == ASSUME Inductive, NEW p \in Panel, Initialize(p) PROVE Inductive'
<1>1. PICK o : o = proc[p]
  OBVIOUS
<1>2. /\ o \in Process /\ Moves(o) /\ Ops(o) /\ (resumes => Resumed(o))
      /\ \A x \in Panel \ {p} : Apart(o, proc[x]) /\ (resumes => proc[x] = Off)
  BY <1>1, ProcessIs DEF Initialize, At
<1>3. o.pc = "init" /\ Shared /\ ~ o.init /\ ~ o.fresh /\ o.st = "none" /\ o.art = 0
      /\ faults' \in 0 .. MaxFault
  BY <1>1, <1>2 DEF Initialize, At, Ops, Moves, Publishing, Shared, Inductive, TypeOK
<1>4. PICK t : t = [o EXCEPT !.tail = Len(chain)]
  OBVIOUS
<1>5. t \in Process /\ t.pc = "init" /\ t.op = o.op /\ t.art = 0 /\ Alike(t, o)
  BY <1>2, <1>3, <1>4, Places DEF Process, Alike, Inductive
<1>6. proc' = [proc EXCEPT ![p] = Halted(t)] \/ proc' = [proc EXCEPT ![p] = Known(t)]
  BY <1>1, <1>4 DEF Initialize, Set
<1>7. CASE proc' = [proc EXCEPT ![p] = Halted(t)]
  <2>1. PICK q : q = Halted(t)
    OBVIOUS
  <2>2. q \in Process /\ q.pc = "halted" /\ q.op = "none" /\ q.art = 0 /\ Alike(q, t)
    BY <1>5, <2>1, HaltedIs
  <2>3. Alike(q, proc[p])
    BY <1>1, <1>5, <2>2 DEF Alike
  <2> QED BY <1>1, <1>3, <1>7, <2>1, <2>2, <2>3, Halts DEF Shared
<1>8. ASSUME chain # <<>>, NEW q \in Process, proc' = [proc EXCEPT ![p] = q],
             q.st = chain[Len(chain)].event, q.review = chain[Len(chain)].review,
             q.life = o.life, q.op = o.op, ~ q.fresh,
             \/ /\ Publishing(q) /\ q.st = "chrome-semantic-review"
                /\ q.to = "review-failed" /\ q.art = q.life
             \/ q.pc = "integrity" /\ q.init /\ q.art = 0 /\ q.st # "chrome-semantic-review"
      PROVE  Inductive'
  <2>1. q.review \in Review /\ Current(q)
    BY <1>8, LastReceipt DEF Inductive, Current
  <2>2. Knows(q)
    BY <2>1 DEF Knows
  <2>3. q.pc \notin {"off", "idle", "init", "halted"}
    BY <1>8 DEF Publishing
  <2>4. Moves(q)
    <3>1. <<"chrome-semantic-review", "review-failed">> \in Steps
      BY DEF Steps
    <3>2. CASE Publishing(q)
      BY <1>8, <2>3, <3>1, <3>2 DEF Moves, Publishing
    <3>3. CASE ~ Publishing(q)
      BY <1>8, <3>3 DEF Moves, Acts
    <3> QED BY <3>2, <3>3
  <2>5. Ops(q)
    BY <1>2, <1>3, <1>8, <2>3 DEF Ops, Publishing
  <2>6. resumes => Resumed(q)
    <3> SUFFICES ASSUME resumes PROVE Resumed(q)
      OBVIOUS
    <3>1. q.op = "resume"
      BY <1>2, <1>3, <1>8 DEF Resumed
    <3>2. \A r \in Reviews : r # q.review => LastOf(r) \in Terminal
      BY <1>8 DEF Inductive, Alone
    <3> QED BY <1>8, <2>1, <2>3, <3>1, <3>2 DEF Resumed
  <2>7. ASSUME NEW x \in Panel \ {p} PROVE Apart(q, proc[x])
    <3>1. Acts(q) => q.st = "chrome-semantic-review"
      BY <1>8 DEF Acts, Publishing
    <3> QED BY <1>2, <1>3, <1>8, <2>3, <2>7, <3>1 DEF Apart, Off
  <2> QED BY <1>3, <1>8, <2>2, <2>4, <2>5, <2>6, <2>7, Local DEF Shared
<1>9. CASE chain # <<>> /\ proc' = [proc EXCEPT ![p] = Known(t)]
  <2>1. chain[Len(chain)].event \in Event /\ chain[Len(chain)].review \in Review
    BY <1>9, LastReceipt DEF Inductive
  <2>2. chain[Len(chain)].event \in Event \cup {"none"} /\ chain[Len(chain)].review \in 0 .. MaxReview
    BY <2>1, CoordinatorAssumption DEF Review
  <2>3. CASE chain[Len(chain)].event = "chrome-semantic-review"
    <3>1. PICK m : m = Moving(t, "review-failed")
      OBVIOUS
    <3>2. m \in Process /\ m.pc = "check" /\ m.to = "review-failed" /\ m.op = o.op
          /\ m.life = o.life /\ ~ m.fresh
      BY <1>3, <1>5, <3>1, MovingIs DEF Event, Terminal, Alike
    <3>3. PICK q : q = [m EXCEPT !.art = t.life, !.st = chain[Len(chain)].event,
                                !.review = chain[Len(chain)].review]
      OBVIOUS
    <3>4. Known(t) = q
      BY <1>9, <2>3, <3>1, <3>3 DEF Known
    <3>5. t.life \in Artifact /\ t.life = o.life
      BY <1>5 DEF Process, Artifact, Alike
    <3>6. q \in Process
      BY <2>2, <3>2, <3>3, <3>5 DEF Process
    <3>7. /\ q.pc = "check" /\ q.to = "review-failed" /\ q.op = o.op /\ q.life = o.life /\ ~ q.fresh
          /\ q.art = q.life /\ q.st = chain[Len(chain)].event
          /\ q.review = chain[Len(chain)].review
      BY <3>2, <3>3, <3>5 DEF Process
    <3> QED BY <1>8, <1>9, <2>3, <3>4, <3>6, <3>7 DEF Publishing
  <2>4. CASE chain[Len(chain)].event # "chrome-semantic-review"
    <3>1. PICK q : q = [t EXCEPT !.pc = "integrity", !.init = TRUE, !.st = chain[Len(chain)].event,
                                !.review = chain[Len(chain)].review]
      OBVIOUS
    <3>2. Known(t) = q
      BY <1>9, <2>4, <3>1 DEF Known
    <3>3. q \in Process
      BY <1>5, <2>2, <3>1 DEF Process
    <3>4. /\ q.pc = "integrity" /\ q.init /\ q.op = o.op /\ q.life = o.life /\ ~ q.fresh
          /\ q.art = 0 /\ q.st = chain[Len(chain)].event
          /\ q.review = chain[Len(chain)].review
      BY <1>3, <1>5, <3>1 DEF Process, Alike
    <3> QED BY <1>8, <1>9, <2>4, <3>2, <3>3, <3>4
  <2> QED BY <2>3, <2>4
<1>10. CASE chain = <<>> /\ proc' = [proc EXCEPT ![p] = Known(t)]
  <2>1. PICK q : q = [t EXCEPT !.pc = "integrity", !.init = TRUE]
    OBVIOUS
  <2>2. Known(t) = q
    BY <1>10, <2>1 DEF Known
  <2>3. /\ q \in Process /\ q.pc = "integrity" /\ q.init /\ q.op = o.op /\ q.life = o.life
        /\ ~ q.fresh /\ q.art = 0 /\ q.st = "none" /\ q.review = o.review
    BY <1>3, <1>5, <2>1 DEF Process, Alike
  <2>4. ~ Acts(q) /\ ~ Publishing(q)
    BY <2>3 DEF Acts, Publishing
  <2>5. Knows(q) /\ Moves(q)
    BY <2>3, <2>4 DEF Knows, Moves
  <2>6. Ops(q)
    BY <1>2, <1>3, <2>3 DEF Ops
  <2>7. Reviews = {} /\ \A r : Of(r) = {}
    BY <1>10 DEF Reviews, Of
  <2>8. Current(q) /\ Over(q)
    BY <2>3, <2>7 DEF Current, LastOf, Latest, Over
  <2>9. resumes => Resumed(q)
    BY <1>2, <1>3, <2>3, <2>4, <2>7, <2>8 DEF Resumed
  <2>10. \A x \in Panel \ {p} : Apart(q, proc[x])
    BY <1>2, <1>3, <2>3, <2>4 DEF Apart, Off
  <2> QED BY <1>3, <1>10, <2>2, <2>3, <2>5, <2>6, <2>9, <2>10, Local DEF Shared
<1> QED BY <1>6, <1>7, <1>9, <1>10

\* A process sets out to publish the next receipt of its review.
LEMMA Sets ==
  ASSUME Inductive, NEW p \in Panel, NEW q \in Process, NEW o, o = proc[p],
         proc' = [proc EXCEPT ![p] = q],
         UNCHANGED <<chain, spent, pin, pending, resumes, lives>>, faults' \in 0 .. MaxFault,
         o.pc \in {"run", "append"}, o.fresh \/ resumes \/ o.pc = "append",
         q.pc = "check", q.life = o.life, q.review = o.review, q.st = o.st,
         q.init = o.init, q.fresh => o.fresh,
         q.op = o.op \/ (q.op = "rollback" /\ q.st # "chrome-semantic-review"),
         <<q.st, q.to>> \in Steps, q.st # "none",
         q.to = "chrome-semantic-review" => q.fresh,
         q.art = IF q.st = "chrome-semantic-review" THEN q.life ELSE 0,
         q.to = "human-accepted" => <<q.review, "accept">> \in spent,
         q.to = "rolled-back" => pending # q.review,
         q.st = "eligible" /\ q.to # "rejected" => q.fresh /\ <<q.review, "reject">> \notin spent,
         q.st \notin {"chrome-semantic-review", "eligible"} \/ q.op = "rollback" =>
           q.fresh \/ resumes
  PROVE  Inductive'
<1>1. /\ o \in Process /\ Knows(o) /\ Moves(o) /\ Ops(o) /\ (resumes => Resumed(o))
  BY ProcessIs
<1>2. Publishing(q) /\ (Publishing(o) <=> o.pc = "append")
  BY DEF Publishing
<1>3. Moves(q)
  <2>1. q.st # "chrome-semantic-review" => q.init
    BY <1>1, <1>2 DEF Moves, Ops
  <2> QED BY <1>2, <2>1 DEF Moves, Acts
<1>4. Acts(o) \/ resumes
  BY <1>2 DEF Acts
<1>5. resumes /\ q.op # "resume" => q.init
  BY <1>1, <1>2 DEF Resumed, Ops, Moves
<1>6. q.op = "resume" => o.op = "resume"
  BY DEF Ops
<1>7. q.op \notin {"resume", "rollback"} => o.op \notin {"resume", "rollback"}
  BY <1>1 DEF Process
<1> QED BY <1>1, <1>2, <1>3, <1>4, <1>5, <1>6, <1>7, Continue DEF Ops

\* The shape of most such steps
LEMMA MovesOn ==
  ASSUME Inductive, NEW p \in Panel, proc[p].pc = "run", NEW to \in Event, NEW op,
         \/ op = proc[p].op /\ Set(p, Moving(proc[p], to))
         \/ op = "rollback" /\ Set(p, Giving(proc[p], to)),
         UNCHANGED <<chain, spent, pin, pending, resumes, lives>>, faults' \in 0 .. MaxFault,
         proc[p].fresh \/ resumes,
         <<proc[p].st, to>> \in Steps, proc[p].st \notin {"none", "chrome-semantic-review"},
         to # "human-accepted", to = "chrome-semantic-review" => proc[p].fresh,
         to = "rolled-back" => pending # proc[p].review,
         proc[p].st = "eligible" /\ to # "rejected" => proc[p].fresh
  PROVE  Inductive'
<1>1. PICK o : o = proc[p]
  OBVIOUS
<1>2. o \in Process /\ Moves(o)
  BY <1>1, ProcessIs
<1>3. PICK q \in Process : /\ proc' = [proc EXCEPT ![p] = q]
                           /\ q.pc = "check" /\ q.to = to /\ q.art = o.art /\ Alike(q, o)
                           /\ q.op = op /\ op \in {o.op, "rollback"}
  <2>1. CASE op = o.op /\ Set(p, Moving(o, to))
    <3>1. PICK m : m = Moving(o, to)
      OBVIOUS
    <3>2. m \in Process /\ m.pc = "check" /\ m.to = to /\ m.art = o.art /\ Alike(m, o)
          /\ m.op = o.op
      BY <1>2, <3>1, MovingIs
    <3> QED BY <1>1, <2>1, <3>1, <3>2 DEF Set
  <2>2. CASE op = "rollback" /\ Set(p, Giving(o, to))
    <3>1. PICK m : m = Moving(o, to)
      OBVIOUS
    <3>2. m \in Process /\ m.pc = "check" /\ m.to = to /\ m.art = o.art /\ Alike(m, o)
      BY <1>2, <3>1, MovingIs
    <3>3. PICK q : q = [m EXCEPT !.op = "rollback"]
      OBVIOUS
    <3>4. /\ q \in Process /\ q.pc = "check" /\ q.to = to /\ q.art = o.art /\ Alike(q, o)
          /\ q.op = "rollback"
      BY <3>2, <3>3 DEF Process, Alike
    <3> QED BY <1>1, <2>2, <3>1, <3>3, <3>4 DEF Set, Giving
  <2> QED BY <1>1, <2>1, <2>2
<1>4. o.art = 0 /\ (Acts(o) /\ o.st = "eligible" => <<o.review, "reject">> \notin spent)
  BY <1>1, <1>2 DEF Moves, Publishing
<1>5. o.fresh => Acts(o)
  BY <1>1 DEF Acts
<1>6. /\ q.life = o.life /\ q.review = o.review /\ q.st = o.st /\ q.init = o.init
      /\ q.fresh = o.fresh
  BY <1>3 DEF Alike
<1>7. /\ q.st = "eligible" /\ q.to # "rejected" => q.fresh /\ <<q.review, "reject">> \notin spent
      /\ q.art = IF q.st = "chrome-semantic-review" THEN q.life ELSE 0
  BY <1>1, <1>3, <1>4, <1>5, <1>6
<1>8. /\ q.op = o.op \/ (q.op = "rollback" /\ q.st # "chrome-semantic-review")
      /\ <<q.st, q.to>> \in Steps /\ q.st # "none" /\ q.to # "human-accepted"
      /\ q.to = "chrome-semantic-review" => q.fresh
      /\ q.to = "rolled-back" => pending # q.review
      /\ q.fresh \/ resumes
  BY <1>1, <1>3, <1>6
<1> QED BY <1>1, <1>3, <1>6, <1>7, <1>8, Sets

\* The early stages are those of a review of the process itself.
LEMMA StagesStep == ASSUME Inductive, NEW p \in Panel, Stages(p) PROVE Inductive'
<1>1. PICK to \in Event : <<proc[p].st, to>> \in Steps /\ Set(p, Moving(proc[p], to))
  BY DEF Stages
<1>2. proc[p].st \in Early /\ proc[p].fresh /\ proc[p].pc = "run"
  BY DEF Stages, Doing, At
<1>3. to \notin {"human-accepted", "rolled-back"}
  BY <1>1, <1>2, StepsAre DEF Early
<1>4. faults' \in 0 .. MaxFault
  BY DEF Stages, Shared, Inductive, TypeOK
<1> QED BY <1>1, <1>2, <1>3, <1>4, MovesOn DEF Stages, Shared, Early

\* A Chrome review moves on with an artifact of its own process.
LEMMA ChromeStep == ASSUME Inductive, NEW p \in Panel, Chrome(p) PROVE Inductive'
<1>1. PICK o : o = proc[p]
  OBVIOUS
<1>2. o \in Process /\ Ops(o) /\ Moves(o)
  BY <1>1, ProcessIs
<1>3. o.pc = "run" /\ o.op = "start" /\ o.st = "chrome-semantic-review" /\ Shared
      /\ faults' \in 0 .. MaxFault
  BY <1>1 DEF Chrome, Doing, At, Shared, Inductive, TypeOK
<1>4. ASSUME NEW to \in {"eligible", "review-failed"},
             Set(p, [Moving(o, to) EXCEPT !.art = o.life])
      PROVE  Inductive'
  <2>1. PICK m : m = Moving(o, to)
    OBVIOUS
  <2>2. m \in Process /\ m.pc = "check" /\ m.to = to /\ m.op = o.op /\ Alike(m, o)
    BY <1>2, <2>1, MovingIs DEF Event, Terminal
  <2>3. PICK q : q = [m EXCEPT !.art = o.life]
    OBVIOUS
  <2>4. o.life \in Artifact
    BY <1>2 DEF Process, Artifact
  <2>5. /\ q \in Process /\ q.pc = "check" /\ q.to = to /\ q.op = o.op /\ Alike(q, o)
        /\ q.art = o.life
    BY <2>2, <2>3, <2>4 DEF Process, Alike
  <2>6. <<"chrome-semantic-review", to>> \in Steps
    BY DEF Steps
  <2>7. proc' = [proc EXCEPT ![p] = q]
    BY <1>4, <2>1, <2>3 DEF Set
  <2>8. o.fresh
    BY <1>2, <1>3 DEF Ops
  <2> QED BY <1>1, <1>3, <2>5, <2>6, <2>7, <2>8, Sets DEF Shared, Alike
<1>5. CASE Set(p, Halted(o))
  BY <1>1, <1>2, <1>3, <1>5, HaltedIs, Halts DEF Set, Shared
<1> QED BY <1>1, <1>4, <1>5 DEF Chrome

\* A cancelled completion sets out for the failure of what it was to publish.
LEMMA CancelledStep == ASSUME Inductive, NEW p \in Panel, Cancelled(p) PROVE Inductive'
<1>1. PICK o : o = proc[p]
  OBVIOUS
<1>2. o \in Process /\ Ops(o) /\ Moves(o)
  BY <1>1, ProcessIs
<1>3. o.pc = "append" /\ Publishing(o) /\ Shared /\ faults' \in 0 .. MaxFault
  BY <1>1 DEF Cancelled, At, Shared, Inductive, TypeOK, Publishing
<1>4. <<o.st, o.to>> \in Steps
  BY <1>2, <1>3 DEF Moves
<1>5. CASE o.to = "eligible" /\ Set(p, [Moving(o, "review-failed") EXCEPT !.art = o.life])
  <2>1. PICK m : m = Moving(o, "review-failed")
    OBVIOUS
  <2>2. m \in Process /\ m.pc = "check" /\ m.to = "review-failed" /\ m.op = o.op /\ Alike(m, o)
    BY <1>2, <2>1, MovingIs DEF Event, Terminal
  <2>3. PICK q : q = [m EXCEPT !.art = o.life]
    OBVIOUS
  <2>4. o.life \in Artifact
    BY <1>2 DEF Process, Artifact
  <2>5. /\ q \in Process /\ q.pc = "check" /\ q.to = "review-failed" /\ q.op = o.op /\ Alike(q, o)
        /\ q.art = o.life
    BY <2>2, <2>3, <2>4 DEF Process, Alike
  <2>6. o.st = "chrome-semantic-review"
    BY <1>4, <1>5 DEF Steps
  <2>7. <<"chrome-semantic-review", "review-failed">> \in Steps
    BY DEF Steps
  <2>8. proc' = [proc EXCEPT ![p] = q]
    BY <1>5, <2>1, <2>3 DEF Set
  <2>9. o.op = "rollback" => o.fresh \/ resumes
    BY <1>2 DEF Ops
  <2>10. /\ q.life = o.life /\ q.review = o.review /\ q.st = o.st /\ q.init = o.init
         /\ q.fresh = o.fresh /\ <<q.st, q.to>> \in Steps
         /\ q.art = IF q.st = "chrome-semantic-review" THEN q.life ELSE 0
    BY <2>5, <2>6, <2>7 DEF Alike
  <2> QED BY <1>1, <1>3, <2>5, <2>6, <2>8, <2>9, <2>10, Sets DEF Shared
<1>6. CASE o.to = "activated" /\ Set(p, Giving(o, "activation-failed"))
  <2>1. PICK m : m = Moving(o, "activation-failed")
    OBVIOUS
  <2>2. m \in Process /\ m.pc = "check" /\ m.to = "activation-failed" /\ m.art = o.art /\ Alike(m, o)
    BY <1>2, <2>1, MovingIs DEF Event
  <2>3. PICK q : q = [m EXCEPT !.op = "rollback"]
    OBVIOUS
  <2>4. /\ q \in Process /\ q.pc = "check" /\ q.to = "activation-failed" /\ q.op = "rollback"
        /\ Alike(q, o) /\ q.art = o.art
    BY <2>2, <2>3 DEF Process, Alike
  <2>5. o.st = "activating"
    BY <1>4, <1>6, StepsAre
  <2>6. <<"activating", "activation-failed">> \in Steps
    BY DEF Steps
  <2>7. proc' = [proc EXCEPT ![p] = q]
    BY <1>6, <2>1, <2>3 DEF Set, Giving
  <2>8. o.art = 0 /\ (o.fresh \/ resumes)
    BY <1>2, <1>3, <2>5 DEF Moves
  <2> QED BY <1>1, <1>3, <2>4, <2>5, <2>6, <2>7, <2>8, Sets DEF Shared, Alike
<1> QED BY <1>1, <1>5, <1>6 DEF Cancelled

\* What becomes of an eligible review that nobody has decided
LEMMA GrantStep == ASSUME Inductive, NEW p \in Panel, Grant(p) PROVE Inductive'
<1>1. PICK o : o = proc[p]
  OBVIOUS
<1>2. o \in Process /\ Ops(o) /\ Moves(o)
  BY <1>1, ProcessIs
<1>3. /\ o.pc = "run" /\ o.op = "start" /\ o.st = "eligible" /\ o.fresh /\ Shared
      /\ faults' \in 0 .. MaxFault
  BY <1>1 DEF Grant, Doing, At, Shared, Inductive, TypeOK
<1>4. CASE Set(p, [Ended(o) EXCEPT !.offered = TRUE, !.finalized = TRUE])
  <2>1. PICK e : e = Ended(o)
    OBVIOUS
  <2>2. e \in Process /\ e.pc = "idle" /\ e.op = "none" /\ e.art = 0 /\ Alike(e, o)
    BY <1>2, <2>1, EndedIs
  <2>3. PICK q : q = [e EXCEPT !.offered = TRUE, !.finalized = TRUE]
    OBVIOUS
  <2>4. q \in Process /\ q.pc = "idle" /\ q.op = "none" /\ q.art = 0 /\ Alike(q, o)
    BY <2>2, <2>3 DEF Process, Alike
  <2> QED BY <1>1, <1>3, <1>4, <2>1, <2>3, <2>4, Ends DEF Set, Shared, Alike
<1>5. CASE Set(p, [Moving(o, "rejected") EXCEPT !.fresh = FALSE])
  <2>1. PICK m : m = Moving(o, "rejected")
    OBVIOUS
  <2>2. /\ m \in Process /\ m.pc = "check" /\ m.to = "rejected" /\ m.op = o.op /\ Alike(m, o)
        /\ m.art = o.art
    BY <1>2, <2>1, MovingIs DEF Event, Terminal
  <2>3. PICK q : q = [m EXCEPT !.fresh = FALSE]
    OBVIOUS
  <2>4. /\ q \in Process /\ q.pc = "check" /\ q.to = "rejected" /\ q.op = o.op /\ ~ q.fresh
        /\ q.life = o.life /\ q.review = o.review /\ q.st = o.st /\ q.init = o.init /\ q.art = o.art
    BY <2>2, <2>3 DEF Process, Alike
  <2>5. o.art = 0
    BY <1>2, <1>3 DEF Moves, Publishing
  <2>6. <<"eligible", "rejected">> \in Steps
    BY DEF Steps
  <2>7. proc' = [proc EXCEPT ![p] = q]
    BY <1>5, <2>1, <2>3 DEF Set
  <2> QED BY <1>1, <1>3, <2>4, <2>5, <2>6, <2>7, Sets DEF Shared
<1>6. CASE Set(p, Halted(o))
  BY <1>1, <1>2, <1>3, <1>6, HaltedIs, Halts DEF Set, Shared
<1> QED BY <1>1, <1>4, <1>5, <1>6 DEF Grant

\* A new review is known to nobody, and nothing is open beside it.
LEMMA FetchStep == ASSUME Inductive, NEW p \in Panel, Fetch(p) PROVE Inductive'
<1>1. PICK o : o = proc[p]
  OBVIOUS
<1>2. /\ o \in Process /\ Ops(o) /\ Moves(o) /\ (resumes => Resumed(o))
      /\ \A x \in Panel \ {p} : Apart(o, proc[x])
  BY <1>1, ProcessIs
<1>3. /\ o.pc = "run" /\ o.op \in {"status", "start"} /\ Shared /\ faults' \in 0 .. MaxFault
  BY <1>1 DEF Fetch, At, Shared, Inductive, TypeOK
<1>4. CASE Set(p, Ended(o))
  <2>1. PICK q : q = Ended(o)
    OBVIOUS
  <2>2. q \in Process /\ q.pc = "idle" /\ q.op = "none" /\ q.art = 0 /\ Alike(q, o)
    BY <1>2, <2>1, EndedIs
  <2> QED BY <1>1, <1>3, <1>4, <2>1, <2>2, Ends DEF Set, Shared, Alike
<1>5. ASSUME NEW r \in Unused, Over(o),
             Set(p, [Moving(o, "available") EXCEPT !.st = "none", !.review = r,
                       !.fresh = TRUE, !.finalized = FALSE, !.offered = FALSE])
      PROVE  Inductive'
  <2>1. PICK m : m = Moving(o, "available")
    OBVIOUS
  <2>2. m \in Process /\ m.pc = "check" /\ m.to = "available" /\ m.op = o.op /\ Alike(m, o)
        /\ m.art = o.art
    BY <1>2, <2>1, MovingIs DEF Event, Early
  <2>3. PICK q : q = [m EXCEPT !.st = "none", !.review = r,
                       !.fresh = TRUE, !.finalized = FALSE, !.offered = FALSE]
    OBVIOUS
  <2>4. r \in Review /\ r \notin Reviews /\ \A x \in Panel : proc[x].review # r
    BY DEF Unused
  <2>5. r \in Nat /\ r \in 0 .. MaxReview
    BY <2>4, CoordinatorAssumption DEF Review
  <2>6. /\ q \in Process /\ q.pc = "check" /\ q.to = "available" /\ q.op = o.op
        /\ q.art = o.art /\ q.st = "none" /\ q.review = r /\ q.fresh /\ q.life = o.life
        /\ q.init = o.init
    BY <2>2, <2>3, <2>5 DEF Process, Alike
  <2>7. o.init /\ o.art = 0
    BY <1>2, <1>3 DEF Ops, Moves, Publishing
  <2>8. LastOf(r) = "none" /\ Of(r) = {}
    BY <2>4, <2>5, NoneIsNone DEF Inductive
  <2>9. <<"none", "available">> \in Steps
    BY DEF Steps
  <2>10. Publishing(q) /\ Current(q)
    BY <2>6, <2>8 DEF Publishing, Current
  <2>11. Knows(q) /\ Moves(q) /\ Ops(q)
    BY <1>2, <1>3, <2>4, <2>6, <2>7, <2>9, <2>10 DEF Knows, Moves, Ops
  <2>12. resumes => Resumed(q)
    <3> SUFFICES ASSUME resumes PROVE Resumed(q)
      OBVIOUS
    <3>1. Current(o) /\ \A s \in Reviews : s # o.review => LastOf(s) \in Terminal
      BY <1>2, <1>3 DEF Resumed
    <3>2. ASSUME NEW s \in Reviews PROVE LastOf(s) \in Terminal
      <4>1. s \in Nat
        BY Places, CoordinatorAssumption DEF Reviews, Inductive, Receipt, Review
      <4>2. LastOf(s) # "none"
        BY <4>1, <3>2, NoneIsNone DEF Inductive
      <4>3. CASE s = o.review
        BY <1>5, <3>1, <4>2, <4>3 DEF Current, Over
      <4> QED BY <3>1, <4>3
    <3>3. Mine(q)
      BY <2>6, <2>8 DEF Mine
    <3> QED BY <2>6, <2>7, <2>10, <3>2, <3>3 DEF Resumed
  <2>13. \A x \in Panel \ {p} : Apart(q, proc[x])
    BY <1>2, <1>3, <2>4, <2>6 DEF Apart
  <2>14. proc' = [proc EXCEPT ![p] = q]
    BY <1>5, <2>1, <2>3 DEF Set
  <2> QED BY <1>3, <2>6, <2>11, <2>12, <2>13, <2>14, Local DEF Shared
<1> QED BY <1>1, <1>4, <1>5 DEF Fetch

\* The journal's review changes, and no process takes a step.
LEMMA Repend ==
  ASSUME Inductive, NEW p \in Panel, proc' = proc,
         UNCHANGED <<chain, spent, pin, resumes, lives, faults>>, pending' \in 0 .. MaxReview,
         Pinned',
         \A x \in Panel : Publishing(proc[x]) /\ proc[x].to = "rolled-back" =>
           pending' # proc[x].review
  PROVE  Inductive'
<1>1. PICK q : q = proc[p]
  OBVIOUS
<1>2. /\ q \in Process /\ Knows(q) /\ Moves(q) /\ Ops(q) /\ (resumes => Resumed(q))
      /\ \A x \in Panel \ {p} : Apart(q, proc[x])
  BY <1>1, ProcessIs
<1>3. proc' = [proc EXCEPT ![p] = q]
  BY <1>1 DEF Inductive, TypeOK
<1>4. TypeOK'
  BY DEF Inductive, TypeOK
<1>5. Stories'
  BY SameChain DEF Inductive, Stories, Story
<1>6. \A x \in Panel : \A y \in Process : y = proc[x] => Moves(y)'
  BY ProcessIs DEF Moves
<1>7. Ops(q)' /\ lives <= lives'
  BY <1>2 DEF Ops, Inductive, TypeOK
<1> QED BY <1>1, <1>2, <1>3, <1>4, <1>5, <1>6, <1>7, Step

\* Whoever may publish the next receipt of an accepted review is alone with it.
LEMMA Sole ==
  ASSUME Inductive, NEW p \in Panel, NEW x \in Panel, x # p,
         Acts(proc[x]), proc[x].st # "chrome-semantic-review",
         proc[p].pc \notin {"off", "init", "halted"}, Acts(proc[p]) \/ resumes,
         proc[p].st # "chrome-semantic-review"
  PROVE  proc[x].review # proc[p].review
<1>1. Apart(proc[p], proc[x]) /\ (resumes => proc[x] = Off)
  BY ProcessIs
<1>2. ~ Acts(Off)
  BY DEF Off, Acts, Publishing
<1> QED BY <1>1, <1>2 DEF Apart

\* What a process at work that is not in the Chrome stage knows of its review
LEMMA AtWork ==
  ASSUME Inductive, NEW p \in Panel, proc[p].pc \notin {"off", "init", "halted"},
         Acts(proc[p]) \/ resumes, proc[p].st \notin {"none", "chrome-semantic-review"}
  PROVE  LastOf(proc[p].review) = proc[p].st /\ proc[p].review \in Review \cap Reviews
<1>1. /\ Knows(proc[p]) /\ (resumes => Resumed(proc[p])) /\ proc[p].review \in Nat
  BY ProcessIs, CoordinatorAssumption DEF Process
<1>2. LastOf(proc[p].review) = proc[p].st
  BY <1>1 DEF Knows, Resumed, Current, Beaten
<1> QED BY <1>1, <1>2, NoneIsNone DEF Inductive

\* The journal takes the review up only from a process that owns it.
LEMMA ActivateStep == ASSUME Inductive, NEW p \in Panel, Activate(p) PROVE Inductive'
<1>1. PICK o : o = proc[p]
  OBVIOUS
<1>2. /\ o.pc = "run" /\ o.op = "accept" /\ o.fresh /\ Acts(o)
      /\ UNCHANGED <<chain, spent, pin, resumes, lives, faults>> /\ faults' \in 0 .. MaxFault
  BY <1>1 DEF Activate, Doing, At, Inductive, TypeOK, Acts
<1>3. /\ <<"human-accepted", "activating">> \in Steps /\ <<"activating", "activated">> \in Steps
      /\ <<"activating", "activation-failed">> \in Steps
  BY DEF Steps
<1>4. {"activating", "activated", "activation-failed"} \subseteq Event
  BY DEF Event, Terminal
<1>5. CASE o.st = "human-accepted" /\ Set(p, Moving(o, "activating")) /\ UNCHANGED pending
  BY <1>1, <1>2, <1>3, <1>4, <1>5, MovesOn
<1>6. CASE o.st = "activating" /\ Set(p, Moving(o, "activated")) /\ UNCHANGED pending
  BY <1>1, <1>2, <1>3, <1>4, <1>6, MovesOn
<1>7. CASE o.st = "activating" /\ Set(p, Giving(o, "activation-failed")) /\ UNCHANGED pending
  BY <1>1, <1>2, <1>3, <1>4, <1>7, MovesOn
<1>8. CASE o.st = "activating" /\ pending = 0 /\ pending' = o.review /\ UNCHANGED proc
  <2>1. LastOf(o.review) = "activating" /\ o.review \in Review
    BY <1>1, <1>2, <1>8, AtWork
  <2>2. pending' \in 0 .. MaxReview
    BY <1>8, <2>1, CoordinatorAssumption DEF Review
  <2>3. Pinned'
    <3>1. \A i \in DOMAIN chain : chain[i].review # 0
      BY Places DEF Inductive, Receipt, Review
    <3>2. Has(o.review, "human-accepted") /\ ~ Has(o.review, "activated")
      BY <2>1 DEF Inductive, Stories, Story, Accepted, Terminal
    <3>3. \A i \in DOMAIN chain : chain[i].event = "activated" => chain[i].review # o.review
      BY <3>2 DEF Has, Of
    <3> QED BY <1>2, <1>8, <2>1, <3>1, <3>2, <3>3, SameChain DEF Pinned, Inductive
  <2>4. ASSUME NEW x \in Panel, Publishing(proc[x]), proc[x].to = "rolled-back"
        PROVE  pending' # proc[x].review
    <3>1. proc[x].st = "rolling-back"
      <4>1. <<proc[x].st, "rolled-back">> \in Steps
        BY <2>4, ProcessIs DEF Moves
      <4> QED BY <4>1, StepsAre
    <3>2. Acts(proc[x]) /\ x # p
      BY <1>1, <1>2, <2>4 DEF Acts, Publishing
    <3> QED BY <1>1, <1>2, <1>8, <3>1, <3>2, Sole
  <2> QED BY <1>2, <1>8, <2>2, <2>3, <2>4, Repend
<1> QED BY <1>1, <1>5, <1>6, <1>7, <1>8 DEF Activate

\* The pin after a recovery of the store is still the last activation's.
LEMMA RecoveredPinned ==
  ASSUME Inductive, Recovered, chain' = chain
  PROVE  Pinned' /\ pending' = 0 /\ pending' \in 0 .. MaxReview /\ pin' \in 0 .. MaxReview
<1>1. /\ pending' = 0 /\ pin' = (IF pending # 0 /\ Has(pending, "activated") THEN pending ELSE pin)
      /\ pin \in 0 .. MaxReview /\ pending \in 0 .. MaxReview
  BY DEF Recovered, Inductive, TypeOK
<1>2. pending # 0 => pending \in Review
  BY <1>1, CoordinatorAssumption DEF Review
<1>3. pending # 0 /\ Has(pending, "activated") => LastOf(pending) = "activated"
  BY <1>2 DEF Inductive, Stories, Story, Terminal
<1>4. (pin # 0 => LastOf(pin) = "activated")'
  <2>1. \A r : LastOf(r)' = LastOf(r)
    BY SameChain
  <2>2. pin # 0 => LastOf(pin) = "activated"
    BY DEF Inductive, Pinned
  <2>3. pending # 0 /\ Has(pending, "activated") => LastOf(pin)' = LastOf(pending)
    BY <1>1, <2>1 DEF LastOf
  <2>4. ~ (pending # 0 /\ Has(pending, "activated")) => LastOf(pin)' = LastOf(pin)
    BY <1>1, <2>1 DEF LastOf
  <2> QED BY <1>1, <1>3, <2>2, <2>3, <2>4
<1>5. ASSUME NEW i \in DOMAIN chain', chain'[i].event = "activated"
      PROVE  (~ Overtaken(i)' => chain'[i].review = pin') /\ chain'[i].review # 0
  <2>1. /\ i \in DOMAIN chain /\ chain[i].event = "activated" /\ (Overtaken(i)' <=> Overtaken(i))
        /\ chain[i].review # 0 /\ chain'[i] = chain[i] /\ i \in Nat
    BY <1>5, SameChain, Places DEF Inductive, Receipt, Review
  <2>2. CASE pending # 0 /\ Has(pending, "activated")
    <3>1. PICK j \in Of(pending) : chain[j].event = "activated"
      BY <2>2 DEF Has
    <3>2. j \in DOMAIN chain /\ chain[j].review = pending /\ ~ Overtaken(j) /\ j \in Nat
      BY <3>1, Places DEF Of, Inductive, Pinned
    <3>3. i <= j
      BY <2>1, <3>2 DEF Overtaken
    <3>4. ~ Overtaken(i) => i = j
      BY <2>1, <3>1, <3>2, <3>3 DEF Overtaken
    <3> QED BY <1>1, <2>1, <2>2, <3>2, <3>4
  <2>3. CASE ~ (pending # 0 /\ Has(pending, "activated"))
    <3>1. chain[i].review # pending
      BY <2>1, <2>3 DEF Has, Of
    <3>2. ~ Overtaken(i) => chain[i].review \in {pin, pending}
      BY <2>1 DEF Inductive, Pinned
    <3> QED BY <1>1, <2>1, <2>3, <3>1, <3>2
  <2> QED BY <2>2, <2>3
<1>6. Pinned'
  BY <1>1, <1>4, <1>5 DEF Pinned
<1> QED BY <1>1, <1>2, <1>6, CoordinatorAssumption

\* A rollback recovers the store, whoever's journal it finds, and publishes the
\* end of its review.
LEMMA RecoversAndEnds ==
  ASSUME Inductive, NEW p \in Panel, proc[p].pc = "run", proc[p].op = "rollback",
         proc[p].st = "rolling-back", Recovered,
         NEW to \in {"rolled-back", "custody-broken"}, Set(p, Moving(proc[p], to)),
         UNCHANGED <<chain, spent, resumes, lives, faults>>
  PROVE  Inductive'
<1>1. PICK o \in Process : o = proc[p]
  BY ProcessIs
<1>2. /\ Moves(o) /\ Ops(o) /\ (resumes => Resumed(o)) /\ (o.fresh \/ resumes)
      /\ (Acts(o) \/ resumes)
  BY <1>1, ProcessIs DEF Ops, Acts
<1>3. PICK q \in Process : q = Moving(o, to)
  BY MovingIs DEF Event, Terminal
<1>4. q.pc = "check" /\ q.to = to /\ q.op = o.op /\ q.art = o.art /\ Alike(q, o)
  BY <1>3, MovingIs DEF Event, Terminal
<1>5. proc' = [proc EXCEPT ![p] = q]
  BY <1>1, <1>3 DEF Set
<1>6. Pinned' /\ pending' = 0 /\ pending' \in 0 .. MaxReview /\ pin' \in 0 .. MaxReview
  BY RecoveredPinned
<1>7. TypeOK'
  BY <1>5, <1>6 DEF Inductive, TypeOK
<1>8. Stories'
  BY SameChain DEF Inductive, Stories, Story
<1>9. LastOf(o.review) = "rolling-back" /\ o.review \in Review
  BY <1>1, <1>2, AtWork
<1>10. Knows(q)
  BY <1>1, <1>4, <1>9 DEF Knows, Current, Alike
<1>11. /\ <<"rolling-back", "rolled-back">> \in Steps
       /\ <<"rolling-back", "custody-broken">> \in Steps
  BY DEF Steps, Event, Terminal
<1>12. Moves(q)'
  <2>1. o.art = 0 /\ o.init /\ q.review # 0
    BY <1>1, <1>2, <1>4, <1>9 DEF Moves, Ops, Publishing, Alike, Review
  <2> QED BY <1>1, <1>2, <1>4, <1>6, <1>11, <2>1 DEF Moves, Publishing, Acts, Alike
<1>13. Ops(q)' /\ lives <= lives'
  BY <1>1, <1>2, <1>4 DEF Ops, Alike, Inductive, TypeOK
<1>14. resumes => Resumed(q)
  <2>1. (Mine(q) <=> Mine(o)) /\ (Current(q) <=> Current(o)) /\ o.init
    BY <1>1, <1>2, <1>4 DEF Mine, Current, Alike, Ops
  <2> QED BY <1>1, <1>2, <1>4, <2>1 DEF Resumed, Alike
<1>15. ASSUME NEW x \in Panel \ {p}, NEW y \in Process, y = proc[x]
       PROVE  Moves(y)' /\ Apart(q, y)
  <2>1. /\ Moves(y) /\ Knows(y) /\ Apart(o, y) /\ (resumes => y = Off)
    BY <1>1, <1>15, ProcessIs
  <2>2. Moves(y)'
    BY <1>6, <2>1 DEF Moves, Knows, Acts, Publishing, Review
  <2>3. CASE resumes
    <3>1. ~ Acts(Off) /\ Off.pc = "off" /\ Off.life = 0
      BY DEF Off, Acts, Publishing
    <3> QED BY <2>1, <2>2, <2>3, <3>1 DEF Apart
  <2>4. CASE ~ resumes
    BY <1>2, <1>4, <2>1, <2>2, <2>4 DEF Apart, Alike
  <2> QED BY <2>3, <2>4
<1> QED BY <1>5, <1>7, <1>8, <1>6, <1>10, <1>12, <1>13, <1>14, <1>15, Step

\* A rollback lets the journal go before it publishes rolled-back.
LEMMA RollbackStep == ASSUME Inductive, NEW p \in Panel, Rollback(p) PROVE Inductive'
<1>1. PICK o : o = proc[p]
  OBVIOUS
<1>2. /\ o.pc = "run" /\ o.op = "rollback" /\ (o.fresh => Acts(o)) /\ (o.fresh \/ resumes)
      /\ UNCHANGED <<chain, spent, resumes, lives, faults>> /\ faults' \in 0 .. MaxFault
  BY <1>1, ProcessIs DEF Rollback, Doing, At, Inductive, TypeOK, Acts, Ops
<1>3. <<"rolling-back", "custody-broken">> \in Steps
  BY DEF Steps, Event, Terminal
<1>4. {"activating", "activation-failed", "rolling-back", "custody-broken"} \subseteq Event
  BY DEF Event, Terminal
<1>5. ASSUME NEW to \in {"activating", "activation-failed", "rolling-back"},
             <<o.st, to>> \in Steps, Set(p, Moving(o, to)), UNCHANGED <<pin, pending>>
      PROVE  Inductive'
  <2>1. o.st \in Accepted
    BY <1>5, StepsAre DEF Accepted
  <2> QED BY <1>1, <1>2, <1>4, <1>5, <2>1, MovesOn DEF Accepted
<1>6. CASE o.st = "rolling-back" /\ Recovered
           /\ \/ pin' = pin /\ Set(p, Moving(o, "rolled-back"))
              \/ Set(p, Moving(o, "custody-broken"))
  BY <1>1, <1>2, <1>6, RecoversAndEnds
<1>7. CASE o.st = "rolling-back" /\ Set(p, Moving(o, "custody-broken")) /\ UNCHANGED <<pin, pending>>
  BY <1>1, <1>2, <1>3, <1>4, <1>7, MovesOn
<1> QED BY <1>1, <1>5, <1>6, <1>7 DEF Rollback

\* Each state of an interrupted review has its own way to an end.
LEMMA ResumeStep == ASSUME Inductive, NEW p \in Panel, Resume(p) PROVE Inductive'
<1>1. PICK o : o = proc[p]
  OBVIOUS
<1>2. /\ o \in Process /\ Ops(o) /\ Moves(o) /\ (resumes => Resumed(o))
  BY <1>1, ProcessIs
<1>3. /\ o.pc = "run" /\ o.op = "resume" /\ resumes /\ Shared /\ faults' \in 0 .. MaxFault
  BY <1>1, <1>2 DEF Resume, Doing, At, Shared, Inductive, TypeOK, Ops
<1>4. /\ <<"eligible", "rejected">> \in Steps /\ <<"available", "custody-broken">> \in Steps
      /\ \A e \in Early \ {"available"} : <<e, "review-failed">> \in Steps
      /\ <<"activating", "activated">> \in Steps /\ <<"activating", "activation-failed">> \in Steps
  BY DEF Steps, Early, Event, Terminal
<1>5. /\ {"rejected", "custody-broken", "review-failed", "activated", "activation-failed"}
           \subseteq Event
      /\ "none" \notin Early /\ "chrome-semantic-review" \notin Early /\ "eligible" \notin Early
  BY DEF Event, Terminal, Early
<1>6. CASE (Over(o) \/ o.fresh) /\ Set(p, Ended(o))
  <2>1. PICK q : q = Ended(o)
    OBVIOUS
  <2>2. q \in Process /\ q.pc = "idle" /\ q.op = "none" /\ q.art = 0 /\ Alike(q, o)
    BY <1>2, <2>1, EndedIs
  <2> QED BY <1>1, <1>3, <1>6, <2>1, <2>2, Ends DEF Set, Shared, Alike
<1>7. CASE o.st = "eligible" /\ Set(p, Moving(o, "rejected"))
  BY <1>1, <1>3, <1>4, <1>5, <1>7, MovesOn DEF Shared
<1>8. CASE o.st = "available" /\ Set(p, Moving(o, "custody-broken"))
  BY <1>1, <1>3, <1>4, <1>5, <1>8, MovesOn DEF Shared
<1>9. CASE o.st \in Early \ {"available"} /\ Set(p, Moving(o, "review-failed"))
  BY <1>1, <1>3, <1>4, <1>5, <1>9, MovesOn DEF Shared
<1>10. CASE o.st = "activating" /\ Set(p, Moving(o, "activated"))
  BY <1>1, <1>3, <1>4, <1>5, <1>10, MovesOn DEF Shared
<1>11. CASE o.st = "activating" /\ Set(p, Giving(o, "activation-failed"))
  BY <1>1, <1>3, <1>4, <1>5, <1>11, MovesOn DEF Shared
<1>12. CASE o.st \in {"human-accepted", "activation-failed", "rolling-back"}
            /\ Set(p, [o EXCEPT !.op = "rollback"])
  <2>1. PICK q : q = [o EXCEPT !.op = "rollback"]
    OBVIOUS
  <2>2. q \in Process /\ q.pc = "run" /\ q.op = "rollback" /\ q.art = o.art /\ Alike(q, o)
    BY <1>2, <1>3, <2>1 DEF Process, Alike
  <2>3. ~ Publishing(q) /\ ~ Publishing(o) /\ (Acts(q) <=> Acts(o)) /\ o.init
    BY <1>2, <1>3, <2>2 DEF Publishing, Acts, Alike, Ops
  <2>4. Moves(q)
    BY <1>2, <2>2, <2>3 DEF Moves, Alike
  <2> QED BY <1>1, <1>3, <1>12, <2>1, <2>2, <2>3, <2>4, Continue DEF Set, Shared, Alike
<1> QED BY <1>1, <1>6, <1>7, <1>8, <1>9, <1>10, <1>11, <1>12 DEF Resume

\* A process that has consumed a nonce sets out to publish the decision.
LEMMA Consumes ==
  ASSUME Inductive, NEW p \in Panel, NEW act \in {"accept", "reject"},
         proc[p].pc = "run", proc[p].fresh, proc[p].st = "eligible",
         spent' = spent \cup {<<proc[p].review, act>>},
         Set(p, Moving(proc[p], IF act = "accept" THEN "human-accepted" ELSE "rejected")),
         UNCHANGED <<chain, pin, pending, resumes, lives, faults>>
  PROVE  Inductive'
<1>1. PICK o : o = proc[p]
  OBVIOUS
<1>2. PICK to : to = IF act = "accept" THEN "human-accepted" ELSE "rejected"
  OBVIOUS
<1>3. /\ o \in Process /\ Ops(o) /\ Moves(o) /\ Knows(o) /\ (resumes => Resumed(o))
      /\ \A x \in Panel \ {p} : Apart(o, proc[x])
  BY <1>1, ProcessIs
<1>4. PICK q : q = Moving(o, to)
  OBVIOUS
<1>5. /\ q \in Process /\ q.pc = "check" /\ q.to = to /\ q.op = o.op /\ Alike(q, o)
      /\ q.art = o.art
  BY <1>2, <1>3, <1>4, MovingIs DEF Event, Terminal
<1>6. Acts(o) /\ Acts(q) /\ Publishing(q) /\ ~ Publishing(o)
  BY <1>1, <1>5 DEF Acts, Publishing, Alike
<1>7. LastOf(o.review) = "eligible" /\ o.review \in Review
  BY <1>1, <1>6, AtWork
<1>8. proc' = [proc EXCEPT ![p] = q]
  BY <1>1, <1>2, <1>4 DEF Set
<1>9. TypeOK'
  BY <1>1, <1>5, <1>7, <1>8 DEF Inductive, TypeOK
<1>10. Stories'
  BY <1>1, <1>7, SameChain DEF Inductive, Stories, Story
<1>11. Pinned'
  BY SameChain DEF Inductive, Pinned
<1>12. ASSUME NEW x \in Panel \ {p}, NEW y \in Process, y = proc[x]
       PROVE  Moves(y)' /\ Apart(q, y)
  <2>1. Moves(y) /\ Apart(o, y)
    BY <1>3, <1>12, ProcessIs
  <2>2. Acts(y) /\ y.st = "eligible" => y.review # o.review
    BY <1>1, <1>6, <2>1 DEF Apart
  <2>3. Apart(q, y)
    BY <1>1, <1>5, <1>6, <2>1 DEF Apart, Alike
  <2>4. \A a : <<y.review, a>> \in spent' <=>
                 <<y.review, a>> \in spent \/ (y.review = o.review /\ a = act)
    BY <1>1
  <2> QED BY <2>1, <2>2, <2>3, <2>4 DEF Moves, Acts, Publishing
<1>13. Knows(q)
  BY <1>5, <1>7, <1>1 DEF Knows, Current, Alike
<1>14. Moves(q)'
  <2>1. <<"eligible", to>> \in Steps
    BY <1>2 DEF Steps
  <2>2. o.art = 0 /\ <<o.review, "reject">> \notin spent /\ o.init
    BY <1>1, <1>3, <1>6 DEF Moves, Ops
  <2>3. to = "human-accepted" =>
          <<o.review, "accept">> \in spent' /\ <<o.review, "reject">> \notin spent'
    BY <1>1, <1>2, <2>2
  <2>4. to \in {"human-accepted", "rejected"}
    BY <1>2
  <2> QED BY <1>1, <1>5, <2>1, <2>2, <2>3, <2>4 DEF Moves, Publishing, Acts, Alike
<1>15. Ops(q)' /\ lives <= lives'
  BY <1>3, <1>5, <1>1 DEF Ops, Alike, Inductive, TypeOK
<1>16. resumes => Resumed(q)
  <2>1. (Mine(q) <=> Mine(o)) /\ (Over(q) <=> Over(o)) /\ (Current(q) <=> Current(o))
    BY <1>5 DEF Mine, Over, Current, Alike
  <2>2. o.init
    BY <1>1, <1>3 DEF Ops
  <2> QED BY <1>1, <1>3, <1>5, <2>1, <2>2 DEF Resumed, Alike
<1> QED BY <1>5, <1>8, <1>9, <1>10, <1>11, <1>12, <1>13, <1>14, <1>15, <1>16, Step

\* A decision is published for a nonce consumed, or the review is rejected.
LEMMA DecideStep ==
  ASSUME Inductive, NEW p \in Panel, NEW act \in {"accept", "reject"}, Decide(p, act)
  PROVE  Inductive'
<1>1. PICK o : o = proc[p]
  OBVIOUS
<1>2. o \in Process /\ Ops(o) /\ Moves(o)
  BY <1>1, ProcessIs
<1>3. /\ o.pc = "run" /\ o.op = act /\ UNCHANGED <<chain, pin, pending, resumes, lives, faults>>
      /\ faults' \in 0 .. MaxFault
  BY <1>1 DEF Decide, Doing, At, Stays, Inductive, TypeOK
<1>4. <<"eligible", "rejected">> \in Steps /\ <<"eligible", "custody-broken">> \in Steps
      /\ {"rejected", "custody-broken"} \subseteq Event
  BY DEF Steps, Event, Terminal
<1> DEFINE bound == o.fresh /\ o.st = "eligible" /\ o.offered
<1>5. CASE bound /\ spent' = spent \cup {<<o.review, act>>}
           /\ Set(p, Moving(o, IF act = "accept" THEN "human-accepted" ELSE "rejected"))
  BY <1>1, <1>3, <1>5, Consumes
<1>6. CASE bound /\ Set(p, Moving(o, "rejected")) /\ UNCHANGED spent
  BY <1>1, <1>3, <1>4, <1>6, MovesOn
<1>7. CASE bound /\ Set(p, Moving(o, "custody-broken")) /\ UNCHANGED spent
  BY <1>1, <1>3, <1>4, <1>7, MovesOn
<1>8. PICK e : e = Ended(o)
  OBVIOUS
<1>9. e \in Process /\ e.pc = "idle" /\ e.op = "none" /\ e.art = 0 /\ Alike(e, o)
  BY <1>2, <1>8, EndedIs
<1>10. CASE Set(p, Ended(o)) /\ UNCHANGED spent
  BY <1>1, <1>3, <1>8, <1>9, <1>10, Ends DEF Set, Alike
<1>11. CASE bound /\ Set(p, [Ended(o) EXCEPT !.fresh = FALSE]) /\ UNCHANGED spent
  <2>1. PICK q : q = [e EXCEPT !.fresh = FALSE]
    OBVIOUS
  <2>2. /\ q \in Process /\ q.pc = "idle" /\ q.op = "none" /\ q.art = 0 /\ ~ q.fresh
        /\ q.life = o.life /\ q.review = o.review /\ q.st = o.st /\ q.init = o.init
    BY <1>9, <2>1 DEF Process, Alike
  <2>3. proc' = [proc EXCEPT ![p] = q]
    BY <1>8, <1>11, <2>1 DEF Set
  <2> QED BY <1>1, <1>3, <1>11, <2>2, <2>3, Ends
<1>12. \/ bound /\ spent' = spent \cup {<<o.review, act>>}
          /\ Set(p, Moving(o, IF act = "accept" THEN "human-accepted" ELSE "rejected"))
       \/ bound /\ Set(p, Moving(o, "rejected")) /\ UNCHANGED spent
       \/ bound /\ Set(p, Moving(o, "custody-broken")) /\ UNCHANGED spent
       \/ Set(p, Ended(o)) /\ UNCHANGED spent
       \/ bound /\ Set(p, [Ended(o) EXCEPT !.fresh = FALSE]) /\ UNCHANGED spent
  BY <1>1 DEF Decide
<1> QED BY <1>5, <1>6, <1>7, <1>10, <1>11, <1>12

\* A new process knows nothing; the recovered store agrees with the chain.
LEMMA BootStep == ASSUME Inductive, NEW p \in Panel, Boot(p) PROVE Inductive'
<1>1. /\ proc[p].pc = "off" /\ lives < MaxLife /\ lives' = lives + 1
      /\ (resumes => \A x \in Panel : proc[x].pc = "off")
      /\ UNCHANGED <<chain, spent, resumes, faults>>
  BY DEF Boot, At
<1>2. PICK q : q = IF resumes THEN [Off EXCEPT !.life = lives', !.pc = "init", !.op = "resume"]
                   ELSE [Off EXCEPT !.life = lives', !.pc = "idle"]
  OBVIOUS
<1>3. lives \in Nat /\ lives' \in 1 .. MaxLife /\ TypeOK /\ resumes \in BOOLEAN
      /\ pin \in 0 .. MaxReview /\ pending \in 0 .. MaxReview
  BY <1>1, CoordinatorAssumption DEF Inductive, TypeOK
<1>4. /\ q.life = lives' /\ ~ q.fresh /\ ~ q.init /\ q.st = "none" /\ q.review = 0 /\ q.art = 0
      /\ q.pc = (IF resumes THEN "init" ELSE "idle") /\ q.op = (IF resumes THEN "resume" ELSE "none")
  BY <1>2 DEF Off
<1>5. Off \in Process
  BY CoordinatorAssumption DEF Off, Process, Artifact
<1>6. q \in Process
  <2>1. lives' \in 0 .. MaxLife
    BY <1>3
  <2>2. CASE resumes
    BY <1>2, <1>5, <2>1, <2>2 DEF Process
  <2>3. CASE ~ resumes
    BY <1>2, <1>5, <2>1, <2>3 DEF Process
  <2> QED BY <2>2, <2>3
<1>7. ~ Acts(q) /\ ~ Publishing(q)
  BY <1>4 DEF Acts, Publishing
<1>8. proc' = [proc EXCEPT ![p] = q]
  BY <1>2 DEF Boot, Set
<1>9. \/ Recovered
      \/ UNCHANGED <<pin, pending>>
  BY DEF Boot
<1>12. Pinned' /\ pending' \in 0 .. MaxReview /\ pin' \in 0 .. MaxReview
       /\ (pending' = 0 \/ pending' = pending)
  <2>1. CASE Recovered
    BY <1>1, <2>1, RecoveredPinned
  <2>2. CASE UNCHANGED <<pin, pending>>
    BY <1>1, <1>3, <2>2, SameChain DEF Inductive, Pinned
  <2> QED BY <1>9, <2>1, <2>2
<1>10. TypeOK'
  BY <1>1, <1>3, <1>6, <1>8, <1>12, CoordinatorAssumption DEF Inductive, TypeOK
<1>11. Stories'
  BY <1>1, SameChain DEF Inductive, Stories, Story
<1>13. Knows(q) /\ Moves(q)' /\ Ops(q)'
  <2>1. Knows(q) /\ Moves(q)'
    BY <1>4, <1>7 DEF Knows, Moves, Acts, Publishing
  <2> QED BY <1>1, <1>3, <1>4, <2>1 DEF Ops
<1>14. resumes => Resumed(q)
  BY <1>4 DEF Resumed, Publishing
<1>15. ASSUME NEW x \in Panel \ {p}, NEW y \in Process, y = proc[x]
       PROVE  Moves(y)' /\ Apart(q, y)
  <2>1. Moves(y) /\ Ops(y) /\ Knows(y)
    BY <1>15, ProcessIs
  <2>2. y.life # lives'
    BY <1>1, <1>3, <2>1, CoordinatorAssumption DEF Ops, Process
  <2>3. Apart(q, y)
    BY <1>1, <1>4, <1>7, <1>15, <2>2 DEF Apart
  <2>4. Publishing(y) => y.review # 0
    BY <2>1 DEF Knows, Acts, Publishing, Review
  <2>5. pending' \in {0, pending}
    BY <1>12
  <2> QED BY <1>1, <2>1, <2>3, <2>4, <2>5 DEF Moves, Acts, Publishing
<1>16. lives <= lives'
  BY <1>1, <1>3
<1> QED BY <1>1, <1>6, <1>8, <1>10, <1>11, <1>12, <1>13, <1>14, <1>15, <1>16, Step

\* A receipt that the chain does not refuse comes from a process that knows
\* the last one of its review, and what it appends is that review's next.
LEMMA Publication ==
  ASSUME Inductive, NEW p \in Panel, NEW o, o = proc[p], o.pc = "append", ~ Refused(o),
         chain' = Append(chain, Receipted(o))
  PROVE  /\ o.review \in Review \cap Nat /\ LastOf(o.review) = o.st /\ <<o.st, o.to>> \in Steps
         /\ chain' \in Seq(Receipt) /\ Paths'
         /\ LastOf(o.review)' = o.to
         /\ ArtOf(o.review)' = IF ArtOf(o.review) # {} THEN ArtOf(o.review)
                               ELSE IF o.st = "chrome-semantic-review" THEN {o.life} ELSE {}
         /\ \A e : Has(o.review, e)' <=> Has(o.review, e) \/ e = o.to
         /\ \A s \in Nat \ {o.review} :
              /\ LastOf(s)' = LastOf(s) /\ ArtOf(s)' = ArtOf(s)
              /\ \A e : Has(s, e)' <=> Has(s, e)
         /\ Reviews' = Reviews \cup {o.review} /\ chain'[Len(chain')].review = o.review
         /\ Mine(o) => \A q : q.review = o.review /\ q.life = o.life => Mine(q)'
<1>1. o \in Process /\ Ops(o) /\ Moves(o) /\ Knows(o)
  BY ProcessIs
<1>2. Publishing(o) /\ Acts(o)
  BY DEF Publishing, Acts
<1>3. /\ o.review \in Review /\ o.review \in Nat /\ <<o.st, o.to>> \in Steps
      /\ o.life \in 1 .. MaxLife /\ o.life # 0
      /\ o.art = IF o.st = "chrome-semantic-review" THEN o.life ELSE 0
  BY <1>1, <1>2, CoordinatorAssumption DEF Knows, Moves, Ops, Process, Review
<1>4. ~ Beaten(o)
  BY <1>3 DEF Beaten, Refused
<1>5. LastOf(o.review) = o.st
  BY <1>1, <1>2, <1>4 DEF Knows, Current
<1>6. PICK x : x = Receipted(o)
  OBVIOUS
<1>7. x.review = o.review /\ x.event = o.to /\ x.life = o.life
      /\ x.art = IF ArtOf(o.review) = {} THEN o.art ELSE CHOOSE a \in ArtOf(o.review) : TRUE
  BY <1>6 DEF Receipted
<1>8. TypeOK /\ Paths /\ \A i \in DOMAIN chain : chain[i] \in Receipt
  BY Places DEF Inductive
<1>9. ArtOf(o.review) \subseteq Artifact \ {0}
  BY <1>8 DEF ArtOf, Of, Receipt
<1>10. ArtOf(o.review) # {} => x.art \in ArtOf(o.review)
  BY <1>7
<1>11. o.art \in Artifact /\ o.to \in Event
  BY <1>1, <1>3, StepsAre DEF Process
<1>12. x.art \in Artifact
  BY <1>7, <1>9, <1>10, <1>11
<1>13. x \in Receipt
  <2>1. x = [review |-> o.review, event |-> o.to, life |-> o.life, art |-> x.art]
    BY <1>6, <1>7 DEF Receipted
  <2> QED BY <1>3, <1>11, <1>12, <2>1 DEF Receipt
<1>14. chain' = Append(chain, x) /\ <<LastOf(x.review), x.event>> \in Steps
  BY <1>3, <1>5, <1>6, <1>7
<1>15. chain' \in Seq(Receipt)
  BY <1>8, <1>13, <1>14 DEF TypeOK
<1>16. Paths'
  BY <1>8, <1>13, <1>14, AppendPaths
<1>17. /\ LastOf(o.review)' = o.to
       /\ ArtOf(o.review)' = ArtOf(o.review) \cup ({x.art} \ {0})
       /\ \A e : Has(o.review, e)' <=> Has(o.review, e) \/ e = o.to
       /\ Of(o.review)' = Of(o.review) \cup {Len(chain) + 1}
       /\ \A s \in Nat \ {o.review} :
            /\ LastOf(s)' = LastOf(s) /\ ArtOf(s)' = ArtOf(s)
            /\ \A e : Has(s, e)' <=> Has(s, e)
       /\ Reviews' = Reviews \cup {o.review}
       /\ \A i \in DOMAIN chain : Before(i)' = Before(i)
  BY <1>7, <1>8, <1>13, <1>14, AppendLast
<1>18. /\ Len(chain') = Len(chain) + 1 /\ chain'[Len(chain) + 1] = x
       /\ \A i \in DOMAIN chain : chain'[i] = chain[i]
  BY <1>8, <1>13, <1>14, AppendIs
<1>19. ArtOf(o.review)' = IF ArtOf(o.review) # {} THEN ArtOf(o.review)
                          ELSE IF o.st = "chrome-semantic-review" THEN {o.life} ELSE {}
  <2>1. CASE ArtOf(o.review) # {}
    BY <1>10, <1>17, <2>1
  <2>2. CASE ArtOf(o.review) = {}
    BY <1>3, <1>7, <1>17, <2>2
  <2> QED BY <2>1, <2>2
<1>20. ASSUME Mine(o), NEW q, q.review = o.review, q.life = o.life PROVE Mine(q)'
  <2> SUFFICES ASSUME NEW i \in Of(q.review)', First(i)' PROVE chain'[i].life = q.life
    BY DEF Mine
  <2>1. i \in Of(o.review) \cup {Len(chain) + 1}
    BY <1>17, <1>20
  <2>2. CASE i = Len(chain) + 1
    BY <1>7, <1>18, <1>20, <2>2
  <2>3. CASE i \in Of(o.review)
    <3>1. i \in DOMAIN chain
      BY <2>3 DEF Of
    <3>2. First(i)
      BY <1>17, <3>1 DEF First
    <3> QED BY <1>18, <1>20, <2>3, <3>1, <3>2 DEF Mine
  <2> QED BY <2>1, <2>2, <2>3
<1> QED BY <1>3, <1>5, <1>7, <1>15, <1>16, <1>17, <1>18, <1>19, <1>20

\* What is known of reviews, nonces and pin is kept by a publication.
LEMMA PublishedStories ==
  ASSUME Inductive, NEW p \in Panel, proc[p].pc = "append", ~ Refused(proc[p]),
         chain' = Append(chain, Receipted(proc[p])), spent' = spent
  PROVE  Stories'
<1>1. PICK o : o = proc[p]
  OBVIOUS
<1>2. /\ o.review \in Review \cap Nat /\ LastOf(o.review) = o.st /\ <<o.st, o.to>> \in Steps
      /\ LastOf(o.review)' = o.to
      /\ ArtOf(o.review)' = IF ArtOf(o.review) # {} THEN ArtOf(o.review)
                            ELSE IF o.st = "chrome-semantic-review" THEN {o.life} ELSE {}
      /\ \A e : Has(o.review, e)' <=> Has(o.review, e) \/ e = o.to
      /\ \A s \in Nat \ {o.review} :
           /\ LastOf(s)' = LastOf(s) /\ ArtOf(s)' = ArtOf(s)
           /\ \A e : Has(s, e)' <=> Has(s, e)
  BY <1>1, Publication
<1>3. Moves(o) /\ Publishing(o) /\ Acts(o)
  BY <1>1, ProcessIs DEF Publishing, Acts
<1>4. Story(o.review)
  BY <1>2 DEF Inductive, Stories
<1>5. Story(o.review)'
  <2>1. \A e \in Terminal : Has(o.review, e)' => LastOf(o.review)' = e
    BY <1>2, <1>4, StepsAre DEF Story
  <2>2. LastOf(o.review)' \in Accepted => Has(o.review, "human-accepted")'
    <3>1. o.to \in Accepted /\ o.to # "human-accepted" => o.st \in Accepted
      BY <1>2, StepsAre
    <3> QED BY <1>2, <1>4, <3>1 DEF Story
  <2>3. Has(o.review, "human-accepted")' => LastOf(o.review)' \in Accepted \cup {"custody-broken"}
    <3>1. Has(o.review, "human-accepted") => o.st \in Accepted
      BY <1>2, <1>4, StepsAre DEF Story, Terminal
    <3>2. o.st \in Accepted => o.to \in Accepted \cup {"custody-broken"}
      BY <1>2, StepsAre
    <3>3. "human-accepted" \in Accepted
      BY DEF Accepted
    <3> QED BY <1>2, <3>1, <3>2, <3>3
  <2>4. ArtOf(o.review)' # {} => LastOf(o.review)' \notin Early \cup {"chrome-semantic-review"}
    <3> SUFFICES ASSUME ArtOf(o.review)' # {}, o.to \in Early \cup {"chrome-semantic-review"}
                 PROVE  FALSE
      BY <1>2
    <3>1. o.st \in Early \cup {"none"}
      BY <1>2, StepsAre
    <3>2. ArtOf(o.review) # {}
      BY <1>2, <3>1 DEF Early
    <3>3. Of(o.review) # {}
      BY <3>2 DEF ArtOf
    <3>4. o.st # "none"
      BY <1>2, <3>3, NoneIsNone DEF Inductive
    <3> QED BY <1>2, <1>4, <3>1, <3>2, <3>4 DEF Story
  <2>5. Has(o.review, "human-accepted")' => <<o.review, "accept">> \in spent'
    BY <1>2, <1>3, <1>4 DEF Story, Moves
  <2>6. <<o.review, "reject">> \in spent' => LastOf(o.review)' \in {"eligible", "rejected"}
    <3> SUFFICES ASSUME <<o.review, "reject">> \in spent PROVE o.to = "rejected"
      BY <1>2
    <3>1. o.st \notin Terminal /\ "rejected" \in Terminal
      BY <1>2, StepsAre DEF Terminal
    <3>2. o.st = "eligible"
      BY <1>2, <1>4, <3>1 DEF Story
    <3> QED BY <1>3, <3>2 DEF Moves
  <2> QED BY <1>1, <2>1, <2>2, <2>3, <2>4, <2>5, <2>6 DEF Story
<1>6. ASSUME NEW s \in Review, s # o.review PROVE Story(s)'
  <2>1. s \in Nat /\ Story(s)
    BY <1>6, CoordinatorAssumption DEF Review, Inductive, Stories
  <2> QED BY <1>2, <1>6, <2>1 DEF Story
<1>7. \A s \in Review : Story(s)'
  <2> TAKE s \in Review
  <2>1. CASE s = o.review
    <3>1. PICK r : r = o.review
      OBVIOUS
    <3>2. Story(r)'
      BY <1>5, <3>1, <1>2 DEF Story
    <3> QED BY <2>1, <3>1, <3>2
  <2> QED BY <1>6, <2>1
<1> QED BY <1>7 DEF Stories

\* A publication keeps the pin and the chain in agreement.
LEMMA PublishedPinned ==
  ASSUME Inductive, NEW p \in Panel, proc[p].pc = "append", ~ Refused(proc[p]),
         chain' = Append(chain, Receipted(proc[p])),
         proc[p].to = "activated" => pending = proc[p].review,
         \/ proc[p].to = "activated" /\ pin' = proc[p].review /\ pending' = 0
         \/ UNCHANGED <<pin, pending>>
  PROVE  Pinned'
<1>1. PICK o : o = proc[p]
  OBVIOUS
<1>2. /\ o.review \in Review \cap Nat /\ LastOf(o.review) = o.st /\ <<o.st, o.to>> \in Steps
      /\ LastOf(o.review)' = o.to
      /\ \A s \in Nat \ {o.review} : LastOf(s)' = LastOf(s) /\ \A e : Has(s, e)' <=> Has(s, e)
      /\ \A e : Has(o.review, e)' <=> Has(o.review, e) \/ e = o.to
      /\ Reviews' = Reviews \cup {o.review}
  BY <1>1, Publication
<1>3. Moves(o) /\ Publishing(o)
  BY <1>1, ProcessIs DEF Publishing
<1>4. pin \in Nat /\ pending \in Nat /\ \A s \in Reviews : s \in Nat /\ s # 0
  BY Places, CoordinatorAssumption DEF Inductive, TypeOK, Reviews, Receipt, Review
<1>5. o.st \notin Terminal /\ "activated" \in Terminal /\ "custody-broken" \in Terminal
  BY <1>2, StepsAre DEF Terminal
<1>n. PICK n : n = Len(chain) + 1
  OBVIOUS
<1>8. /\ n \notin DOMAIN chain /\ DOMAIN chain' = DOMAIN chain \cup {n}
      /\ chain'[n].event = o.to /\ chain'[n].review = o.review
      /\ \A i \in DOMAIN chain : chain'[i] = chain[i] /\ i < n /\ ~ (n < i)
  <2>1. chain \in Seq(Receipt) /\ chain' = Append(chain, Receipted(o))
    BY <1>1 DEF Inductive, TypeOK
  <2>2. Receipted(o).event = o.to /\ Receipted(o).review = o.review
    BY DEF Receipted
  <2> QED BY <1>n, <2>1, <2>2
<1>9. /\ ~ Overtaken(n)'
      /\ \A i \in DOMAIN chain : Overtaken(i)' <=> (Overtaken(i) \/ o.to = "activated")
  <2>1. n \in Nat
    BY <1>n DEF Inductive, TypeOK
  <2> QED BY <1>8, <2>1 DEF Overtaken
<1>10. \A i \in DOMAIN chain : chain[i].event = "activated" =>
         chain[i].review \in Review /\ Has(chain[i].review, "activated")
  BY Places DEF Has, Of, Inductive, Receipt
<1>11. ~ Has(o.review, "activated")
  BY <1>2, <1>5 DEF Inductive, Stories, Story
<1>6. CASE o.to = "activated" /\ pin' = o.review /\ pending' = 0
  <2>1. (pin # 0 => LastOf(pin) = "activated")'
    BY <1>1, <1>2, <1>6
  <2>2. ASSUME NEW i \in DOMAIN chain', chain'[i].event = "activated"
        PROVE  /\ ~ Overtaken(i)' => chain'[i].review = pin'
               /\ chain'[i].review # 0
    <3>1. i = n \/ i \in DOMAIN chain
      BY <1>8
    <3>2. CASE i = n
      BY <1>2, <1>6, <1>8, <3>2 DEF Review
    <3>3. CASE i \in DOMAIN chain
      BY <1>6, <1>8, <1>9, <1>10, <2>2, <3>3 DEF Review
    <3> QED BY <3>1, <3>2, <3>3
  <2> QED BY <1>6, <2>1, <2>2 DEF Pinned
<1>7. CASE UNCHANGED <<pin, pending>>
  <2>1. pin # 0 => LastOf(pin)' = "activated"
    BY <1>2, <1>4, <1>5, <1>7 DEF Inductive, Pinned
  <2>4. pending # 0 => Has(pending, "human-accepted")'
    BY <1>2, <1>4, <1>7 DEF Inductive, Pinned
  <2>2. pending # 0 => LastOf(pending)' \in {"activating", "activated", "activation-failed",
                                            "rolling-back", "custody-broken"}
    <3>1. CASE pending = o.review /\ pending # 0
      <4>1. o.st \in {"activating", "activation-failed", "rolling-back"}
        BY <1>2, <1>5, <3>1 DEF Inductive, Pinned
      <4>2. o.to \in {"activated", "activation-failed", "rolling-back", "rolled-back",
                      "custody-broken"}
        BY <1>2, <4>1, StepsAre
      <4>3. o.to # "rolled-back"
        BY <1>3, <3>1 DEF Moves
      <4> QED BY <1>2, <1>7, <3>1, <4>2, <4>3
    <3>2. CASE pending # o.review
      BY <1>2, <1>4, <1>7, <3>2 DEF Inductive, Pinned
    <3> QED BY <3>1, <3>2
  <2>3. ASSUME NEW i \in DOMAIN chain', chain'[i].event = "activated"
        PROVE  /\ ~ Overtaken(i)' => chain'[i].review \in {pin, pending}
               /\ chain'[i].review = pending => ~ Overtaken(i)'
    <3>1. CASE i = n
      BY <1>1, <1>8, <1>9, <2>3, <3>1
    <3>2. CASE i \in DOMAIN chain
      <4>1. /\ chain'[i] = chain[i] /\ chain[i].event = "activated"
            /\ ~ Overtaken(i) => chain[i].review \in {pin, pending}
            /\ chain[i].review = pending => ~ Overtaken(i)
        BY <1>8, <2>3, <3>2 DEF Inductive, Pinned
      <4>2. o.to = "activated" => chain[i].review # pending
        BY <1>1, <1>10, <1>11, <3>2, <4>1
      <4> QED BY <1>9, <3>2, <4>1, <4>2
    <3> QED BY <1>8, <2>3, <3>1, <3>2
  <2> QED BY <1>7, <2>1, <2>2, <2>3, <2>4 DEF Pinned
<1> QED BY <1>1, <1>6, <1>7

\* What a process makes of the receipt that came back
LEMMA AfterIs ==
  ASSUME NEW o \in Process, o.to \in Event, Len(chain) \in Nat
  PROVE  LET q == After(o) IN
         /\ q \in Process /\ q.art = 0
         /\ q.life = o.life /\ q.review = o.review /\ q.fresh = o.fresh
         /\ \/ q.pc = "halted" /\ q.op = "none" /\ q.st = o.st /\ q.init = o.init
            \/ /\ q.st = o.to /\ q.init
               /\ \/ q.pc = "integrity" /\ ~ o.init /\ q.op = o.op
                  \/ q.pc = "idle" /\ o.init /\ q.op = "none" /\ o.to \in Terminal
                  \/ q.pc = "run" /\ o.init /\ q.op = o.op
<1>1. PICK done : done = [o EXCEPT !.st = o.to, !.tail = Len(chain) + 1, !.to = "none", !.art = 0]
  OBVIOUS
<1>2. 0 \in Artifact
  BY CoordinatorAssumption DEF Artifact
<1>3. /\ done \in Process /\ done.st = o.to /\ done.art = 0 /\ done.op = o.op
      /\ done.life = o.life /\ done.review = o.review /\ done.fresh = o.fresh
      /\ done.init = o.init
  <2>1. PICK n \in Nat : n = Len(chain) + 1
    OBVIOUS
  <2>2. done = [o EXCEPT !.st = o.to, !.tail = n, !.to = "none", !.art = 0]
    BY <1>1, <2>1
  <2> QED BY <1>2, <2>2 DEF Process
<1>4. CASE o.tail # Len(chain) \/ o.to = "custody-broken"
  <2>1. After(o) = Halted(o)
    BY <1>4 DEF After
  <2> QED BY <2>1, HaltedIs DEF Alike
<1>5. CASE ~ (o.tail # Len(chain) \/ o.to = "custody-broken") /\ ~ o.init
  <2>1. PICK q : q = [done EXCEPT !.pc = "integrity", !.init = TRUE]
    OBVIOUS
  <2>2. After(o) = q
    BY <1>1, <1>5, <2>1 DEF After
  <2>3. /\ q \in Process /\ q.pc = "integrity" /\ q.init /\ q.op = done.op /\ q.st = done.st
        /\ q.art = 0 /\ q.life = done.life /\ q.review = done.review /\ q.fresh = done.fresh
    BY <1>3, <2>1 DEF Process
  <2> QED BY <1>3, <1>5, <2>2, <2>3
<1>6. CASE ~ (o.tail # Len(chain) \/ o.to = "custody-broken") /\ o.init /\ o.to \in Terminal
  <2>1. PICK e : e = Ended(done)
    OBVIOUS
  <2>2. e \in Process /\ e.pc = "idle" /\ e.op = "none" /\ e.art = 0 /\ Alike(e, done)
    BY <1>3, <2>1, EndedIs
  <2>3. PICK q : q = [e EXCEPT !.offered = FALSE]
    OBVIOUS
  <2>4. After(o) = q
    BY <1>1, <1>6, <2>1, <2>3 DEF After
  <2>5. q \in Process /\ q.pc = "idle" /\ q.op = "none" /\ q.art = 0 /\ Alike(q, e)
    BY <2>2, <2>3 DEF Process, Alike
  <2> QED BY <1>3, <1>6, <2>2, <2>4, <2>5 DEF Alike
<1>7. CASE ~ (o.tail # Len(chain) \/ o.to = "custody-broken") /\ o.init /\ o.to \notin Terminal
  <2>1. PICK q : q = [done EXCEPT !.pc = "run"]
    OBVIOUS
  <2>2. After(o) = q
    BY <1>1, <1>7, <2>1 DEF After
  <2>3. q \in Process /\ q.pc = "run" /\ q.op = done.op /\ q.art = 0 /\ Alike(q, done)
    BY <1>3, <2>1 DEF Process, Alike
  <2> QED BY <1>3, <1>7, <2>2, <2>3 DEF Alike
<1> QED BY <1>4, <1>5, <1>6, <1>7

\* Whoever else acts on the review of a receipt waits for its Chrome review,
\* and is too late with it.
LEMMA Late ==
  ASSUME Inductive, NEW p \in Panel, NEW o, o = proc[p], o.pc = "append", ~ Refused(o),
         chain' = Append(chain, Receipted(o)),
         NEW x \in Panel, x # p, NEW y, y = proc[x], Acts(y)
  PROVE  /\ Knows(y)'
         /\ y.review = o.review => y.st = "chrome-semantic-review"
<1>1. /\ o \in Process /\ Ops(o) /\ y \in Process /\ Knows(y) /\ Ops(y) /\ Apart(o, y) /\ Acts(o)
  BY ProcessIs DEF Acts, Publishing
<1>2. o.life # 0
  BY <1>1 DEF Ops
<1>3. /\ o.review \in Review \cap Nat /\ LastOf(o.review) = o.st
      /\ ArtOf(o.review)' = IF ArtOf(o.review) # {} THEN ArtOf(o.review)
                            ELSE IF o.st = "chrome-semantic-review" THEN {o.life} ELSE {}
      /\ \A s \in Nat \ {o.review} : LastOf(s)' = LastOf(s) /\ ArtOf(s)' = ArtOf(s)
  BY Publication
<1>4. y.review \in Review /\ y.review \in Nat /\ (Current(y) \/ Beaten(y))
  BY <1>1, CoordinatorAssumption DEF Knows, Review
<1>5. CASE y.review # o.review
  <2>1. LastOf(y.review)' = LastOf(y.review) /\ ArtOf(y.review)' = ArtOf(y.review)
    BY <1>3, <1>4, <1>5
  <2> QED BY <1>4, <1>5, <2>1 DEF Knows, Current, Beaten
<1>6. CASE y.review = o.review
  <2>1. o.st = "chrome-semantic-review" \/ y.st = "chrome-semantic-review"
    BY <1>1, <1>6 DEF Apart
  <2>2. y.st = "chrome-semantic-review"
    BY <1>3, <1>4, <1>6, <2>1 DEF Current, Beaten
  <2>3. ArtOf(o.review)' # {} /\ y.life \notin ArtOf(o.review)'
    <3>1. CASE o.st = "chrome-semantic-review"
      <4>1. ArtOf(o.review) = {}
        BY <1>3, <3>1 DEF Inductive, Stories, Story
      <4> QED BY <1>1, <1>2, <1>3, <3>1, <4>1 DEF Apart
    <3>2. CASE o.st # "chrome-semantic-review"
      BY <1>3, <1>4, <1>6, <2>2, <3>2 DEF Current, Beaten
    <3> QED BY <3>1, <3>2
  <2> QED BY <1>4, <1>6, <2>2, <2>3 DEF Knows, Beaten
<1> QED BY <1>5, <1>6

\* One process publishes what it was moving to; the others learn nothing of it
\* but that a Chrome review of theirs has been decided without them.
LEMMA PublishStep ==
  ASSUME Inductive, NEW p \in Panel, proc[p].pc = "append", ~ Refused(proc[p]),
         proc[p].to = "activated" => pending = proc[p].review,
         chain' = Append(chain, Receipted(proc[p])), Set(p, After(proc[p])),
         UNCHANGED <<spent, resumes, lives, faults>>,
         \/ proc[p].to = "activated" /\ pin' = proc[p].review /\ pending' = 0
         \/ UNCHANGED <<pin, pending>>
  PROVE  Inductive'
<1>1. PICK o : o = proc[p]
  OBVIOUS
<1>2. PICK q : q = After(o)
  OBVIOUS
<1>3. /\ o \in Process /\ Moves(o) /\ Ops(o) /\ (resumes => Resumed(o)) /\ Acts(o) /\ Publishing(o)
      /\ \A x \in Panel \ {p} :
           /\ proc[x] \in Process /\ Apart(o, proc[x]) /\ Ops(proc[x])
           /\ resumes => proc[x] = Off
  BY <1>1, ProcessIs DEF Acts, Publishing
<1>4. /\ o.review \in Review \cap Nat /\ LastOf(o.review) = o.st /\ <<o.st, o.to>> \in Steps
      /\ chain' \in Seq(Receipt) /\ Paths' /\ LastOf(o.review)' = o.to
      /\ \A s \in Nat \ {o.review} : LastOf(s)' = LastOf(s)
      /\ Reviews' = Reviews \cup {o.review} /\ chain'[Len(chain')].review = o.review
      /\ Mine(o) => \A z : z.review = o.review /\ z.life = o.life => Mine(z)'
  BY <1>1, Publication
<1>5. /\ q \in Process /\ q.art = 0
      /\ q.life = o.life /\ q.review = o.review /\ q.fresh = o.fresh
      /\ \/ q.pc = "halted" /\ q.op = "none" /\ q.st = o.st /\ q.init = o.init
         \/ /\ q.st = o.to /\ q.init
            /\ \/ q.pc = "integrity" /\ ~ o.init /\ q.op = o.op
               \/ q.pc = "idle" /\ o.init /\ q.op = "none" /\ o.to \in Terminal
               \/ q.pc = "run" /\ o.init /\ q.op = o.op
  BY <1>2, <1>3, <1>4, StepsAre, AfterIs, Places DEF Inductive
<1>6. /\ proc \in [Panel -> Process] /\ proc' \in [Panel -> Process] /\ proc'[p] = q
      /\ \A x \in Panel \ {p} : proc'[x] = proc[x]
  BY <1>1, <1>2, <1>5 DEF Set, Inductive, TypeOK
<1>7. TypeOK'
  <2>1. o.review \in 0 .. MaxReview /\ 0 \in 0 .. MaxReview
    BY <1>3, CoordinatorAssumption DEF Process
  <2>2. pin' \in 0 .. MaxReview /\ pending' \in 0 .. MaxReview
    BY <1>1, <2>1 DEF Inductive, TypeOK
  <2> QED BY <1>4, <1>6, <2>2 DEF Inductive, TypeOK
<1>8. Stories' /\ Pinned'
  BY PublishedStories, PublishedPinned
<1>9. Publishing(q) = FALSE /\ (Acts(q) => q.fresh /\ q.st = o.to)
  BY <1>5 DEF Publishing, Acts
<1>10. Knows(q)' /\ Moves(q)' /\ Ops(q)'
  <2>1. Knows(q)'
    BY <1>4, <1>5, <1>9 DEF Knows, Current
  <2>2. o.to = "eligible" => <<o.review, "reject">> \notin spent
    BY <1>4, StepsAre DEF Inductive, Stories, Story
  <2>3. Moves(q)'
    BY <1>5, <1>9, <2>2 DEF Moves
  <2>4. o.to = "chrome-semantic-review" => o.fresh
    BY <1>3 DEF Moves
  <2>5. o.life # 0 /\ o.life <= lives
    BY <1>1, <1>3 DEF Ops
  <2>6. Ops(q)'
    BY <1>3, <1>5, <2>4, <2>5 DEF Ops, Publishing
  <2> QED BY <2>1, <2>3, <2>6
<1>11. ASSUME NEW x \in Panel, x # p PROVE (Knows(proc[x]) /\ Moves(proc[x]) /\ Ops(proc[x]))'
  <2>1. PICK y \in Process : y = proc[x]
    BY <1>6
  <2>2. Knows(y) /\ Moves(y) /\ Ops(y)
    BY <2>1, ProcessIs
  <2>3. Knows(y)'
    <3>1. CASE Acts(y)
      BY <1>1, <1>11, <2>1, <3>1, Late
    <3>2. CASE ~ Acts(y)
      BY <3>2 DEF Knows
    <3> QED BY <3>1, <3>2
  <2>4. Publishing(y) => y.review # 0
    BY <2>2 DEF Knows, Acts, Publishing, Review
  <2>5. Moves(y)'
    BY <2>2, <2>4 DEF Moves
  <2>6. Ops(y)'
    BY <2>2 DEF Ops
  <2>7. proc'[x] = y
    BY <1>6, <1>11, <2>1
  <2> QED BY <2>3, <2>5, <2>6, <2>7 DEF Knows, Moves, Ops, Current, Beaten
<1>12. Panels'
  <2>1. ASSUME NEW x \in Panel PROVE (Knows(proc[x]) /\ Moves(proc[x]) /\ Ops(proc[x]))'
    <3>1. CASE x = p
      BY <1>6, <1>10, <3>1 DEF Knows, Moves, Ops, Current, Beaten
    <3>2. CASE x # p
      BY <1>11, <3>2
    <3> QED BY <3>1, <3>2
  <2> QED BY <2>1 DEF Panels
<1>13. ASSUME NEW x \in Panel, x # p PROVE Apart(q, proc[x]) /\ Apart(proc[x], q)
  <2>1. PICK y \in Process : y = proc[x]
    BY <1>6
  <2>2. Apart(o, y) /\ Ops(y) /\ (resumes => y = Off)
    BY <1>3, <1>13, <2>1
  <2>3. Acts(q) /\ Acts(y) /\ q.review = y.review => y.st = "chrome-semantic-review"
    <3>1. CASE Acts(y)
      <4>1. y.review = o.review => y.st = "chrome-semantic-review"
        BY <1>1, <1>13, <2>1, <3>1, Late
      <4> QED BY <1>5, <4>1
    <3>2. CASE ~ Acts(y)
      BY <3>2
    <3> QED BY <3>1, <3>2
  <2>4. resumes => y.pc = "off"
    BY <2>2 DEF Off
  <2> QED BY <1>5, <2>1, <2>2, <2>3, <2>4 DEF Apart
<1>14. Aparts'
  <2>1. ASSUME NEW x \in Panel, NEW z \in Panel, x # z PROVE Apart(proc'[x], proc'[z])
    BY <1>6, <1>13, <2>1 DEF Inductive, Aparts
  <2> QED BY <2>1 DEF Aparts, Apart
<1>15. Alone'
  <2> SUFFICES ASSUME resumes
               PROVE  /\ \A r \in Reviews' : r # o.review => LastOf(r)' \in Terminal
                      /\ \A x \in Panel : Resumed(proc[x])'
    BY <1>4 DEF Alone
  <2>1. /\ Current(o) /\ (o.fresh => Mine(o))
        /\ \A r \in Reviews : r # o.review => LastOf(r) \in Terminal
        /\ o.op \notin {"resume", "rollback"} => Over(o) \/ Mine(o)
        /\ o.op # "resume" => o.init
    BY <1>1, <1>3 DEF Resumed
  <2>2. \A r \in Reviews' : r # o.review => LastOf(r)' \in Terminal
    <3>1. \A r \in Reviews : r \in Nat
      BY Places, CoordinatorAssumption DEF Inductive, Reviews, Receipt, Review
    <3> QED BY <1>4, <2>1, <3>1
  <2>3. Over(o) => Mine(o)
    <3>1. Over(o) => o.st = "none"
      BY <1>4, StepsAre DEF Over
    <3>2. o.st = "none" => Of(o.review) = {}
      BY <1>4, NoneIsNone DEF Inductive
    <3> QED BY <3>1, <3>2 DEF Mine
  <2>4. Mine(o) => Mine(q)'
    BY <1>4, <1>5
  <2>5. q.pc # "halted" => Current(q)'
    BY <1>4, <1>5 DEF Current
  <2>6. Resumed(q)'
    <3>1. q.pc = "idle" => Over(q)'
      BY <1>5 DEF Over
    <3> QED BY <1>5, <1>9, <2>1, <2>2, <2>3, <2>4, <2>5, <3>1 DEF Resumed
  <2>7. ASSUME NEW x \in Panel PROVE Resumed(proc[x])'
    <3>1. CASE x = p
      BY <1>6, <2>6, <3>1 DEF Resumed, Current, Mine, Over
    <3>2. CASE x # p
      <4>1. proc'[x] = Off
        BY <1>3, <1>6, <3>2
      <4>2. Off.pc = "off" /\ Off.op = "none"
        BY DEF Off
      <4> QED BY <4>1, <4>2 DEF Resumed, Publishing
    <3> QED BY <3>1, <3>2
  <2> QED BY <2>2, <2>7
<1> QED BY <1>4, <1>7, <1>8, <1>12, <1>14, <1>15 DEF Inductive

\* The ledger refuses the receipt, or publishes it.
LEMMA AppendStep == ASSUME Inductive, NEW p \in Panel, AppendReceipt(p) PROVE Inductive'
<1>1. CASE Refused(proc[p]) /\ Set(p, Halted(proc[p])) /\ UNCHANGED <<chain, pin, pending>>
  <2>1. PICK q : q = Halted(proc[p])
    OBVIOUS
  <2>2. proc[p] \in Process /\ faults' \in 0 .. MaxFault
    BY DEF AppendReceipt, Inductive, TypeOK
  <2>3. q \in Process /\ q.pc = "halted" /\ q.op = "none" /\ q.art = 0 /\ Alike(q, proc[p])
    BY <2>1, <2>2, HaltedIs
  <2> QED BY <1>1, <2>1, <2>2, <2>3, Halts DEF AppendReceipt, At, Set
<1>2. CASE ~ Refused(proc[p])
  BY <1>2, PublishStep DEF AppendReceipt, At
<1> QED BY <1>1, <1>2 DEF AppendReceipt

-----------------------------------------------------------------------------
\* At the start nobody knows of a review.
LEMMA InitInductive == Init => Inductive
<1> SUFFICES ASSUME Init PROVE Inductive
  OBVIOUS
<1>1. chain = <<>> /\ DOMAIN chain = {} /\ Reviews = {} /\ \A r : Of(r) = {}
  BY DEF Init, Of, Reviews
<1>2. Off \in Process
  BY CoordinatorAssumption DEF Off, Process, Artifact
<1>3. \A p \in Panel : proc[p] = Off
  BY DEF Init
<1>4. TypeOK
  BY <1>2, CoordinatorAssumption DEF Init, TypeOK
<1>5. Paths
  BY <1>1 DEF Paths, IsLatest
<1>6. \A r : LastOf(r) = "none" /\ ArtOf(r) = {} /\ \A e : ~ Has(r, e)
  BY <1>1 DEF LastOf, Latest, ArtOf, Has
<1>7. Stories
  <2>1. "none" \notin Accepted /\ "none" \notin Early
    BY DEF Accepted, Early
  <2> QED BY <1>6, <2>1 DEF Stories, Story, Init
<1>8. Pinned
  BY <1>1 DEF Pinned, Init
<1>9. ~ Acts(Off) /\ ~ Publishing(Off) /\ Off.pc = "off" /\ Off.life = 0 /\ Off.op = "none"
      /\ Off.art = 0 /\ Off.fresh = FALSE /\ Off.st = "none"
  BY DEF Off, Acts, Publishing
<1>10. Knows(Off) /\ Moves(Off) /\ Resumed(Off) /\ Apart(Off, Off)
  BY <1>9 DEF Knows, Moves, Resumed, Publishing, Apart
<1>11. Ops(Off)
  BY <1>9 DEF Ops, Init
<1>12. Panels /\ Aparts
  BY <1>3, <1>10, <1>11 DEF Panels, Aparts
<1>13. Alone
  BY <1>1, <1>3, <1>10 DEF Alone
<1> QED BY <1>4, <1>5, <1>7, <1>8, <1>12, <1>13 DEF Inductive

\* Nothing changes
LEMMA Stutter == ASSUME Inductive, UNCHANGED vars PROVE Inductive'
<1>1. TypeOK'
  BY DEF vars, Inductive, TypeOK
<1>2. Paths' /\ chain' = chain /\ proc' = proc /\ resumes' = resumes /\ lives' = lives
      /\ spent' = spent /\ pin' = pin /\ pending' = pending
  BY SameChain DEF vars, Inductive
<1>3. Stories' /\ Pinned'
  BY <1>2, SameChain DEF Inductive, Stories, Story, Pinned
<1>4. Panels'
  BY <1>2, SameChain DEF Inductive, Panels, Knows, Moves, Ops, Current, Beaten
<1>5. Aparts'
  BY <1>2 DEF Inductive, Aparts, Apart
<1>6. Alone'
  <2>1. \A p \in Panel : Resumed(proc[p])' <=> Resumed(proc[p])
    <3> TAKE p \in Panel
    <3>1. PICK q : q = proc[p]
      OBVIOUS
    <3>2. Resumed(q)' <=> Resumed(q)
      BY <1>2, SameResumed
    <3> QED BY <1>2, <3>1, <3>2 DEF Resumed, Current, Mine, Over
  <2> QED BY <1>2, <2>1, SameChain DEF Inductive, Alone
<1> QED BY <1>1, <1>2, <1>3, <1>4, <1>5, <1>6 DEF Inductive

\* Every step of every panel keeps the invariant.
LEMMA InductiveStep == Inductive /\ [Next]_vars => Inductive'
<1> SUFFICES ASSUME Inductive, [Next]_vars PROVE Inductive'
  OBVIOUS
<1>1. ASSUME NEW p \in Panel, Works(p) PROVE Inductive'
  BY <1>1, InitializeStep, CheckStep, AppendStep, CancelledStep, FetchStep, StagesStep, ChromeStep,
     GrantStep, DecideStep, ActivateStep, RollbackStep, ResumeStep DEF Works
<1>2. ASSUME NEW p \in Panel, Boot(p) \/ Die(p) \/ Fault(p) PROVE Inductive'
  BY <1>2, BootStep, DieStep, FaultStep
<1>3. ASSUME NEW p \in Panel, NEW op \in {"status", "start", "accept", "reject"}, Call(p, op)
      PROVE  Inductive'
  BY <1>3, CallStep
<1>4. CASE UNCHANGED vars
  BY <1>4, Stutter
<1> QED BY <1>1, <1>2, <1>3, <1>4 DEF Next

\* The invariant holds of every execution, for any number of panels, reviews,
\* process starts and I/O faults.
THEOREM InvariantHolds == Spec => []Inductive
  BY InitInductive, InductiveStep, PTL DEF Spec

\* The coordinators, the nonces, the journal and the chain keep their types.
THEOREM TypeCorrect == Spec => []TypeOK
<1>1. Inductive => TypeOK
  BY DEF Inductive
<1> QED BY <1>1, InvariantHolds, PTL

\* What the panels write to the chain is always a history #initialize accepts,
\* though each of them checks the chain in one step and appends in another.
THEOREM HistoriesAreLegal == Spec => []HistoryLegal
<1>1. Inductive => HistoryLegal
  <2> SUFFICES ASSUME Inductive, NEW r \in Reviews, NEW i \in Of(r)
               PROVE  <<Latest(Before(i)), chain[i].event>> \in Steps
    BY DEF HistoryLegal, Legal
  <2>1. i \in DOMAIN chain /\ Before(i) \in SUBSET Nat
    BY Places DEF Inductive, Of
  <2>2. PICK e \in Event \cup {"none"} : IsLatest(Before(i), e) /\ <<e, chain[i].event>> \in Steps
    BY <2>1 DEF Inductive, Paths
  <2>3. Latest(Before(i)) = e
    BY <2>1, <2>2, LatestSays
  <2> QED BY <2>2, <2>3
<1> QED BY <1>1, InvariantHolds, PTL

\* An acceptance in the chain, and every activation, is one the user decided,
\* and a review whose rejection was consumed is never accepted.
THEOREM AcceptanceIsTheUsers == Spec => []AcceptedByUser
<1>1. Inductive => AcceptedByUser
  <2> SUFFICES ASSUME Inductive, NEW r \in Reviews
               PROVE  /\ Has(r, "human-accepted") => <<r, "accept">> \in spent
                      /\ pending = r \/ pin = r => Has(r, "human-accepted")
                      /\ <<r, "reject">> \in spent => ~ Has(r, "human-accepted")
    BY DEF AcceptedByUser
  <2>1. r \in Review /\ r # 0
    BY Places DEF Inductive, Reviews, Receipt, Review
  <2>2. Story(r)
    BY <2>1 DEF Inductive, Stories
  <2>3. pin = r => LastOf(r) \in Accepted
    BY <2>1 DEF Inductive, Pinned, Accepted
  <2>4. pending = r => Has(r, "human-accepted")
    BY <2>1 DEF Inductive, Pinned
  <2>5. {"eligible", "rejected"} \cap (Accepted \cup {"custody-broken"}) = {}
    BY DEF Accepted
  <2> QED BY <2>2, <2>3, <2>4, <2>5 DEF Story
<1> QED BY <1>1, InvariantHolds, PTL

\* Of the activations the chain records the last is the pin's, or the journal's
\* that will make it so, whatever dies between the store and the receipt and
\* whoever recovers the store.
THEOREM PinIsTheChains == Spec => []PinAgrees
<1>1. Inductive => PinAgrees
  <2> SUFFICES ASSUME Inductive PROVE PinAgrees
    OBVIOUS
  <2>1. \A r \in Reviews : r # 0
    BY Places DEF Inductive, Reviews, Receipt, Review
  <2> QED BY <2>1 DEF Inductive, Pinned, PinAgrees
<1> QED BY <1>1, InvariantHolds, PTL

\* A process that resumes leaves no review of an earlier one open behind it.
THEOREM ResumeCloses == Spec => []ResumedIsClosed
<1>1. Inductive => ResumedIsClosed
  <2> SUFFICES ASSUME Inductive, resumes, NEW p \in Panel, proc[p].pc = "idle",
                      NEW i \in DOMAIN chain, Before(i) = {}, chain[i].life # proc[p].life
               PROVE  LastOf(chain[i].review) \in Terminal
    BY DEF ResumedIsClosed, At
  <2>1. proc[p] \in Process /\ Ops(proc[p]) /\ Resumed(proc[p])
    BY ProcessIs
  <2>2. chain[i].review \in Reviews /\ i \in Of(chain[i].review) /\ chain[i].review \in Nat
    BY Places, CoordinatorAssumption DEF Reviews, Of, Inductive, Receipt, Review
  <2>3. CASE chain[i].review # proc[p].review
    BY <2>1, <2>2, <2>3 DEF Resumed
  <2>4. CASE chain[i].review = proc[p].review
    <3>1. ~ Mine(proc[p])
      BY <2>2, <2>4 DEF Mine, First
    <3>2. Over(proc[p]) /\ LastOf(proc[p].review) = proc[p].st
      BY <2>1, <3>1 DEF Resumed, Ops, Current
    <3>3. LastOf(proc[p].review) # "none"
      BY <2>2, <2>4, NoneIsNone DEF Inductive
    <3> QED BY <2>4, <3>2, <3>3 DEF Over
  <2> QED BY <2>3, <2>4
<1> QED BY <1>1, InvariantHolds, PTL
-----------------------------------------------------------------------------
(* The Codex run.  CodexConstants is CodexAssumption of CodexReview, said   *)
(* of the constants it is instantiated with.                                *)
CodexConstants ==
  MaxOutput \in Nat /\ MaxReview \in Nat \ {0} /\ MaxSaid \in Nat /\ MaxPipe \in Nat \ {0}

(* A child lives only in boundedRun of the review under way.                *)
ChildIsWatched == stage # "run" => life \in {"none", "gone"}
(* What is read is within the limit, or the limit was noted.                *)
LimitIsNoted == read <= MaxOutput \/ "limit" \in flags
(* What a parser that has taken the first n lines knows of them.            *)
Takes(i) == said[i].type \in {"started", "reasoning", "message"}
Later(i, n) == \E j \in i + 1 .. n :
                said[j].type \in {"reasoning", "message"} /\ said[j].item = said[i].item
Knew(n, s) ==
  /\ n \in Nat /\ n <= Len(said)
  /\ n >= 1 => said[1].type = "thread"
  /\ n >= 2 => said[2].type = "turn"
  /\ s.phase = "initial" => n = 0
  /\ s.phase = "thread" => n = 1
  /\ s.phase \in {"turn", "done"} => n >= 2
  /\ s.phase # "done" => \A i \in 3 .. n : Takes(i)
  /\ s.phase = "done" => n >= 3 /\ said[n].type = "done" /\ \A i \in 3 .. n - 1 : Takes(i)
  /\ s.phase = "done" => s.final # "none" /\ s.pending = {}
  /\ s.final = "none" => \A i \in 1 .. n : said[i].type # "message"
  /\ s.final # "none" => \E m \in 1 .. n :
       /\ said[m].type = "message" /\ said[m].text = s.final
       /\ \A i \in 1 .. n : said[i].type = "message" => i = m
  /\ \A i \in 1 .. n : said[i].type = "started" => said[i].item \in s.pending \/ Later(i, n)
(* boundedRun has parsed what it read, but for an unterminated last line.   *)
Taken == IF cut /\ read = Len(said) THEN read - 1 ELSE read
ParserFollows == flags = {} => Knew(Taken, parser)
(* A verdict stands on a clean run of a sampled child that wrote a turn.    *)
VerdictIsEarned == stage # "run" /\ stage # "idle" /\ result \in Codex!Verdict =>
  /\ sample[review] = "given" /\ code = "zero" /\ flags = {} /\ file = result
  /\ Len(said) <= MaxOutput /\ WholeTurn(result)
Begun == stage # "idle" => review \in Codex!Review

(* All of it is kept by every step.                                         *)
CodexInductive ==
  /\ Codex!TypeOK /\ Codex!SampledFirst /\ ChildIsWatched /\ LimitIsNoted /\ VerdictIsEarned
  /\ ParserFollows /\ Begun

(* The parser keeps its types.                                              *)
LEMMA ParserIsTyped ==
  ASSUME NEW s \in Codex!Parser, NEW e \in Codex!Event, Codex!Accepts(s, e)
  PROVE  Codex!Parsed(s, e) \in Codex!Parser
  <1>1. CASE e.type \in {"thread", "turn", "done"}
    BY <1>1 DEF Codex!Parsed, Codex!Parser
  <1>2. CASE e.type = "started"
    <2>1. e.item \in Item
      BY <1>2 DEF Codex!Event
    <2>. QED
      BY <1>2, <2>1 DEF Codex!Parsed, Codex!Parser
  <1>3. CASE e.type \in {"reasoning", "message"}
    <2>1. e.item \in Item /\ (e.type = "message" => e.text \in Codex!Verdict)
      BY <1>3 DEF Codex!Event
    <2>. QED
      BY <1>3, <2>1 DEF Codex!Parsed, Codex!Parser
  <1>4. e.type \in {"thread", "turn", "done", "started", "reasoning", "message"}
    BY DEF Codex!Accepts
  <1>. QED
    BY <1>1, <1>2, <1>3, <1>4

(* A line more: what the parser knows of the lines grows with it.           *)
LEMMA ParserKnows ==
  ASSUME said \in Seq(Codex!Event), NEW n \in Nat, n + 1 <= Len(said),
         NEW s \in Codex!Parser, Knew(n, s), Codex!Accepts(s, said[n + 1])
  PROVE  Knew(n + 1, Codex!Parsed(s, said[n + 1]))
  <1> DEFINE e == said[n + 1]
  <1>1. PICK t : t = Codex!Parsed(s, e)
    OBVIOUS
  <1>2. /\ e.type \in {"thread", "turn", "done", "started", "reasoning", "message"}
        /\ e.type = "thread" <=> s.phase = "initial"
        /\ e.type = "turn" <=> s.phase = "thread"
        /\ e.type \in {"done", "started", "reasoning", "message"} <=> s.phase = "turn"
        /\ s.phase # "done"
        /\ e.type = "done" => s.final # "none" /\ s.pending = {}
        /\ e.type = "message" => s.final = "none"
    BY DEF Codex!Accepts, Codex!Open
  <1>3. /\ t.phase = (IF e.type \in {"thread", "turn", "done"} THEN e.type ELSE s.phase)
        /\ t.final = (IF e.type = "message" THEN e.text ELSE s.final)
        /\ t.pending = (IF e.type = "started" THEN s.pending \cup {e.item}
                        ELSE IF e.type \in {"reasoning", "message"} THEN s.pending \ {e.item}
                        ELSE s.pending)
    BY <1>1, <1>2 DEF Codex!Parsed, Codex!Parser
  <1>4. e.type = "message" => e.text \in Codex!Verdict /\ e.text # "none"
    BY DEF Codex!Event, Codex!Verdict
  <1>5. \A i \in 1 .. n : said[i].type = "started" => said[i].item \in t.pending \/ Later(i, n + 1)
    <2> SUFFICES ASSUME NEW i \in 1 .. n, said[i].type = "started", said[i].item \notin t.pending
                 PROVE  Later(i, n + 1)
      OBVIOUS
    <2>1. CASE Later(i, n)
      BY <2>1 DEF Later
    <2>2. CASE ~ Later(i, n)
      <3>1. said[i].item \in s.pending
        BY <2>2 DEF Knew
      <3>2. e.type \in {"reasoning", "message"} /\ e.item = said[i].item
        BY <1>3, <3>1
      <3>3. n + 1 \in i + 1 .. n + 1
        OBVIOUS
      <3> QED BY <3>2, <3>3 DEF Later
    <2> QED BY <2>1, <2>2
  <1>6. \A i \in 1 .. n + 1 : said[i].type = "started" => said[i].item \in t.pending \/ Later(i, n + 1)
    <2>1. e.type = "started" => e.item \in t.pending
      BY <1>3
    <2> QED BY <1>5, <2>1
  <1>7. t.final = "none" => \A i \in 1 .. n + 1 : said[i].type # "message"
    BY <1>3, <1>4 DEF Knew
  <1>8. t.final # "none" => \E m \in 1 .. n + 1 :
          /\ said[m].type = "message" /\ said[m].text = t.final
          /\ \A i \in 1 .. n + 1 : said[i].type = "message" => i = m
    <2>1. CASE e.type = "message"
      BY <1>2, <1>3, <2>1 DEF Knew
    <2>2. CASE e.type # "message"
      BY <1>3, <2>2 DEF Knew
    <2> QED BY <2>1, <2>2
  <1>9. /\ n + 1 >= 1 => said[1].type = "thread"
        /\ n + 1 >= 2 => said[2].type = "turn"
        /\ t.phase # "initial"
        /\ t.phase = "thread" => n + 1 = 1
        /\ t.phase \in {"turn", "done"} => n + 1 >= 2
    BY <1>2, <1>3 DEF Knew, Codex!Parser
  <1>10. /\ t.phase # "done" => \A i \in 3 .. n + 1 : Takes(i)
         /\ t.phase = "done" => n + 1 >= 3 /\ said[n + 1].type = "done"
                                 /\ \A i \in 3 .. n : Takes(i)
    <2>1. \A i \in 3 .. n : Takes(i)
      BY <1>2 DEF Knew
    <2>2. n + 1 >= 3 /\ t.phase # "done" => Takes(n + 1)
      BY <1>2, <1>3 DEF Knew, Takes, Codex!Parser
    <2> QED BY <1>2, <1>3, <2>1, <2>2 DEF Knew
  <1>11. t.phase = "done" => t.final # "none" /\ t.pending = {}
    BY <1>2, <1>3
  <1>12. (n + 1) - 1 = n
    OBVIOUS
  <1>13. Knew(n + 1, t)
    BY <1>6, <1>7, <1>8, <1>9, <1>10, <1>11, <1>12 DEF Knew
  <1>. QED
    BY <1>1, <1>13

(* A parser that has taken every line and is done has taken a whole turn.   *)
LEMMA KnewTurn ==
  ASSUME said \in Seq(Codex!Event), NEW s, Knew(Len(said), s), s.phase = "done"
  PROVE  WholeTurn(s.final)
  <1> DEFINE n == Len(said)
  <1>1. /\ n \in Nat /\ n >= 3 /\ said[1].type = "thread" /\ said[2].type = "turn"
        /\ said[n].type = "done" /\ s.final # "none" /\ s.pending = {}
        /\ \A i \in 3 .. n - 1 : Takes(i)
    BY DEF Knew
  <1>2. PICK m \in 1 .. n : /\ said[m].type = "message" /\ said[m].text = s.final
                            /\ \A i \in 1 .. n : said[i].type = "message" => i = m
    BY <1>1 DEF Knew
  <1>3. m \in 3 .. n - 1 /\ n > 3
    BY <1>1, <1>2
  <1>4. \A i \in 3 .. n - 1 : said[i].type = "started" => Completed(i)
    BY <1>1 DEF Knew, Later, Completed
  <1>5. \A i \in 3 .. n - 1 : i \in 1 .. n
    BY <1>1
  <1>. QED
    BY <1>1, <1>2, <1>3, <1>4, <1>5 DEF WholeTurn, Takes

(* So does the second parse of the whole output, whose last line may be     *)
(* unterminated.                                                            *)
LEMMA FinalIsTyped ==
  ASSUME Codex!TypeOK
  PROVE  Codex!Final \in Codex!Parser
  <1>1. Codex!Fresh \in Codex!Parser
    BY DEF Codex!Fresh, Codex!Parser
  <1>2. cut => said[Len(said)] \in Codex!Event
    BY DEF Codex!TypeOK
  <1>. QED
    BY <1>1, <1>2, ParserIsTyped DEF Codex!Final, Codex!TypeOK

(* The strengthening holds at first.                                        *)
LEMMA CodexInit ==
  ASSUME CodexConstants
  PROVE  Codex!Init => CodexInductive
  <1> SUFFICES ASSUME Codex!Init
               PROVE  CodexInductive
    OBVIOUS
  <1>1. Codex!Fresh \in Codex!Parser
    BY DEF Codex!Fresh, Codex!Parser
  <1>2. Codex!TypeOK
    <2> USE <1>1 DEF CodexConstants, Codex!Init, Codex!TypeOK, Codex!Review
    <2>1. said \in Seq(Codex!Event) /\ Len(said) <= MaxSaid /\ read \in 0 .. Len(said)
      OBVIOUS
    <2>3. cut \in BOOLEAN /\ finalized \in BOOLEAN /\ ~cut
      OBVIOUS
    <2>4. sample \in [Codex!Review -> {"none", "asked", "given", "refused"}]
      OBVIOUS
    <2>5. /\ held \in [Codex!Review -> 0 .. MaxReview]
          /\ outcome \in [Codex!Review -> {"none", "passed", "failed"}]
      OBVIOUS
    <2>6. review \in 0 .. MaxReview /\ os \in 0 .. MaxReview
      OBVIOUS
    <2>2. parser \in Codex!Parser /\ flags \subseteq {"timeout", "limit", "events", "sample"}
      OBVIOUS
    <2>. QED
      BY <2>1, <2>2, <2>3, <2>4, <2>5, <2>6
  <1>3. ChildIsWatched /\ LimitIsNoted /\ Codex!SampledFirst /\ VerdictIsEarned /\ Begun
    BY DEF CodexConstants, Codex!Init, ChildIsWatched, LimitIsNoted, Codex!SampledFirst,
         VerdictIsEarned,
         Begun
  <1>4. ParserFollows
    BY DEF Codex!Init, Codex!Fresh, ParserFollows, Taken, Knew
  <1>. QED
    BY <1>2, <1>3, <1>4 DEF CodexInductive

-----------------------------------------------------------------------------
(* One step keeps the types.                                                *)
LEMMA CodexTypes ==
  ASSUME CodexConstants, Codex!TypeOK, ChildIsWatched, Begun, [Codex!Next]_(Codex!vars)
  PROVE  Codex!TypeOK'
  <1> USE DEF CodexConstants, Codex!TypeOK, Codex!Review, Codex!Kept, Codex!Ran
  <1>1. CASE Codex!Start
    <2>1. Codex!Fresh \in Codex!Parser
      BY DEF Codex!Fresh, Codex!Parser
    <2>2. /\ review' \in 0 .. MaxReview /\ said' \in Seq(Codex!Event) /\ Len(said') = 0 /\ read' = 0
          /\ parser' \in Codex!Parser /\ flags' = {}
      BY <1>1, <2>1 DEF Codex!Start
    <2>3. /\ stage' \in {"run", "finalize"} /\ life' \in {"none", "held"} /\ code' = "none"
          /\ result' \in {"none", "failed"}
          /\ sample' \in [Codex!Review -> {"none", "asked", "given", "refused"}]
      BY <1>1 DEF Codex!Start
    <2>4. /\ file' = "none" /\ os' = 0 /\ attestation' = "none" /\ UNCHANGED <<held, outcome>>
      BY <1>1 DEF Codex!Start
    <2>5. cut' \in BOOLEAN /\ ~cut' /\ finalized' \in BOOLEAN
      BY <1>1 DEF Codex!Start
    <2>. QED
      BY <2>2, <2>3, <2>4, <2>5
  <1>2. ASSUME NEW r \in Codex!Review, Codex!Sampled(r)
        PROVE  Codex!TypeOK'
    BY <1>2 DEF Codex!Sampled
  <1>3. ASSUME NEW r \in Codex!Review, Codex!Refused(r)
        PROVE  Codex!TypeOK'
    <2>1. UNCHANGED <<review, stage, said, read, cut, parser, file, attestation, result, finalized,
                      held, outcome>>
      BY <1>3 DEF Codex!Refused
    <2>2. os' \in 0 .. MaxReview /\ sample' \in [Codex!Review -> {"none", "asked", "given", "refused"}]
      BY <1>3 DEF Codex!Refused
    <2>3. flags' \subseteq {"timeout", "limit", "events", "sample"}
      BY <1>3 DEF Codex!Refused, Codex!Note
    <2>4. /\ life' \in {"none", "held", "fed", "exited", "gone"} /\ code' \in {"none", "zero", "other"}
          /\ stage' = "idle" => life' \in {"none", "gone"}
      BY <1>3 DEF Codex!Refused, Codex!Note, Codex!Stop, Codex!Running
    <2>. QED
      BY <2>1, <2>2, <2>3, <2>4
  <1>4. ASSUME NEW e \in Codex!Event, NEW whole \in BOOLEAN, Codex!Say(e, whole)
        PROVE  Codex!TypeOK'
    BY <1>4 DEF Codex!Say, Codex!Child
  <1>5. ASSUME NEW v \in Codex!Verdict \cup {"invalid"}, Codex!WriteFile(v)
        PROVE  Codex!TypeOK'
    BY <1>5 DEF Codex!WriteFile, Codex!Child
  <1>6. CASE Codex!Exit("zero") \/ Codex!Exit("other")
    <2>1. stage = "run" /\ life' = "exited" /\ code' \in {"zero", "other"}
      BY <1>6 DEF Codex!Exit, Codex!Running, ChildIsWatched
    <2>2. UNCHANGED <<review, stage, said, read, cut, parser, flags, file, sample, os, attestation,
                      result, finalized, held, outcome>>
      BY <1>6 DEF Codex!Exit, Codex!Child
    <2>. QED
      BY <2>1, <2>2
  <1>7. CASE Codex!Read
    <2> DEFINE e == said[read + 1]
    <2>1. /\ stage = "run" /\ read' = read + 1 /\ read' \in 0 .. Len(said) /\ e \in Codex!Event
      BY <1>7 DEF Codex!Read
    <2>2. UNCHANGED <<review, stage, said, cut, file, sample, os, attestation, result, finalized,
                      held, outcome>>
      BY <1>7 DEF Codex!Read
    <2>3. parser' \in Codex!Parser
      BY <1>7, <2>1, ParserIsTyped DEF Codex!Read, Codex!Note
    <2>4. flags' \subseteq {"timeout", "limit", "events", "sample"}
      BY <1>7, <2>1 DEF Codex!Read, Codex!Note
    <2>5. life' \in {"none", "held", "fed", "exited", "gone"} /\ code' \in {"none", "zero", "other"}
      BY <1>7, <2>1 DEF Codex!Read, Codex!Note, Codex!Stop
    <2>. QED
      BY <2>1, <2>2, <2>3, <2>4, <2>5
  <1>8. CASE Codex!Timeout
    BY <1>8 DEF Codex!Timeout, Codex!Note, Codex!Stop, Codex!Running
  <1>9. CASE Codex!Close
    <2>1. Codex!Final.final \in Codex!Verdict \cup {"none"}
      BY FinalIsTyped DEF Codex!Parser
    <2>2. /\ Codex!Judged \in {file, "failed"}
          /\ (Codex!Judged = file => Codex!Judged = "failed" \/ Codex!Final.final = file)
      BY DEF Codex!Judged
    <2>3. result' \in Codex!Verdict \cup {"none", "failed"}
      BY <1>9, <2>1, <2>2 DEF Codex!Close
    <2>. QED
      BY <1>9, <2>3 DEF Codex!Close
  <1>10. CASE Codex!Finalize
    BY <1>10 DEF Codex!Finalize, Codex!Verifier, Begun
  <1>11. CASE Codex!Clean
    BY <1>11 DEF Codex!Clean, Codex!Verifier
  <1>12. CASE Codex!Return
    BY <1>12 DEF Codex!Return, Codex!Verifier, ChildIsWatched, Begun
  <1>13. CASE UNCHANGED Codex!vars
    BY <1>13 DEF Codex!vars
  <1>. QED
    BY <1>1, <1>2, <1>3, <1>4, <1>5, <1>6, <1>7, <1>8, <1>9, <1>10, <1>11, <1>12, <1>13 DEF Codex!Next

(* boundedRun's parser keeps up with what is read, until it is refused.     *)
LEMMA ParserKeeps ==
  ASSUME CodexConstants, CodexInductive, [Codex!Next]_(Codex!vars)
  PROVE  ParserFollows'
  <1>t. /\ said \in Seq(Codex!Event) /\ read \in 0 .. Len(said) /\ cut \in BOOLEAN
        /\ parser \in Codex!Parser /\ ParserFollows
    BY DEF CodexInductive, Codex!TypeOK
  <1>s. ASSUME UNCHANGED <<said, read, cut, parser>>, flags \subseteq flags'
        PROVE  ParserFollows'
    <2>1. flags' = {} => Knew(Taken, parser)
      BY <1>s, <1>t DEF ParserFollows
    <2>2. Knew(Taken, parser)' <=> Knew(Taken, parser)
      BY <1>s DEF Knew, Taken, Takes, Later
    <2> QED BY <2>1, <2>2 DEF ParserFollows
  <1>1. CASE Codex!Start
    BY <1>1 DEF Codex!Start, Codex!Fresh, ParserFollows, Taken, Knew
  <1>2. ASSUME NEW e \in Codex!Event, NEW whole \in BOOLEAN, Codex!Say(e, whole)
        PROVE  ParserFollows'
    <2>1. /\ ~ cut /\ said' = Append(said, e) /\ UNCHANGED <<read, parser, flags>>
          /\ Len(said') = Len(said) + 1 /\ \A i \in 1 .. Len(said) : said'[i] = said[i]
      BY <1>2, <1>t DEF Codex!Say, Codex!Child
    <2>2. Taken = read /\ Taken' = read
      BY <2>1, <1>t DEF Taken
    <2>3. CASE flags = {}
      <3>1. Knew(read, parser)
        BY <2>2, <2>3, <1>t DEF ParserFollows
      <3>2. \A i \in 1 .. read : said'[i] = said[i]
        BY <2>1, <1>t
      <3>3. Knew(read, parser)'
        <4>1. \A i \in 1 .. read : Later(i, read) => Later(i, read)'
          BY <2>1, <3>2, <1>t DEF Later
        <4>2. /\ read \in Nat /\ read <= Len(said') /\ parser' = parser /\ read' = read
              /\ 3 .. read \subseteq 1 .. read /\ 3 .. read - 1 \subseteq 1 .. read
          BY <2>1, <1>t
        <4>3. \A i \in 1 .. read : Takes(i)' <=> Takes(i)
          BY <3>2 DEF Takes
        <4>4. \A i \in 1 .. read : said'[i].type = "started" => said'[i].item \in parser.pending \/ Later(i, read)'
          BY <3>1, <3>2, <4>1 DEF Knew
        <4>5. parser.final # "none" => \E m \in 1 .. read :
                /\ said'[m].type = "message" /\ said'[m].text = parser.final
                /\ \A i \in 1 .. read : said'[i].type = "message" => i = m
          BY <3>1, <3>2 DEF Knew
        <4>6. /\ parser.final = "none" => \A i \in 1 .. read : said'[i].type # "message"
              /\ read >= 1 => said'[1].type = "thread"
              /\ read >= 2 => said'[2].type = "turn"
              /\ parser.phase = "done" => read >= 3 /\ said'[read].type = "done"
          BY <3>1, <3>2, <4>2 DEF Knew
        <4> QED BY <3>1, <4>2, <4>3, <4>4, <4>5, <4>6 DEF Knew
      <3> QED BY <2>1, <2>2, <3>3 DEF ParserFollows
    <2> QED BY <2>1, <2>3 DEF ParserFollows
  <1>3. CASE Codex!Read
    <2>1. /\ read < Len(said) /\ read' = read + 1 /\ UNCHANGED <<said, cut>> /\ Taken = read
      BY <1>3, <1>t DEF Codex!Read, Codex!Ran, Taken
    <2>2. CASE flags' # {}
      BY <2>2 DEF ParserFollows
    <2>3. CASE flags' = {}
      <3>1. flags = {} /\ Knew(read, parser)
        BY <1>3, <1>t, <2>1, <2>3 DEF Codex!Read, Codex!Note, ParserFollows
      <3>2. CASE cut /\ read' = Len(said)
        <4>1. parser' = parser /\ Taken' = read
          BY <1>3, <1>t, <2>1, <2>3, <3>2 DEF Codex!Read, Codex!Note, Taken
        <4>2. (Knew(Taken, parser))' <=> Knew(read, parser)
          BY <2>1, <4>1 DEF Knew, Takes, Later
        <4> QED BY <3>1, <4>2 DEF ParserFollows
      <3>3. CASE ~ (cut /\ read' = Len(said))
        <4>1. /\ Codex!Accepts(parser, said[read + 1]) /\ Taken' = read + 1
              /\ parser' = Codex!Parsed(parser, said[read + 1])
          BY <1>3, <2>1, <2>3, <3>1, <3>3 DEF Codex!Read, Codex!Note, Taken
        <4>2. Knew(read + 1, Codex!Parsed(parser, said[read + 1]))
          BY <1>t, <2>1, <3>1, <4>1, ParserKnows
        <4>3. (Knew(Taken, parser))' <=> Knew(read + 1, Codex!Parsed(parser, said[read + 1]))
          BY <2>1, <4>1 DEF Knew, Takes, Later
        <4> QED BY <4>2, <4>3 DEF ParserFollows
      <3> QED BY <3>2, <3>3
    <2> QED BY <2>2, <2>3
  <1>4. CASE /\ UNCHANGED <<said, read, cut, parser>> /\ flags \subseteq flags'
    BY <1>4, <1>s
  <1>5. ASSUME NEW r \in Codex!Review, Codex!Sampled(r) \/ Codex!Refused(r)
        PROVE  UNCHANGED <<said, read, cut, parser>> /\ flags \subseteq flags'
    BY <1>5 DEF Codex!Sampled, Codex!Refused, Codex!Note
  <1>6. ASSUME NEW v, Codex!WriteFile(v) \/ Codex!Exit(v)
        PROVE  UNCHANGED <<said, read, cut, parser>> /\ flags \subseteq flags'
    BY <1>6 DEF Codex!WriteFile, Codex!Exit, Codex!Child, Codex!Ran
  <1>7. CASE \/ Codex!Timeout \/ Codex!Close \/ Codex!Finalize \/ Codex!Clean \/ Codex!Return
             \/ UNCHANGED Codex!vars
    BY <1>7, <1>4 DEF Codex!Timeout, Codex!Note, Codex!Close, Codex!Finalize, Codex!Clean,
         Codex!Return, Codex!Verifier, Codex!Ran, Codex!vars
  <1>. QED
    BY <1>1, <1>2, <1>3, <1>4, <1>5, <1>6, <1>7 DEF Codex!Next

(* What Close or an earlier failure leaves is not touched by the child, nor *)
(* by a sample that comes late.                                             *)
LEMMA CodexParts ==
  ASSUME CodexConstants, CodexInductive, [Codex!Next]_(Codex!vars)
  PROVE  ChildIsWatched' /\ LimitIsNoted' /\ Codex!SampledFirst' /\ VerdictIsEarned' /\ Begun'
  <1> DEFINE Parts == ChildIsWatched /\ LimitIsNoted /\ Codex!SampledFirst /\ VerdictIsEarned /\ Begun
  <1> USE DEF CodexConstants, CodexInductive, ChildIsWatched, LimitIsNoted, Codex!SampledFirst,
       Begun,
                               Codex!Kept, Codex!Ran
  <1>t. Codex!TypeOK
    OBVIOUS
  <1>w. said' = said /\ result' = result => (WholeTurn(result)' <=> WholeTurn(result))
    BY DEF WholeTurn, Completed
  <1>1. CASE Codex!Start
    BY <1>1, <1>t DEF Codex!Start, Codex!TypeOK, Codex!Review, VerdictIsEarned, Codex!Verdict
  <1>2. ASSUME NEW r \in Codex!Review, Codex!Sampled(r)
        PROVE  Parts'
    BY <1>2, <1>t, <1>w DEF Codex!Sampled, Codex!TypeOK, VerdictIsEarned
  <1>3. ASSUME NEW r \in Codex!Review, Codex!Refused(r)
        PROVE  Parts'
    BY <1>3, <1>t, <1>w DEF Codex!Refused, Codex!Note, Codex!Stop, Codex!Running, Codex!TypeOK,
         VerdictIsEarned
  <1>4. ASSUME NEW e \in Codex!Event, NEW whole \in BOOLEAN, Codex!Say(e, whole)
        PROVE  Parts'
    BY <1>4 DEF Codex!Say, Codex!Child, Codex!Running, VerdictIsEarned
  <1>5. ASSUME NEW v \in Codex!Verdict \cup {"invalid"}, Codex!WriteFile(v)
        PROVE  Parts'
    BY <1>5 DEF Codex!WriteFile, Codex!Child, Codex!Running, VerdictIsEarned
  <1>6. CASE Codex!Exit("zero") \/ Codex!Exit("other")
    BY <1>6 DEF Codex!Exit, Codex!Child, Codex!Running, VerdictIsEarned
  <1>7. CASE Codex!Read
    BY <1>7, <1>t DEF Codex!Read, Codex!Note, Codex!Stop, Codex!Running, Codex!TypeOK,
         VerdictIsEarned
  <1>8. CASE Codex!Timeout
    BY <1>8 DEF Codex!Timeout, Codex!Note, Codex!Stop, Codex!Running, VerdictIsEarned
  <1>9. CASE Codex!Close
    <2>1. read = Len(said) /\ (flags = {} => Len(said) <= MaxOutput)
      BY <1>9 DEF Codex!Close
    <2>2. result' \in Codex!Verdict => /\ sample[review] = "given" /\ code = "zero" /\ flags = {}
                                 /\ file = result'
      BY <1>9 DEF Codex!Close, Codex!Judged, Codex!Verdict
    <2>3. result' \in Codex!Verdict => WholeTurn(result)'
      <3> SUFFICES ASSUME result' \in Codex!Verdict PROVE WholeTurn(result)'
        OBVIOUS
      <3>1. /\ flags = {} /\ Codex!Final.phase = "done" /\ Codex!Final.final = result'
            /\ said' = said /\ read = Len(said) /\ said \in Seq(Codex!Event) /\ cut \in BOOLEAN
            /\ parser \in Codex!Parser /\ Len(said) \in Nat
        BY <1>9, <1>t, <2>1 DEF Codex!Close, Codex!Judged, Codex!Verdict, Codex!TypeOK
      <3>2. Knew(Len(said), Codex!Final)
        <4>1. Knew(Taken, parser)
          BY <3>1 DEF ParserFollows
        <4>2. CASE ~ cut
          BY <3>1, <4>1, <4>2 DEF Taken, Codex!Final
        <4>3. CASE cut
          <5>1. Codex!Accepts(parser, said[Len(said)])
            BY <3>1, <4>3 DEF Codex!Final, Codex!Fresh
          <5>2. Taken = Len(said) - 1 /\ Taken \in Nat /\ Taken + 1 = Len(said)
            BY <3>1, <4>1, <4>3 DEF Taken, Knew
          <5>3. Codex!Final = Codex!Parsed(parser, said[Taken + 1])
            BY <4>3, <5>1, <5>2 DEF Codex!Final
          <5> QED BY <3>1, <4>1, <5>1, <5>2, <5>3, ParserKnows
        <4> QED BY <3>1, <4>2, <4>3
      <3>3. WholeTurn(Codex!Final.final)
        BY <3>1, <3>2, KnewTurn
      <3> QED BY <3>1, <3>3 DEF WholeTurn, Completed
    <2>. QED
      BY <1>9, <2>1, <2>2, <2>3 DEF Codex!Close, VerdictIsEarned
  <1>10. CASE Codex!Finalize
    BY <1>10, <1>w DEF Codex!Finalize, Codex!Verifier, VerdictIsEarned, Codex!Verdict
  <1>11. CASE Codex!Clean
    BY <1>11, <1>w DEF Codex!Clean, Codex!Verifier, VerdictIsEarned, Codex!Verdict
  <1>12. CASE Codex!Return
    BY <1>12 DEF Codex!Return, Codex!Verifier, VerdictIsEarned
  <1>13. CASE UNCHANGED Codex!vars
    BY <1>13, <1>w DEF Codex!vars, VerdictIsEarned
  <1>. QED
    BY <1>1, <1>2, <1>3, <1>4, <1>5, <1>6, <1>7, <1>8, <1>9, <1>10, <1>11, <1>12, <1>13 DEF Codex!Next

-----------------------------------------------------------------------------
(* The strengthening always holds.                                          *)
LEMMA CodexIsKept ==
  ASSUME CodexConstants
  PROVE  Codex!Spec => []CodexInductive
  <1>1. CodexInductive /\ [Codex!Next]_(Codex!vars) => CodexInductive'
    <2> SUFFICES ASSUME CodexInductive, [Codex!Next]_(Codex!vars)
                 PROVE  CodexInductive'
      OBVIOUS
    <2>1. Codex!TypeOK'
      BY CodexTypes DEF CodexInductive
    <2>. QED
      BY <2>1, CodexParts, ParserKeeps DEF CodexInductive
  <1>. QED
    BY <1>1, CodexInit, PTL DEF Codex!Spec

(* The state of runCodexReview and its callers is typed.                    *)
THEOREM CodexTypeCorrect ==
  ASSUME CodexConstants
  PROVE  Codex!Spec => []Codex!TypeOK
  <1>1. CodexInductive => Codex!TypeOK
    BY DEF CodexInductive
  <1>. QED
    BY <1>1, CodexIsKept, PTL

(* boundedRun gives the prompt only to a child whose own sample is in.      *)
THEOREM PromptIsGated ==
  ASSUME CodexConstants
  PROVE  Codex!Spec => []Codex!SampledFirst
  <1>1. CodexInductive => Codex!SampledFirst
    BY DEF CodexInductive
  <1>. QED
    BY <1>1, CodexIsKept, PTL

(* startReview passes a review only on a clean run: the child sampled,      *)
(* exited by itself, nothing noted against it, its lines one whole turn     *)
(* whose only message is the file it wrote.                                 *)
THEOREM PassIsEarned ==
  ASSUME CodexConstants
  PROVE  Codex!Spec => PassedIsEarned
  <1> DEFINE Earned == \A r \in DOMAIN outcome : outcome[r] = "none" /\ outcome'[r] = "passed" =>
       /\ r = review /\ code = "zero" /\ flags = {} /\ Len(said) <= MaxOutput
       /\ sample[r] = "given" /\ file = "favorable" /\ WholeTurn(file)
       /\ result = "favorable"
  <1>1. CodexInductive /\ [Codex!Next]_(Codex!vars) => [Earned]_outcome
    <2> SUFFICES ASSUME CodexInductive, [Codex!Next]_(Codex!vars), NEW r \in DOMAIN outcome,
                        outcome[r] = "none", outcome'[r] = "passed"
                 PROVE  /\ r = review /\ code = "zero" /\ flags = {} /\ Len(said) <= MaxOutput
                        /\ sample[r] = "given" /\ file = "favorable" /\ WholeTurn(file)
                        /\ result = "favorable"
      OBVIOUS
    <2>1. outcome \in [Codex!Review -> {"none", "passed", "failed"}]
      BY DEF CodexInductive, Codex!TypeOK
    <2>2. Codex!Return
      BY DEF Codex!Next, Codex!Start, Codex!Sampled, Codex!Refused, Codex!Say, Codex!WriteFile,
           Codex!Exit, Codex!Read, Codex!Timeout, Codex!Close, Codex!Finalize,
             Codex!Clean, Codex!Child, Codex!Kept, Codex!vars
    <2>3. r = review /\ result = "favorable" /\ stage = "return"
      BY <2>1, <2>2 DEF Codex!Return
    <2>. QED
      BY <2>3 DEF CodexInductive, VerdictIsEarned, Codex!Verdict
  <1>2. Codex!Spec => [][Earned]_outcome
    BY <1>1, CodexIsKept, PTL DEF Codex!Spec
  <1>. QED
    BY <1>2 DEF PassedIsEarned

-----------------------------------------------------------------------------
(* The decision nonces.  NonceConstants is ConstantsAssumption of           *)
(* DecisionNonces, said of the constants it is instantiated with.           *)
NonceConstants ==
  /\ None \notin Nonces!Record
  /\ Ttl \in Nat \ {0} /\ MaxReading \in Nat

\* Before anything is issued, nothing is in progress, spent or answered
LEMMA NoncesInit ==
  ASSUME NonceConstants
  PROVE  Nonces!Init => Nonces!Inductive
<1> SUFFICES ASSUME Nonces!Init PROVE Nonces!Inductive
  OBVIOUS
<1>1. Nonces!TypeOK
  BY DEF NonceConstants, Nonces!Init, Nonces!TypeOK
<1> QED BY <1>1 DEF Nonces!Init, Nonces!Inductive, Nonces!NonceHolds, Nonces!Issued

\* A step that leaves the files and the history alone, and a call that stays
\* or ends, keeps what is known of every call and every nonce
LEMMA CallsOnly ==
  ASSUME Nonces!Inductive, UNCHANGED <<record, used, granted, recovered>>,
         Nonces!TypeOK',
         \A s \in Session : at'[s] # "idle" =>
            \/ at'[s] = at[s] /\ call'[s] = call[s] /\ s \in alive'
            \/ Nonces!InProgress(s)'
  PROVE  Nonces!Inductive'
<1>1. ASSUME NEW s \in Session, at'[s] # "idle" PROVE Nonces!InProgress(s)'
  BY <1>1 DEF Nonces!Inductive, Nonces!InProgress, Nonces!Issued
<1>2. ASSUME NEW n \in Nonce PROVE Nonces!NonceHolds(n)'
  BY DEF Nonces!Inductive, Nonces!NonceHolds, Nonces!Issued
<1> QED BY <1>1, <1>2 DEF Nonces!Inductive

\* issue: the record is new, so no call and no answer is about it
LEMMA IssueKeeps ==
  ASSUME NonceConstants, Nonces!Inductive, NEW s \in Session, NEW n \in Nonce,
         NEW b \in Binding, Nonces!Issue(s, n, b)
  PROVE  Nonces!Inductive'
<1>1. record[n] = None /\ [binding |-> b, expires |-> time + Ttl, session |-> s] \in Nonces!Record
  BY DEF NonceConstants, Nonces!Issue, Nonces!Issued, Nonces!Inductive, Nonces!TypeOK,
       Nonces!Record
<1>2. Nonces!TypeOK'
  BY <1>1 DEF Nonces!Issue, Nonces!Inductive, Nonces!TypeOK
<1>3. ASSUME NEW t \in Session, at'[t] # "idle" PROVE Nonces!InProgress(t)'
  <2>1. Nonces!InProgress(t) /\ call[t] \in Nonces!Decision
    BY <1>3 DEF Nonces!Issue, Nonces!Inductive, Nonces!TypeOK
  <2>2. call[t].nonce # n
    BY <1>1, <2>1 DEF Nonces!InProgress, Nonces!Issued
  <2> QED BY <2>1, <2>2 DEF Nonces!Issue, Nonces!InProgress, Nonces!Issued, Nonces!Decision,
               Nonces!Inductive, Nonces!TypeOK
<1>4. ASSUME NEW m \in Nonce PROVE Nonces!NonceHolds(m)'
  <2>1. CASE m = n
    BY <2>1, <1>1 DEF Nonces!Issue, Nonces!Inductive, Nonces!NonceHolds, Nonces!Issued,
         Nonces!TypeOK
  <2>2. CASE m # n
    BY <2>2 DEF Nonces!Issue, Nonces!Inductive, Nonces!NonceHolds, Nonces!Issued, Nonces!TypeOK
  <2> QED BY <2>1, <2>2
<1> QED BY <1>2, <1>3, <1>4 DEF Nonces!Inductive

\* consume, its checks: what they established is what InProgress says
LEMMA PresentKeeps ==
  ASSUME Nonces!Inductive, NEW s \in Session, NEW d \in Nonces!Decision, Nonces!Present(s, d)
  PROVE  Nonces!Inductive'
<1>1. Nonces!TypeOK'
  BY DEF Nonces!Present, Nonces!Inductive, Nonces!TypeOK
<1>2. ASSUME NEW t \in Session, at'[t] # "idle"
      PROVE  (at'[t] = at[t] /\ call'[t] = call[t] /\ t \in alive') \/ Nonces!InProgress(t)'
  <2>1. CASE t = s
    <3>1. at'[s] = "create" /\ call'[s] = d /\ s \in alive'
      BY DEF Nonces!Present, Nonces!Inductive, Nonces!TypeOK
    <3>2. record'[d.nonce] = record[d.nonce] /\ used'[d.nonce] = "absent"
          /\ record[d.nonce] # None /\ record[d.nonce].session = s
          /\ record[d.nonce].binding = d.binding
      BY DEF Nonces!Present, Nonces!Issued, Nonces!Unspent
    <3>3. Nonces!InProgress(s)'
      BY <3>1, <3>2 DEF Nonces!InProgress, Nonces!Issued
    <3> QED BY <2>1, <3>3
  <2>2. CASE t # s
    <3>1. at'[t] = at[t] /\ call'[t] = call[t] /\ alive' = alive
      BY <2>2 DEF Nonces!Present, Nonces!Inductive, Nonces!TypeOK
    <3>2. t \in alive
      BY <3>1, <1>2 DEF Nonces!Inductive, Nonces!InProgress
    <3> QED BY <3>1, <3>2
  <2> QED BY <2>1, <2>2
<1> QED BY <1>1, <1>2, CallsOnly DEF Nonces!Present

\* Another session's call is about another nonce, as each nonce has one issuer
LEMMA OtherCalls ==
  ASSUME Nonces!Inductive, NEW s \in Session, NEW t \in Session, s # t,
         at[s] # "idle", at[t] # "idle"
  PROVE  call[s].nonce # call[t].nonce
  BY DEF Nonces!Inductive, Nonces!InProgress

\* The three steps on the used file, each on the nonce of its own call
LEMMA FileStepKeeps ==
  ASSUME Nonces!Inductive, NEW s \in Session,
         Nonces!Create(s) \/ Nonces!Write(s) \/ Nonces!WriteFails(s)
  PROVE  Nonces!Inductive'
<1> DEFINE n == call[s].nonce
<1>1. at[s] \in {"create", "write"} /\ call[s] \in Nonces!Decision /\ n \in Nonce /\ Nonces!InProgress(s)
  BY DEF Nonces!Create, Nonces!Write, Nonces!WriteFails, Nonces!Inductive, Nonces!TypeOK,
       Nonces!Decision
<1>2. UNCHANGED <<record, alive, time, granted, recovered, call>>
  BY DEF Nonces!Create, Nonces!Write, Nonces!WriteFails, Nonces!Move, Nonces!End
<1>3. granted[n] = <<>> /\ n \notin recovered
  BY <1>1 DEF Nonces!Inductive, Nonces!NonceHolds, Nonces!InProgress, Nonces!Create,
       Nonces!Write, Nonces!WriteFails
<1>4. Nonces!TypeOK'
  BY <1>1, <1>2 DEF Nonces!Create, Nonces!Write, Nonces!WriteFails, Nonces!Move, Nonces!End,
       Nonces!Inductive, Nonces!TypeOK
<1>5. \A m \in Nonce : m # n => used'[m] = used[m]
  BY <1>1 DEF Nonces!Create, Nonces!Write, Nonces!WriteFails, Nonces!Inductive, Nonces!TypeOK
<1>6. \A t \in Session : t # s => at'[t] = at[t]
  BY DEF Nonces!Create, Nonces!Write, Nonces!WriteFails, Nonces!Move, Nonces!End,
       Nonces!Inductive, Nonces!TypeOK
<1>7. ASSUME NEW t \in Session, at'[t] # "idle" PROVE Nonces!InProgress(t)'
  <2>1. CASE t = s
    BY <2>1, <1>1, <1>2, <1>3, <1>7
       DEF Nonces!Create, Nonces!Write, Nonces!WriteFails, Nonces!Move, Nonces!End,
            Nonces!InProgress, Nonces!Issued, Nonces!Inductive, Nonces!TypeOK
  <2>2. CASE t # s
    <3>1. Nonces!InProgress(t) /\ call[t] \in Nonces!Decision /\ at[t] # "idle"
      BY <2>2, <1>6, <1>7 DEF Nonces!Inductive, Nonces!TypeOK
    <3>2. call[t].nonce # n /\ call[t].nonce \in Nonce
      BY <2>2, <3>1, <1>1, OtherCalls DEF Nonces!Decision
    <3> QED BY <2>2, <3>1, <3>2, <1>2, <1>5, <1>6 DEF Nonces!InProgress, Nonces!Issued
  <2> QED BY <2>1, <2>2
<1>8. ASSUME NEW m \in Nonce PROVE Nonces!NonceHolds(m)'
  BY <1>1, <1>2, <1>3, <1>5 DEF Nonces!Inductive, Nonces!NonceHolds, Nonces!Issued,
       Nonces!InProgress
<1> QED BY <1>4, <1>7, <1>8 DEF Nonces!Inductive

\* The answer is the first one of its nonce
LEMMA AnswerKeeps ==
  ASSUME Nonces!Inductive, NEW s \in Session, Nonces!Answer(s)
  PROVE  Nonces!Inductive'
<1> DEFINE n == call[s].nonce
           g == [session |-> s, binding |-> call[s].binding]
<1>1. at[s] = "answer" /\ call[s] \in Nonces!Decision /\ n \in Nonce
      /\ Nonces!InProgress(s) /\ g \in Nonces!Grant
  BY DEF Nonces!Answer, Nonces!Inductive, Nonces!TypeOK, Nonces!Decision, Nonces!Grant
<1>2. granted[n] = <<>> /\ used[n] = "whole"
  BY <1>1 DEF Nonces!InProgress
<1>3. Append(<<>>, g) = <<g>> /\ <<g>> \in Seq(Nonces!Grant)
  BY <1>1
<1>4. granted' = [granted EXCEPT ![n] = <<g>>]
  BY <1>2, <1>3, <1>1 DEF Nonces!Answer, Nonces!Inductive, Nonces!TypeOK
<1>5. Nonces!TypeOK'
  BY <1>1, <1>3, <1>4 DEF Nonces!Answer, Nonces!End, Nonces!Move, Nonces!Inductive, Nonces!TypeOK
<1>6. ASSUME NEW t \in Session, at'[t] # "idle" PROVE Nonces!InProgress(t)'
  <2>1. t # s /\ at'[t] = at[t]
    BY <1>6 DEF Nonces!Answer, Nonces!End, Nonces!Move, Nonces!Inductive, Nonces!TypeOK
  <2>2. Nonces!InProgress(t) /\ call[t] \in Nonces!Decision
    BY <1>6, <2>1 DEF Nonces!Inductive, Nonces!TypeOK
  <2>3. call[t].nonce # n /\ call[t].nonce \in Nonce
    BY <1>6, <2>1, <2>2, <1>1, OtherCalls DEF Nonces!Decision
  <2> QED BY <2>1, <2>2, <2>3, <1>4 DEF Nonces!Answer, Nonces!End, Nonces!Move,
               Nonces!InProgress, Nonces!Issued, Nonces!Inductive, Nonces!TypeOK
<1>7. ASSUME NEW m \in Nonce PROVE Nonces!NonceHolds(m)'
  <2>1. CASE m = n
    BY <2>1, <1>1, <1>2, <1>4 DEF Nonces!Answer, Nonces!Inductive, Nonces!NonceHolds,
         Nonces!Issued, Nonces!InProgress, Nonces!TypeOK
  <2>2. CASE m # n
    BY <2>2, <1>4 DEF Nonces!Answer, Nonces!Inductive, Nonces!NonceHolds, Nonces!Issued,
         Nonces!TypeOK
  <2> QED BY <2>1, <2>2
<1> QED BY <1>5, <1>6, <1>7 DEF Nonces!Inductive

\* A recovery writes no file and moves no call
LEMMA RecoverKeeps ==
  ASSUME Nonces!Inductive, NEW s \in Session, NEW n \in Nonce, Nonces!Recover(s, n)
  PROVE  Nonces!Inductive'
<1>1. Nonces!TypeOK'
  BY DEF Nonces!Recover, Nonces!Inductive, Nonces!TypeOK
<1>2. ASSUME NEW t \in Session, at'[t] # "idle" PROVE Nonces!InProgress(t)'
  BY <1>2 DEF Nonces!Recover, Nonces!Inductive, Nonces!InProgress, Nonces!Issued
<1>3. ASSUME NEW m \in Nonce PROVE Nonces!NonceHolds(m)'
  BY DEF Nonces!Recover, Nonces!Inductive, Nonces!NonceHolds, Nonces!Issued
<1> QED BY <1>1, <1>2, <1>3 DEF Nonces!Inductive

\* A crash ends the calls of its session alone
LEMMA CrashKeeps ==
  ASSUME Nonces!Inductive, NEW s \in Session, Nonces!Crash(s)
  PROVE  Nonces!Inductive'
<1>1. Nonces!TypeOK'
  BY DEF Nonces!Crash, Nonces!End, Nonces!Move, Nonces!Inductive, Nonces!TypeOK
<1>2. ASSUME NEW t \in Session, at'[t] # "idle"
      PROVE  at'[t] = at[t] /\ call'[t] = call[t] /\ t \in alive'
  BY <1>2 DEF Nonces!Crash, Nonces!End, Nonces!Move, Nonces!Inductive, Nonces!TypeOK,
       Nonces!InProgress
<1> QED BY <1>1, <1>2, CallsOnly DEF Nonces!Crash

\* What the clock reads is no part of it
LEMMA ClockKeeps ==
  ASSUME Nonces!Inductive, Nonces!Clock
  PROVE  Nonces!Inductive'
<1>1. Nonces!TypeOK'
  BY DEF Nonces!Clock, Nonces!Inductive, Nonces!TypeOK
<1> QED BY <1>1, CallsOnly DEF Nonces!Clock, Nonces!Inductive, Nonces!InProgress

\* The inductive invariant: who consumes, what is spent and what was answered
THEOREM NoncesAreKept ==
  ASSUME NonceConstants
  PROVE  Nonces!Spec => []Nonces!Inductive
<1>1. Nonces!Init => Nonces!Inductive
  BY NoncesInit
<1>2. Nonces!Inductive /\ [Nonces!Next]_(Nonces!vars) => Nonces!Inductive'
  <2> SUFFICES ASSUME Nonces!Inductive, [Nonces!Next]_(Nonces!vars) PROVE Nonces!Inductive'
    OBVIOUS
  <2>1. CASE UNCHANGED Nonces!vars
    <3>1. Nonces!TypeOK'
      BY <2>1 DEF Nonces!vars, Nonces!Inductive, Nonces!TypeOK
    <3> QED BY <2>1, <3>1, CallsOnly DEF Nonces!vars, Nonces!Inductive, Nonces!InProgress
  <2>2. ASSUME NEW s \in Session, NEW n \in Nonce, NEW b \in Binding, Nonces!Issue(s, n, b)
        PROVE Nonces!Inductive'
    BY <2>2, IssueKeeps
  <2>3. ASSUME NEW s \in Session, NEW d \in Nonces!Decision, Nonces!Present(s,
               d) PROVE Nonces!Inductive'
    BY <2>3, PresentKeeps
  <2>4. ASSUME NEW s \in Session, Nonces!Create(s) \/ Nonces!Write(s) \/ Nonces!WriteFails(s)
        PROVE  Nonces!Inductive'
    BY <2>4, FileStepKeeps
  <2>5. ASSUME NEW s \in Session, Nonces!Answer(s) PROVE Nonces!Inductive'
    BY <2>5, AnswerKeeps
  <2>6. ASSUME NEW s \in Session, Nonces!Crash(s) PROVE Nonces!Inductive'
    BY <2>6, CrashKeeps
  <2>7. ASSUME NEW s \in Session, NEW n \in Nonce, Nonces!Recover(s, n) PROVE Nonces!Inductive'
    BY <2>7, RecoverKeeps
  <2>8. CASE Nonces!Clock
    BY <2>8, ClockKeeps
  <2> QED BY <2>1, <2>2, <2>3, <2>4, <2>5, <2>6, <2>7, <2>8 DEF Nonces!Next
<1> QED BY <1>1, <1>2, PTL DEF Nonces!Spec

\* What the invariant says of the answers
LEMMA InductiveGrants ==
  Nonces!Inductive => ConsumedOnce /\ Nonces!GrantIsBound /\ Nonces!RecoveredWasWritten
<1> SUFFICES ASSUME Nonces!Inductive
             PROVE  ConsumedOnce /\ Nonces!GrantIsBound /\ Nonces!RecoveredWasWritten
  OBVIOUS
<1>1. ASSUME NEW n \in Nonce
      PROVE  /\ Len(granted[n]) <= 1
             /\ \A k \in DOMAIN granted[n] :
                  /\ used[n] = "whole"
                  /\ granted[n][k].session = record[n].session
                  /\ granted[n][k].binding = record[n].binding
  <2>1. CASE granted[n] = <<>>
    BY <2>1
  <2>2. CASE granted[n] # <<>>
    <3>1. granted[n] = <<[session |-> record[n].session, binding |-> record[n].binding]>>
          /\ used[n] = "whole"
      BY <2>2 DEF Nonces!Inductive, Nonces!NonceHolds
    <3> QED BY <3>1
  <2> QED BY <2>1, <2>2
<1>2. Nonces!RecoveredWasWritten
  BY DEF Nonces!Inductive, Nonces!NonceHolds, Nonces!RecoveredWasWritten, Nonces!TypeOK
<1> QED BY <1>1, <1>2 DEF ConsumedOnce, Nonces!GrantIsBound

\* No decision nonce is ever answered twice
THEOREM SingleConsumption ==
  ASSUME NonceConstants
  PROVE  Nonces!Spec => []ConsumedOnce
  BY NoncesAreKept, InductiveGrants, PTL

\* What a consumption answers is bound to the issuing session and its binding
THEOREM ConsumptionIsBound ==
  ASSUME NonceConstants
  PROVE  Nonces!Spec => []Nonces!GrantIsBound
  BY NoncesAreKept, InductiveGrants, PTL

\* recover answers only for consumptions that were written out
THEOREM RecoveryIsWritten ==
  ASSUME NonceConstants
  PROVE  Nonces!Spec => []Nonces!RecoveredWasWritten
  BY NoncesAreKept, InductiveGrants, PTL

\* A spent nonce stays spent, and only its own call completes its file
THEOREM SpendingIsFinal ==
  ASSUME NonceConstants
  PROVE  Nonces!Spec => SpentForGood
<1> DEFINE Final == \A n \in Nonce :
       /\ used[n] # "absent" => used'[n] # "absent"
       /\ used[n] = "whole" => used'[n] = "whole"
       /\ (used[n] = "torn" /\ used'[n] = "whole") =>
            \E s \in alive : at[s] = "write" /\ call[s].nonce = n
<1>1. Nonces!Inductive /\ [Nonces!Next]_(Nonces!vars) => [Final]_used
  <2> SUFFICES ASSUME Nonces!Inductive, [Nonces!Next]_(Nonces!vars), used' # used PROVE Final
    OBVIOUS
  <2> Nonces!Next
    BY DEF Nonces!vars
  <2>1. ASSUME NEW s \in Session, Nonces!Create(s) \/ Nonces!Write(s) \/ Nonces!WriteFails(s) PROVE Final
    <3>1. Nonces!InProgress(s) /\ call[s] \in Nonces!Decision /\ at[s] \in {"create", "write"}
      BY <2>1 DEF Nonces!Create, Nonces!Write, Nonces!WriteFails, Nonces!Inductive, Nonces!TypeOK
    <3> QED BY <2>1, <3>1 DEF Nonces!Create, Nonces!Write, Nonces!WriteFails, Nonces!Inductive,
                 Nonces!TypeOK, Nonces!InProgress, Nonces!Decision
  <2> QED BY <2>1 DEF Nonces!Next, Nonces!Issue, Nonces!Present, Nonces!Answer,
               Nonces!Crash, Nonces!Recover, Nonces!Clock
<1>2. Nonces!Spec => [][Final]_used
  BY <1>1, NoncesAreKept, PTL DEF Nonces!Spec
<1> QED BY <1>2 DEF SpentForGood

-----------------------------------------------------------------------------
(* The Chrome adapter.                                                      *)

\* What has been sent, told from the flags: nothing before a settlement, only
\* the model's answer while it can still be superseded.
Settlement(i, s) ==
  /\ (~i.terminal /\ ~i.resultSent) => s = <<>>
  /\ (~i.terminal /\ i.resultSent) => (Len(s) = 1 /\ s[1].reason = "none")
  /\ \/ s = <<>> \/ Len(s) = 1
     \/ Len(s) = 2 /\ s[1].reason = "none" /\ s[2].kind = "cancel"
NoneOpen(qs) == \A o \in Adapter!Op : qs[o].session # "open"
Operations == [Adapter!Op -> [pc : {"idle", "create", "prompt", "dispose", "done"},
                session : {"none", "open", "closed"},
                cleanup : {"none", "pending", "ok", "failed"},
                failure : Adapter!Reasons \cup {"gone"}]]
Invocations == [phase : Adapter!Phase, terminal : BOOLEAN, resultSent : BOOLEAN, finalized : BOOLEAN,
               prompted : BOOLEAN, availability : Adapter!Availability]
Typed(i, qs, s) == i \in Invocations /\ qs \in Operations /\ s \in Seq(Adapter!Message)
AdapterInductive ==
  /\ Typed(inv, ops, sent)
  /\ Settlement(inv, sent)
  /\ inv.terminal => NoneOpen(ops)
  /\ destroyed => (inv.terminal \/ inv.phase = "none")
  /\ inv.finalized => inv.terminal
  /\ inv.phase = "none" => ~inv.terminal

-----------------------------------------------------------------------------
\* No session is open once all are disposed of
LEMMA DisposedCloses ==
  ASSUME NEW qs \in Operations
  PROVE  Adapter!Disposed(qs) \in Operations /\ NoneOpen(Adapter!Disposed(qs))
<1>1. ASSUME NEW o \in Adapter!Op
      PROVE  /\ Adapter!Disposed(qs)[o].session # "open"
             /\ Adapter!Disposed(qs)[o] \in [pc : {"idle", "create", "prompt", "dispose", "done"},
                                     session : {"none", "open", "closed"},
                                     cleanup : {"none", "pending", "ok", "failed"},
                                     failure : Adapter!Reasons \cup {"gone"}]
  BY DEF Operations, Adapter!Disposed
<1> QED  BY <1>1 DEF Operations, Adapter!Disposed, NoneOpen

\* an operation that moves on is still one
LEMMA OpMoves ==
  ASSUME NEW qs \in Operations, NEW o \in Adapter!Op,
         NEW pc \in {"idle", "create", "prompt", "dispose", "done"}
  PROVE  [qs EXCEPT ![o].pc = pc] \in Operations
BY DEF Operations

\* a settlement adds at most one message, and one that may follow
LEMMA WireFollows ==
  ASSUME NEW i, NEW qs, NEW s, NEW reason \in Adapter!Reasons, Typed(i, qs, s), Settlement(i, s),
         ~i.terminal, ~(reason = "none" /\ i.resultSent)
  PROVE  /\ s \o Adapter!Wire(i, reason) \in Seq(Adapter!Message)
         /\ reason = "none" => (Len(s \o Adapter!Wire(i, reason)) = 1
                                /\ (s \o Adapter!Wire(i, reason))[1].reason = "none")
         /\ \/ s \o Adapter!Wire(i, reason) = <<>> \/ Len(s \o Adapter!Wire(i, reason)) = 1
            \/ /\ Len(s \o Adapter!Wire(i, reason)) = 2
               /\ (s \o Adapter!Wire(i, reason))[1].reason = "none"
               /\ (s \o Adapter!Wire(i, reason))[2].kind = "cancel"
<1>1. CASE ~i.resultSent
  <2>1. s = <<>>  BY <1>1 DEF Settlement
  <2>2. PICK m \in Adapter!Message : Adapter!Wire(i, reason) = <<m>> /\ m.reason = reason
    <3> DEFINE m == [kind |-> IF reason \in Adapter!CancelReasons THEN "cancel" ELSE "result",
                     reason |-> reason, availability |-> i.availability,
                     execution |-> IF reason = "none" THEN "completed"
                                   ELSE IF i.prompted THEN "failed" ELSE "not-run"]
    <3>1. m \in Adapter!Message  BY DEF Typed, Adapter!Message, Invocations
    <3>2. Adapter!Wire(i, reason) = <<m>>  BY <1>1 DEF Adapter!Wire
    <3> QED  BY <3>1, <3>2
  <2>3. s \o Adapter!Wire(i, reason) = <<m>>  BY <2>1, <2>2
  <2>4. <<m>> \in Seq(Adapter!Message) /\ Len(<<m>>) = 1 /\ <<m>>[1] = m  OBVIOUS
  <2> QED  BY <2>2, <2>3, <2>4
<1>2. CASE i.resultSent
  <2>1. Len(s) = 1 /\ s[1].reason = "none" /\ s \in Seq(Adapter!Message)
    BY <1>2 DEF Settlement, Typed
  <2>2. reason # "none"  BY <1>2
  <2>3. CASE Adapter!Wire(i, reason) = <<>>
    <3>1. s \o Adapter!Wire(i, reason) = s  BY <2>1, <2>3
    <3> QED  BY <2>1, <2>2, <3>1
  <2>4. CASE Adapter!Wire(i, reason) # <<>>
    <3>1. PICK m \in Adapter!Message : Adapter!Wire(i, reason) = <<m>> /\ m.kind = "cancel"
      <4> DEFINE m == [kind |-> "cancel",
                       reason |-> IF reason \notin Adapter!CancelReasons THEN "cancellation" ELSE reason,
                       availability |-> i.availability,
                       execution |-> IF i.prompted THEN "failed" ELSE "not-run"]
      <4>1. m \in Adapter!Message  BY DEF Typed, Adapter!Message, Adapter!Reasons,
                                        Adapter!CancelReasons, Invocations
      <4>2. Adapter!Wire(i, reason) = <<m>>  BY <1>2, <2>2, <2>4 DEF Adapter!Wire
      <4> QED  BY <4>1, <4>2
    <3>2. /\ s \o <<m>> \in Seq(Adapter!Message) /\ Len(s \o <<m>>) = 2
          /\ (s \o <<m>>)[1] = s[1] /\ (s \o <<m>>)[2] = m
      <4>1. <<m>> \in Seq(Adapter!Message) /\ Len(<<m>>) = 1 /\ <<m>>[1] = m  OBVIOUS
      <4>2. /\ s \o <<m>> \in Seq(Adapter!Message) /\ Len(s \o <<m>>) = Len(s) + Len(<<m>>)
            /\ \A k \in 1 .. Len(s) + Len(<<m>>) :
                 (s \o <<m>>)[k] = IF k <= Len(s) THEN s[k] ELSE <<m>>[k - Len(s)]
        BY <2>1, <4>1, ConcatProperties
      <4>3. 1 <= Len(s) /\ ~(2 <= Len(s)) /\ 2 - Len(s) = 1 /\ Len(s) + Len(<<m>>) = 2
        BY <2>1, <4>1
      <4> QED  BY <2>1, <4>1, <4>2, <4>3
    <3> QED  BY <2>1, <2>2, <3>1, <3>2
  <2> QED  BY <2>3, <2>4
<1> QED  BY <1>1, <1>2 DEF Typed

\* every call of terminal, on an invocation that exists, keeps the invariant
LEMMA TerminalSettles ==
  ASSUME NEW i, NEW qs, NEW reason \in Adapter!Reasons,
         Typed(i, qs, sent), Settlement(i, sent),
         i.terminal => NoneOpen(qs), i.finalized => i.terminal, i.phase # "none",
         Adapter!Terminal(reason, i, qs)
  PROVE  /\ Typed(inv', ops', sent') /\ Settlement(inv', sent')
         /\ inv'.terminal => NoneOpen(ops')
         /\ inv'.finalized => inv'.terminal
         /\ inv'.phase # "none"
         /\ reason # "none" => inv'.terminal
<1>1. CASE i.terminal \/ (reason = "none" /\ i.resultSent)
  <2>1. inv' = i /\ ops' = qs /\ sent' = sent  BY <1>1 DEF Adapter!Terminal
  <2> QED  BY <1>1, <2>1
<1>2. CASE ~i.terminal /\ ~(reason = "none" /\ i.resultSent)
  <2>1. /\ inv' = [i EXCEPT !.phase = Adapter!PhaseAfter(reason),
                            !.terminal = reason # "none", !.resultSent = @ \/ reason = "none"]
        /\ ops' = Adapter!Disposed(qs) /\ sent' = sent \o Adapter!Wire(i, reason)
    BY <1>2 DEF Adapter!Terminal
  <2>2. Adapter!PhaseAfter(reason) \in Adapter!Phase \ {"none"}  BY DEF Adapter!PhaseAfter,
                                                                      Adapter!Phase
  <2>3. Typed(inv', ops', sent) /\ NoneOpen(ops')
    <3>1. inv' \in Invocations  BY <2>1, <2>2 DEF Typed, Invocations
    <3> QED  BY <2>1, <3>1, DisposedCloses DEF Typed
  <2>4. /\ inv'.phase # "none" /\ inv'.terminal = (reason # "none")
        /\ inv'.resultSent = (i.resultSent \/ reason = "none")
        /\ inv'.finalized = i.finalized
    BY <2>1, <2>2 DEF Typed, Invocations
  <2>5. Settlement(inv', sent') /\ sent' \in Seq(Adapter!Message)
    BY <1>2, <2>1, <2>4, WireFollows DEF Settlement
  <2> QED  BY <1>2, <2>3, <2>4, <2>5 DEF Typed
<1> QED  BY <1>1, <1>2

\* nothing was sent and nothing is open
LEMMA InitHolds == Adapter!Init => AdapterInductive
BY DEF Adapter!Init, AdapterInductive, Typed, Settlement, NoneOpen, Adapter!Phase,
     Adapter!Availability, Adapter!Op, Adapter!Reasons, Operations, Invocations

\* the same, as a step from the invariant
LEMMA SettleKeeps ==
  ASSUME AdapterInductive, NEW i, NEW qs, NEW reason \in Adapter!Reasons,
         Typed(i, qs, sent), Settlement(i, sent),
         i.terminal => NoneOpen(qs), i.finalized => i.terminal, i.phase # "none",
         Adapter!Terminal(reason, i, qs), destroyed' => reason # "none"
  PROVE  AdapterInductive'
<1>1. /\ Typed(inv', ops', sent') /\ Settlement(inv', sent')
      /\ inv'.terminal => NoneOpen(ops')
      /\ inv'.finalized => inv'.terminal
      /\ inv'.phase # "none"
      /\ reason # "none" => inv'.terminal
  BY TerminalSettles
<1> QED  BY <1>1 DEF AdapterInductive, Typed, Settlement, NoneOpen

\* a step that settles nothing
LEMMA QuietKeeps ==
  ASSUME AdapterInductive, inv' \in Invocations, ops' \in Operations, sent' = sent,
         inv'.terminal = inv.terminal, inv'.resultSent = inv.resultSent,
         inv'.finalized = inv.finalized, inv'.terminal => NoneOpen(ops'),
         inv'.phase = "none" => inv.phase = "none",
         destroyed' => inv.terminal \/ inv'.phase = "none"
  PROVE  AdapterInductive'
BY DEF AdapterInductive, Typed, Settlement, NoneOpen

\* live() answering no: the deadline settles on the way, or nothing happens
LEMMA NotLiveKeeps ==
  ASSUME AdapterInductive, NEW qs \in Operations, inv.terminal => NoneOpen(qs),
         Adapter!NotLive(qs), UNCHANGED destroyed
  PROVE  AdapterInductive'
<1>1. CASE inv.phase # "none" /\ ~destroyed
  <2>1. Adapter!Terminal("timeout", inv, qs)  BY <1>1 DEF Adapter!NotLive
  <2>2. "timeout" \in Adapter!Reasons /\ "timeout" # "none"  BY DEF Adapter!Reasons,
                                                                  Adapter!FailureReasons
  <2>3. Typed(inv, qs, sent) /\ Settlement(inv, sent) /\ (inv.finalized => inv.terminal)
    BY DEF AdapterInductive, Typed
  <2> QED  BY <1>1, <2>1, <2>2, <2>3, SettleKeeps
<1>2. CASE ~(inv.phase # "none" /\ ~destroyed)
  <2>1. ops' = qs /\ inv' = inv /\ sent' = sent  BY <1>2 DEF Adapter!NotLive
  <2> QED  BY <2>1, QuietKeeps DEF AdapterInductive, Typed
<1> QED  BY <1>1, <1>2

\* the finally of an operation closes its session
LEMMA FinallyDisposes ==
  ASSUME NEW o \in Adapter!Op, NEW qs \in Operations, NEW f \in Adapter!Reasons \cup {"gone"}
  PROVE  Adapter!Finally(o, qs, f) \in Operations /\ NoneOpen(Adapter!Finally(o, qs, f))
<1>1. [qs EXCEPT ![o].pc = "dispose", ![o].failure = f] \in Operations  BY DEF Operations
<1> QED  BY <1>1, DisposedCloses DEF Adapter!Finally

\* every action keeps the invariant
LEMMA StepKeeps == AdapterInductive /\ [Adapter!Next]_(Adapter!vars) => AdapterInductive'
<1> SUFFICES ASSUME AdapterInductive, [Adapter!Next]_(Adapter!vars) PROVE AdapterInductive'  OBVIOUS
<1> USE DEF AdapterInductive, Typed
<1>0. /\ inv \in Invocations /\ ops \in Operations /\ sent \in Seq(Adapter!Message)
      /\ Settlement(inv, sent) /\ inv.finalized => inv.terminal
  OBVIOUS
<1>live. Adapter!Live => ~inv.terminal /\ ~destroyed /\ inv.phase # "none"  BY DEF Adapter!Live
<1>names. /\ {"none", "gone", "setup-declined", "unavailable", "custody-failure",
              "malformed-output", "api-absent", "timeout"} \subseteq Adapter!Reasons \cup {"gone"}
          /\ Adapter!CancelReasons \cup Adapter!FailureReasons \subseteq Adapter!Reasons \ {"none"}
  BY DEF Adapter!Reasons, Adapter!CancelReasons, Adapter!FailureReasons
<1>1. CASE Adapter!Inspect
  <2>1. inv' = [inv EXCEPT !.phase = "verifying"] /\ ops' = ops /\ sent' = sent
        /\ ~destroyed /\ destroyed' = destroyed /\ ~inv.terminal
    BY <1>1 DEF Adapter!Inspect
  <2>2. inv' \in Invocations /\ inv'.terminal = inv.terminal
        /\ inv'.resultSent = inv.resultSent /\ inv'.finalized = inv.finalized
        /\ inv'.phase # "none"
    BY <1>0, <2>1 DEF Invocations, Adapter!Phase
  <2> QED  BY <1>0, <2>1, <2>2, QuietKeeps
<1>2. CASE Adapter!Verified
  <2>1. CASE /\ Adapter!Live /\ inv' = [inv EXCEPT !.phase = "checking"]
             /\ UNCHANGED <<ops, timer, sent>>
    <3>1. inv' \in Invocations /\ inv'.terminal = inv.terminal
          /\ inv'.resultSent = inv.resultSent /\ inv'.finalized = inv.finalized
          /\ inv'.phase # "none"
      BY <1>0, <2>1 DEF Invocations, Adapter!Phase
    <3> QED  BY <1>0, <1>2, <1>live, <2>1, <3>1, QuietKeeps DEF Adapter!Verified
  <2>2. CASE Adapter!Live /\ Adapter!Terminal("api-absent", [inv EXCEPT !.availability = "api-absent"], ops)
    <3> DEFINE i == [inv EXCEPT !.availability = "api-absent"]
    <3>1. i \in Invocations /\ i.terminal = inv.terminal /\ i.phase = inv.phase
          /\ i.resultSent = inv.resultSent /\ i.finalized = inv.finalized
      BY <1>0 DEF Invocations, Adapter!Availability
    <3>2. Settlement(i, sent)  BY <1>0, <3>1 DEF Settlement
    <3> HIDE DEF i
    <3>3. ~destroyed'  BY <1>2, <1>live, <2>2 DEF Adapter!Verified
    <3>4. Adapter!Terminal("api-absent", i, ops)  BY <2>2 DEF i
    <3> QED  BY <1>0, <1>live, <1>names, <2>2, <3>1, <3>2, <3>3, <3>4, SettleKeeps
  <2>3. CASE Adapter!NotLive(ops)
    BY <1>0, <1>2, <2>3, NotLiveKeeps DEF Adapter!Verified
  <2> QED  BY <1>2, <2>1, <2>2, <2>3 DEF Adapter!Verified
<1>3. CASE Adapter!Available
  <2>1. CASE /\ Adapter!Live /\ UNCHANGED <<ops, sent>>
             /\ \E a \in {<<"available", "ready">>, <<"setup-required", "preparation-required">>} :
                  inv' = [inv EXCEPT !.availability = a[1], !.phase = a[2]]
    <3>0. PICK a \in {<<"available", "ready">>, <<"setup-required", "preparation-required">>} :
            inv' = [inv EXCEPT !.availability = a[1], !.phase = a[2]]
      BY <2>1
    <3>a. a[1] \in Adapter!Availability /\ a[2] \in Adapter!Phase \ {"none"}
      BY DEF Adapter!Availability, Adapter!Phase
    <3>1. inv' \in Invocations /\ inv'.terminal = inv.terminal
          /\ inv'.resultSent = inv.resultSent /\ inv'.finalized = inv.finalized
          /\ inv'.phase # "none"
      BY <1>0, <3>0, <3>a DEF Invocations
    <3>2. ops' = ops /\ sent' = sent /\ destroyed' = destroyed /\ Adapter!Live
      BY <1>3, <2>1 DEF Adapter!Available
    <3> QED  BY <1>0, <1>live, <3>1, <3>2, QuietKeeps
  <2>2. CASE Adapter!Live /\ Adapter!Terminal("unavailable", [inv EXCEPT !.availability = "unavailable"], ops)
    <3> DEFINE i == [inv EXCEPT !.availability = "unavailable"]
    <3>1. i \in Invocations /\ i.terminal = inv.terminal /\ i.phase = inv.phase
          /\ i.resultSent = inv.resultSent /\ i.finalized = inv.finalized
      BY <1>0 DEF Invocations, Adapter!Availability
    <3>2. Settlement(i, sent)  BY <1>0, <3>1 DEF Settlement
    <3> HIDE DEF i
    <3>3. ~destroyed'  BY <1>3, <1>live, <2>2 DEF Adapter!Available
    <3>4. Adapter!Terminal("unavailable", i, ops)  BY <2>2 DEF i
    <3> QED  BY <1>0, <1>live, <1>names, <2>2, <3>1, <3>2, <3>3, <3>4, SettleKeeps
  <2>3. CASE Adapter!NotLive(ops)
    BY <1>0, <1>3, <2>3, NotLiveKeeps DEF Adapter!Available
  <2> QED  BY <1>3, <2>1, <2>2, <2>3 DEF Adapter!Available
<1>4. CASE Adapter!InspectFails
  <2>1. CASE Adapter!Live /\ Adapter!Terminal("custody-failure", inv, ops)
    BY <1>0, <1>4, <1>live, <1>names, <2>1, SettleKeeps DEF Adapter!InspectFails
  <2>2. CASE Adapter!NotLive(ops)
    BY <1>0, <1>4, <2>2, NotLiveKeeps DEF Adapter!InspectFails
  <2> QED  BY <1>4, <2>1, <2>2 DEF Adapter!InspectFails
<1>5. ASSUME NEW o \in Adapter!Op, Adapter!Execute(o) PROVE AdapterInductive'
  <2>1. CASE Adapter!NotLive(ops)
    BY <1>0, <1>5, <2>1, NotLiveKeeps DEF Adapter!Execute, Adapter!Inv
  <2>2. CASE Adapter!Live /\ ~Adapter!NotLive(ops)
    <3>1. /\ ops' = Adapter!Step(o, [pc |-> "create", session |-> "none", cleanup |-> "none",
                              failure |-> "none"])
          /\ inv' = [inv EXCEPT !.phase = IF o = "prepare" THEN "preparing" ELSE "running"]
          /\ sent' = sent /\ destroyed' = destroyed
      BY <1>5, <2>2 DEF Adapter!Execute, Adapter!Inv
    <3>2. ops' \in Operations  BY <1>0, <1>names, <3>1 DEF Adapter!Step, Operations
    <3>3. inv' \in Invocations /\ inv'.terminal = inv.terminal
          /\ inv'.resultSent = inv.resultSent /\ inv'.finalized = inv.finalized
          /\ inv'.phase # "none"
      BY <1>0, <3>1 DEF Invocations, Adapter!Phase
    <3> QED  BY <1>0, <1>live, <2>2, <3>1, <3>2, <3>3, QuietKeeps
  <2> QED  BY <1>5, <2>1, <2>2 DEF Adapter!Execute
<1>6. ASSUME NEW o \in Adapter!Op, Adapter!Created(o) PROVE AdapterInductive'
  <2> DEFINE got == [ops EXCEPT ![o].session = "open"]
  <2>1. got \in Operations  BY <1>0 DEF Operations
  <2>2. CASE Adapter!NotLive(Adapter!Finally(o, got, "gone"))
    <3>1. Adapter!Finally(o, got, "gone") \in Operations /\ NoneOpen(Adapter!Finally(o, got, "gone"))
      BY <1>names, <2>1, FinallyDisposes
    <3> QED  BY <1>6, <2>2, <3>1, NotLiveKeeps DEF Adapter!Created, Adapter!Inv
  <2>3. CASE Adapter!Live /\ o = "run" /\ ops' = [got EXCEPT ![o].pc = "prompt"]
             /\ inv' = [inv EXCEPT !.prompted = TRUE] /\ UNCHANGED <<timer, sent>>
    <3>0. ops' = [got EXCEPT ![o].pc = "prompt"]  BY <2>3
    <3> HIDE DEF got
    <3>1. ops' \in Operations  BY <2>1, <3>0, OpMoves
    <3>2. inv' \in Invocations /\ inv'.terminal = inv.terminal
          /\ inv'.resultSent = inv.resultSent /\ inv'.finalized = inv.finalized
          /\ inv'.phase = inv.phase
      BY <1>0, <2>3 DEF Invocations
    <3> QED  BY <1>0, <1>6, <1>live, <2>3, <3>1, <3>2, QuietKeeps DEF Adapter!Created, Adapter!Inv
  <2>4. CASE Adapter!Live /\ o = "prepare" /\ ops' = Adapter!Finally(o, got, "none")
             /\ UNCHANGED <<inv, timer, sent>>
    <3>1. ops' \in Operations  BY <1>names, <2>1, <2>4, FinallyDisposes
    <3> QED  BY <1>0, <1>6, <1>live, <2>4, <3>1, QuietKeeps DEF Adapter!Created, Adapter!Inv
  <2> QED  BY <1>6, <2>2, <2>3, <2>4 DEF Adapter!Created
<1>7. ASSUME NEW o \in Adapter!Op, Adapter!CreateFails(o) PROVE AdapterInductive'
  <2>1. PICK f \in Adapter!Reasons \cup {"gone"} : ops' = Adapter!Finally(o, ops, f)
    BY <1>7, <1>names DEF Adapter!CreateFails
  <2>2. ops' \in Operations /\ NoneOpen(ops')  BY <1>0, <2>1, FinallyDisposes
  <2>3. inv' = inv /\ sent' = sent /\ destroyed' = destroyed  BY <1>7 DEF Adapter!CreateFails,
                                                                   Adapter!Inv
  <2> QED  BY <1>0, <2>2, <2>3, QuietKeeps
<1>8. ASSUME NEW o \in Adapter!Op, Adapter!Prompted(o) PROVE AdapterInductive'
  <2>1. CASE Adapter!NotLive(Adapter!Finally(o, ops, "gone"))
    <3>1. Adapter!Finally(o, ops, "gone") \in Operations /\ NoneOpen(Adapter!Finally(o, ops, "gone"))
      BY <1>0, <1>names, FinallyDisposes
    <3> QED  BY <1>8, <2>1, <3>1, NotLiveKeeps DEF Adapter!Prompted, Adapter!Inv
  <2>2. CASE ~Adapter!NotLive(Adapter!Finally(o, ops, "gone"))
    <3>1. PICK f \in Adapter!Reasons \cup {"gone"} : ops' = Adapter!Finally(o, ops, f)
      BY <1>8, <1>names, <2>2 DEF Adapter!Prompted
    <3>2. ops' \in Operations /\ NoneOpen(ops')  BY <1>0, <3>1, FinallyDisposes
    <3>3. UNCHANGED <<inv, sent, destroyed>>  BY <1>8, <2>2 DEF Adapter!Prompted, Adapter!Inv
    <3> QED  BY <1>0, <3>2, <3>3, QuietKeeps
  <2> QED  BY <2>1, <2>2
<1>9. ASSUME NEW o \in Adapter!Op, Adapter!PromptFails(o) PROVE AdapterInductive'
  <2>1. ops' = Adapter!Finally(o, ops, "custody-failure")  BY <1>9 DEF Adapter!PromptFails
  <2>2. ops' \in Operations /\ NoneOpen(ops')  BY <1>0, <1>names, <2>1, FinallyDisposes
  <2> QED  BY <1>0, <1>9, <2>2, QuietKeeps DEF Adapter!PromptFails, Adapter!Inv
<1>10. ASSUME NEW o \in Adapter!Op, Adapter!CleanedUp(o) PROVE AdapterInductive'
  <2>1. PICK c \in {"ok", "failed"} : ops' = [ops EXCEPT ![o].cleanup = c]
    BY <1>10 DEF Adapter!CleanedUp
  <2>2. ops' \in Operations  BY <1>0, <2>1 DEF Operations
  <2>3. NoneOpen(ops) => NoneOpen(ops')  BY <1>0, <2>1 DEF NoneOpen, Operations
  <2>4. inv' = inv /\ sent' = sent /\ destroyed' = destroyed  BY <1>10 DEF Adapter!CleanedUp,
                                                                   Adapter!Inv
  <2> QED  BY <1>0, <2>2, <2>3, <2>4, QuietKeeps
<1>11. ASSUME NEW o \in Adapter!Op, Adapter!Finish(o) PROVE AdapterInductive'
  <2> DEFINE f  == IF ops[o].cleanup = "failed" /\ ops[o].failure # "gone"
                   THEN "custody-failure" ELSE ops[o].failure
             qs == [ops EXCEPT ![o].pc = "done"]
  <2>1. qs \in Operations /\ (NoneOpen(ops) => NoneOpen(qs))  BY <1>0 DEF Operations, NoneOpen
  <2>2. f \in Adapter!Reasons \cup {"gone"}  BY <1>0, <1>names DEF Operations
  <2>3. \/ f = "gone" /\ ops' = qs /\ UNCHANGED <<inv, timer, sent>>
        \/ Adapter!NotLive(qs)
        \/ /\ Adapter!Live /\ ops' = qs /\ sent' = sent
           /\ inv' = [inv EXCEPT !.availability = "available", !.phase = "ready"]
        \/ /\ f # "gone" /\ Adapter!Live
           /\ Adapter!Terminal(f, [inv EXCEPT !.availability =
                             IF f \in {"setup-declined", "unavailable"} THEN f ELSE @], qs)
    BY <1>11 DEF Adapter!Finish
  <2>4. destroyed' = destroyed  BY <1>11 DEF Adapter!Finish, Adapter!Inv
  <2>5. CASE f = "gone" /\ ops' = qs /\ UNCHANGED <<inv, timer, sent>>
    <3> HIDE DEF f, qs
    <3> QED  BY <1>0, <2>1, <2>4, <2>5, QuietKeeps
  <2>6. CASE Adapter!NotLive(qs)
    <3> HIDE DEF f, qs
    <3> QED  BY <2>1, <2>4, <2>6, NotLiveKeeps
  <2>7. CASE /\ Adapter!Live /\ ops' = qs /\ sent' = sent
             /\ inv' = [inv EXCEPT !.availability = "available", !.phase = "ready"]
    <3> HIDE DEF f, qs
    <3>1. inv' \in Invocations /\ inv'.terminal = inv.terminal
          /\ inv'.resultSent = inv.resultSent /\ inv'.finalized = inv.finalized
          /\ inv'.phase # "none"
      BY <1>0, <2>7 DEF Invocations, Adapter!Phase, Adapter!Availability
    <3> QED  BY <1>0, <1>live, <2>1, <2>4, <2>7, <3>1, QuietKeeps
  <2>8. CASE /\ f # "gone" /\ Adapter!Live
             /\ Adapter!Terminal(f, [inv EXCEPT !.availability =
                               IF f \in {"setup-declined", "unavailable"} THEN f ELSE @], qs)
    <3> HIDE DEF f, qs
    <3> DEFINE i == [inv EXCEPT !.availability =
                       IF f \in {"setup-declined", "unavailable"} THEN f ELSE @]
    <3>1. i \in Invocations /\ i.terminal = inv.terminal /\ i.phase = inv.phase
          /\ i.resultSent = inv.resultSent /\ i.finalized = inv.finalized
      BY <1>0 DEF Invocations, Adapter!Availability
    <3>2. Settlement(i, sent)  BY <1>0, <3>1 DEF Settlement
    <3>3. Adapter!Terminal(f, i, qs) /\ f \in Adapter!Reasons /\ ~destroyed'
      BY <1>live, <2>2, <2>4, <2>8
    <3> HIDE DEF i
    <3> QED  BY <1>0, <1>live, <2>1, <2>8, <3>1, <3>2, <3>3, SettleKeeps
  <2> QED  BY <2>3, <2>5, <2>6, <2>7, <2>8
<1>12. ASSUME NEW r \in Adapter!Reasons, Adapter!Cancel(r) PROVE AdapterInductive'
  <2>1. r # "none" /\ inv.phase # "none" /\ Adapter!Terminal(r, inv, ops)
    BY <1>12, <1>names DEF Adapter!Cancel
  <2> QED  BY <1>0, <2>1, SettleKeeps
<1>13. ASSUME NEW r \in Adapter!Reasons, Adapter!Destroy(r) PROVE AdapterInductive'
  <2>1. CASE inv.phase # "none"
    <3>1. r # "none" /\ Adapter!Terminal(r, inv, ops)  BY <1>13, <1>names,
                                                            <2>1 DEF Adapter!Destroy
    <3> QED  BY <1>0, <2>1, <3>1, SettleKeeps
  <2>2. CASE inv.phase = "none"
    <3>1. inv' = inv /\ ops' = ops /\ sent' = sent  BY <1>13, <2>2 DEF Adapter!Destroy
    <3> QED  BY <1>0, <2>2, <3>1, QuietKeeps
  <2> QED  BY <2>1, <2>2
<1>14. CASE Adapter!Finalize
  <2>1. /\ inv' = [inv EXCEPT !.finalized = TRUE, !.terminal = TRUE]
        /\ ops' = Adapter!Disposed(ops) /\ sent' = sent /\ inv.phase # "none"
    BY <1>14 DEF Adapter!Finalize
  <2>2. inv' \in Invocations /\ inv'.terminal /\ inv'.phase # "none"
    BY <1>0, <2>1 DEF Invocations
  <2>3. ops' \in Operations /\ NoneOpen(ops')  BY <1>0, <2>1, DisposedCloses
  <2>4. Settlement(inv', sent')  BY <1>0, <2>1, <2>2 DEF Settlement
  <2> QED  BY <1>0, <2>1, <2>2, <2>3, <2>4 DEF Settlement, NoneOpen
<1>15. CASE Adapter!TimerFires
  <2>1. CASE inv.terminal \/ inv.phase = "none"
    <3>1. inv' = inv /\ ops' = ops /\ sent' = sent /\ destroyed' = destroyed
      BY <1>15, <2>1 DEF Adapter!TimerFires, Adapter!Inv
    <3> QED  BY <1>0, <3>1, QuietKeeps
  <2>2. CASE ~(inv.terminal \/ inv.phase = "none")
    <3>1. Adapter!Terminal("timeout", inv, ops) /\ destroyed' = destroyed
      BY <1>15, <2>2 DEF Adapter!TimerFires, Adapter!Inv
    <3> QED  BY <1>0, <1>names, <2>2, <3>1, SettleKeeps
  <2> QED  BY <2>1, <2>2
<1>16. CASE Adapter!Tick
  BY <1>0, <1>16, QuietKeeps DEF Adapter!Tick
<1>17. CASE UNCHANGED Adapter!vars
  BY <1>0, <1>17, QuietKeeps DEF Adapter!vars
<1> QED  BY <1>1, <1>2, <1>3, <1>4, <1>5, <1>6, <1>7, <1>8, <1>9, <1>10, <1>11, <1>12, <1>13,
           <1>14, <1>15, <1>16, <1>17 DEF Adapter!Next

-----------------------------------------------------------------------------
\* The inductive invariant: what was sent follows from the flags of the
\* invocation, and a terminal invocation has no open session.
THEOREM SettlementIsKept == Adapter!Spec => []AdapterInductive
<1>1. Adapter!Init => AdapterInductive  BY InitHolds
<1>2. AdapterInductive /\ [Adapter!Next]_(Adapter!vars) => AdapterInductive'  BY StepKeeps
<1> QED  BY <1>1, <1>2, PTL DEF Adapter!Spec

\* Whatever races, one message is sent, or the model's answer and one cancel
\* that supersedes it (terminal).
THEOREM SettlesOnce == Adapter!Spec => []SettledOnce
<1>1. AdapterInductive => SettledOnce
  BY DEF AdapterInductive, Typed, Settlement, SettledOnce
<1> QED  BY <1>1, SettlementIsKept, PTL

\* A terminal invocation holds no session of the model (dispose).
THEOREM SessionsEnd == Adapter!Spec => []NoSessionLeft
<1>1. AdapterInductive => NoSessionLeft
  BY DEF AdapterInductive, NoneOpen, NoSessionLeft, Typed, Operations
<1> QED  BY <1>1, SettlementIsKept, PTL
=============================================================================
