------------------------- MODULE ReceiptLedgerProofs -------------------------
(***************************************************************************)
(* Proofs about ReceiptLedger, for any processes, appends and faults.      *)
(***************************************************************************)
EXTENDS ReceiptLedger, SequenceTheorems, TLAPS

\* The names of the directories, in order, are a sequence of the same length.
LEMMA NamesAreASequence ==
  ASSUME receipts \in Seq(Receipt)
  PROVE  /\ Names \in Seq(Nat) /\ Len(Names) = Len(receipts)
         /\ DOMAIN Names = 1 .. Len(receipts) /\ DOMAIN receipts = 1 .. Len(receipts)
         /\ \A k \in 1 .. Len(receipts) : Names[k] = receipts[k].name
         /\ receipts = <<>> <=> Len(receipts) = 0
         /\ TailName(Names) = IF Len(receipts) = 0 THEN 0 ELSE receipts[Len(receipts)].name
  <1>1. Len(receipts) \in Nat /\ DOMAIN receipts = 1 .. Len(receipts)
    OBVIOUS
  <1>2. \A k \in 1 .. Len(receipts) : receipts[k] \in Receipt
    OBVIOUS
  <1>3. Names \in [1 .. Len(receipts) -> Nat]
    BY <1>1, <1>2 DEF Names, Receipt
  <1>4. Names \in Seq(Nat) /\ Len(Names) = Len(receipts)
    BY <1>1, <1>3
  <1>5. receipts = <<>> <=> Len(receipts) = 0
    OBVIOUS
  <1>6. Names = <<>> <=> Len(receipts) = 0
    BY <1>4
  <1> QED BY <1>1, <1>3, <1>4, <1>5, <1>6 DEF TailName, Names

\* What an append to the directories does to their names
LEMMA AppendNames ==
  ASSUME receipts \in Seq(Receipt), NEW r \in Receipt, receipts' = Append(receipts, r)
  PROVE  /\ receipts' \in Seq(Receipt) /\ Len(receipts') = Len(receipts) + 1
         /\ DOMAIN receipts' = 1 .. Len(receipts) + 1
         /\ \A k \in 1 .. Len(receipts) : receipts'[k] = receipts[k]
         /\ receipts'[Len(receipts) + 1] = r
  OBVIOUS

\* Sealing changes no name, no link and no length.
LEMMA SealKeeps ==
  ASSUME receipts \in Seq(Receipt), NEW n \in Nat,
         receipts' = [k \in DOMAIN receipts |-> IF receipts[k].name = n
                        THEN [receipts[k] EXCEPT !.sealed = TRUE] ELSE receipts[k]]
  PROVE  /\ receipts' \in Seq(Receipt) /\ Len(receipts') = Len(receipts)
         /\ DOMAIN receipts' = DOMAIN receipts
         /\ \A k \in DOMAIN receipts : /\ receipts'[k].name = receipts[k].name
                                       /\ receipts'[k].prev = receipts[k].prev
                                       /\ receipts[k].sealed => receipts'[k].sealed
                                       /\ receipts[k].name = n => receipts'[k].sealed
  <1>1. Len(receipts) \in Nat /\ DOMAIN receipts = 1 .. Len(receipts)
    OBVIOUS
  <1>2. \A k \in DOMAIN receipts : receipts[k] \in Receipt
    OBVIOUS
  <1>3. receipts' \in [1 .. Len(receipts) -> Receipt]
    BY <1>1, <1>2 DEF Receipt
  <1>4. receipts' \in Seq(Receipt) /\ Len(receipts') = Len(receipts)
    BY <1>1, <1>3
  <1> QED BY <1>1, <1>2, <1>3, <1>4 DEF Receipt

\* Every step keeps files and memory well formed.
LEMMA TypeStep == TypeOK /\ [Next]_vars => TypeOK'
  <1> SUFFICES ASSUME TypeOK, [Next]_vars PROVE TypeOK'
    OBVIOUS
  <1> USE DEF TypeOK, Task, Inside, Goto, At, files, memory
  <1>0. Fault => faults' \in 0 .. MaxFaults
    BY ConstantsAssumption DEF Fault
  <1>1. CASE UNCHANGED vars
    BY <1>1 DEF vars
  <1>2. ASSUME NEW p \in Process, Call(p) PROVE TypeOK'
    BY <1>2 DEF Call, Take, Claim
  <1>3. ASSUME NEW p \in Process, Close(p) PROVE TypeOK'
    BY <1>3 DEF Close
  <1>4. ASSUME NEW p \in Process, Work(p) PROVE TypeOK'
    <2>1. CASE Read(p)
      BY <2>1, NamesAreASequence DEF Read
    <2>2. CASE Refuse(p)
      BY <2>2 DEF Refuse
    <2>3. CASE Stage(p)
      BY <2>3 DEF Stage
    <2>4. CASE WriteHead(p)
      BY <2>4 DEF WriteHead
    <2>5. CASE RenameHead(p)
      <3>1. Len(chain[p]) + 1 \in Nat /\ mine[p] \in Nat
        OBVIOUS
      <3> QED BY <2>5, <3>1 DEF RenameHead, RenamesHead
    <2>6. CASE Cancel(p)
      BY <2>6 DEF Cancel
    <2>7. ASSUME NEW f \in BOOLEAN, RenameReceipt(p, f) PROVE TypeOK'
      <3>1. TailName(chain[p]) \in Nat /\ mine[p] \in Nat
        BY DEF TailName
      <3> DEFINE r == [name |-> mine[p], prev |-> TailName(chain[p]), fails |-> f, sealed |-> FALSE]
      <3>2. r \in Receipt
        BY <3>1 DEF Receipt
      <3>3. receipts' = Append(receipts, r)
        BY <2>7 DEF RenameReceipt
      <3> HIDE DEF r
      <3>4. receipts' \in Seq(Receipt) /\ Len(receipts') = Len(receipts) + 1 /\ Len(receipts) \in Nat
        BY <3>2, <3>3
      <3>5. pointer' \in 0 .. Len(receipts')
        BY <2>7, <3>4 DEF RenameReceipt
      <3> QED BY <2>7, <3>4, <3>5 DEF RenameReceipt
    <2>8. CASE Seal(p)
      BY <2>8, SealKeeps DEF Seal
    <2>9. CASE Point(p)
      <3>1. PICK k \in {0} \cup DOMAIN receipts : Points(p, k)
        BY <2>9 DEF Point
      <3>2. k \in 0 .. Len(receipts)
        BY NamesAreASequence
      <3>3. acked' \subseteq Nat
        <4>1. Answers(p) /\ mine[p] \in Nat
          BY <3>1 DEF Points
        <4> QED BY <4>1 DEF Answers
      <3> QED BY <3>1, <3>2, <3>3 DEF Points
    <2>10. CASE MarkBroken(p)
      BY <2>10 DEF MarkBroken
    <2>11. CASE Release(p)
      BY <2>11 DEF Release, Return
    <2> QED BY <1>4, <2>1, <2>2, <2>3, <2>4, <2>5, <2>6, <2>7, <2>8, <2>9, <2>10, <2>11 DEF Work
  <1>5. ASSUME NEW p \in Process, Trouble(p) PROVE TypeOK'
    <2>1. CASE ReadFails(p) \/ PendingFails(p) \/ StageFails(p) \/ SealedFails(p) \/ MarkFails(p)
      BY <2>1, <1>0 DEF ReadFails, PendingFails, StageFails, SealedFails, MarkFails, Fails
    <2>2. CASE WriteFails(p)
      BY <2>2, <1>0 DEF WriteFails, Fails
    <2>3. CASE PointFails(p)
      BY <2>3, <1>0 DEF PointFails, Answers
    <2>4. CASE CancelFails(p)
      BY <2>4, <1>0 DEF CancelFails
    <2>5. CASE ReleaseFails(p)
      BY <2>5, <1>0 DEF ReleaseFails, Return
    <2>6. CASE Crash(p)
      BY <2>6, <1>0 DEF Crash, Return
    <2> QED BY <1>5, <2>1, <2>2, <2>3, <2>4, <2>5, <2>6 DEF Trouble
  <1> QED BY <1>1, <1>2, <1>3, <1>4, <1>5 DEF Next

\* The empty ledger is well formed.
LEMMA InitTypes == Init => TypeOK
  <1>1. Init => receipts \in Seq(Receipt) /\ pointer \in 0 .. Len(receipts)
    BY DEF Init
  <1>2. Init => chain \in [Process -> Seq(Nat)] /\ head \in [count : Nat, tail : Nat]
    BY DEF Init, NoHead
  <1>3. Init => faults \in 0 .. MaxFaults
    BY ConstantsAssumption DEF Init
  <1>4. Init => /\ pc \in [Process -> {"idle"} \cup Inside] /\ task \in [Process -> Task]
                /\ mine \in [Process -> Nat] /\ guarded \in [Process -> BOOLEAN]
                /\ live \in [Process -> BOOLEAN]
    BY DEF Init, Task
  <1>5. Init => /\ lock \in BOOLEAN /\ pendingDir \in BOOLEAN /\ marker \in BOOLEAN
                /\ staged \subseteq Nat /\ temps \subseteq Nat /\ acked \subseteq Nat
    BY Zenon DEF Init
  <1>6. Init => minted \in Nat
    BY DEF Init
  <1> QED BY <1>1, <1>2, <1>3, <1>4, <1>5, <1>6 DEF TypeOK

\* Files and memory keep their shape; the pointer never leaves the list.
THEOREM TypeCorrect == Spec => []TypeOK
  BY InitTypes, TypeStep, PTL DEF Spec

-----------------------------------------------------------------------------
(***************************************************************************)
(* The invariant.  A process that works holds the lock, so that all others *)
(* are idle: only the worker's own entry of AsLeft is at stake, and what   *)
(* its step leaves of the five facts about the files.                      *)
(***************************************************************************)
\* Who holds the lock is the only one at work.
LEMMA Alone ==
  ASSUME TypeOK, Exclusive, \A q \in Process : AsLeft(q), NEW p \in Process, pc[p] \in Inside
  PROVE  lock /\ \A q \in Process \ {p} : pc[q] = "idle" /\ mine[q] = 0
  <1>1. \A q \in Process : pc[q] = "idle" => mine[q] = 0
    BY DEF AsLeft, At
  <1>2. lock /\ \A q \in Process \ {p} : pc[q] \notin Inside
    BY DEF Exclusive
  <1> QED BY <1>1, <1>2 DEF TypeOK

\* A step of p while the others are idle: only its own entry is left to show.
LEMMA OthersIdle ==
  ASSUME NEW p \in Process, TypeOK, TypeOK',
         \A q \in Process \ {p} : pc[q] = "idle" /\ mine[q] = 0,
         \A q \in Process \ {p} : pc'[q] = pc[q] /\ mine'[q] = mine[q],
         pc'[p] \in Inside => lock', AsLeft(p)'
  PROVE  Exclusive' /\ \A q \in Process : AsLeft(q)'
  <1>1. \A q \in Process \ {p} : pc'[q] \notin Inside
    BY DEF Inside
  <1>2. Exclusive'
    BY <1>1 DEF Exclusive
  <1>3. ASSUME NEW q \in Process \ {p} PROVE AsLeft(q)'
    BY DEF AsLeft, At
  <1> QED BY <1>2, <1>3

\* What a step cannot disturb that leaves the directories and the head alone,
\* and removes from .pending only when the head is not ahead
LEMMA Undisturbed ==
  ASSUME TypeOK, Accounted, OneChain, ReadersAgree, HeadLeads,
         UNCHANGED <<receipts, head>>, minted' \in Nat, minted <= minted',
         staged \subseteq staged' \/ head.count = Len(receipts),
         \A q \in Process : chain'[q] \in {chain[q], Names, <<>>}
  PROVE  /\ Accounted' /\ OneChain' /\ ReadersAgree' /\ HeadLeads'
         /\ AnswerIsKept /\ acked' = acked => AnswerIsKept'
  <1> USE DEF TypeOK
  <1>0. \A k \in DOMAIN receipts : receipts[k].name \in Nat
    <2>1. \A k \in DOMAIN receipts : receipts[k] \in Receipt
      OBVIOUS
    <2> QED BY <2>1 DEF Receipt
  <1>1. Accounted'
    BY <1>0 DEF Accounted, Names, TailName
  <1>2. OneChain'
    BY DEF OneChain, Linked
  <1>3. HeadLeads'
    BY DEF HeadLeads
  <1>4. ReadersAgree'
    <2> SUFFICES ASSUME NEW q \in Process
                 PROVE  Len(chain'[q]) <= Len(receipts)
                        /\ \A k \in DOMAIN chain'[q] : receipts[k].name = chain'[q][k]
      BY DEF ReadersAgree
    <2>1. CASE chain'[q] = chain[q]
      BY <2>1 DEF ReadersAgree
    <2>2. CASE chain'[q] = Names
      BY <2>2, NamesAreASequence
    <2>3. CASE chain'[q] = <<>>
      BY <2>3
    <2> QED BY <2>1, <2>2, <2>3
  <1>5. AnswerIsKept /\ acked' = acked => AnswerIsKept'
    BY DEF AnswerIsKept
  <1> QED BY <1>1, <1>2, <1>3, <1>4, <1>5

\* An intact ledger has as many receipts as its head says.
LEMMA IntactCount ==
  ASSUME receipts \in Seq(Receipt), Intact
  PROVE  /\ head.count = Len(receipts) /\ ~marker /\ staged = {} /\ temps = {}
         /\ \A k \in DOMAIN receipts : receipts[k].sealed
  BY NamesAreASequence DEF Intact, HeadFits, NoHead

-----------------------------------------------------------------------------
\* Taking the lock changes no other file.
LEMMA CallStep == ASSUME Inductive, TypeOK', NEW p \in Process, Call(p) PROVE Inductive'
  <1> USE DEF Inductive
  <1>1. PICK t \in Task, g \in BOOLEAN : ~lock /\ Claim(p, t, g)
    BY DEF Call, Take
  <1>2. \A q \in Process : pc[q] \notin Inside
    BY <1>1 DEF Exclusive
  <1>3. \A q \in Process : pc[q] = "idle" /\ mine[q] = 0
    BY <1>2 DEF TypeOK, AsLeft, At
  <1>4. /\ pc'[p] = "read" /\ lock'
        /\ \A q \in Process \ {p} : pc'[q] = pc[q] /\ mine'[q] = mine[q]
        /\ UNCHANGED <<receipts, head, staged, chain, minted, acked>>
    BY <1>1 DEF Claim, Goto, TypeOK
  <1>5. AsLeft(p)'
    BY <1>4 DEF AsLeft, At
  <1>6. Exclusive' /\ \A q \in Process : AsLeft(q)'
    BY <1>3, <1>4, <1>5, OthersIdle
  <1>7. minted' \in Nat /\ minted <= minted'
    BY <1>4 DEF TypeOK
  <1>8. Accounted' /\ OneChain' /\ ReadersAgree' /\ HeadLeads' /\ AnswerIsKept'
    BY <1>4, <1>7, Undisturbed
  <1> QED BY <1>6, <1>8

\* Reading decides from the files and changes none of the five facts.
LEMMA ReadStep == ASSUME Inductive, TypeOK', NEW p \in Process, Read(p) PROVE Inductive'
  <1> USE DEF Inductive
  <1>1. pc[p] = "read" /\ pc[p] \in Inside
    BY DEF Read, At, Inside
  <1>2. lock /\ \A q \in Process \ {p} : pc[q] = "idle" /\ mine[q] = 0
    BY <1>1, Alone
  <1>3. /\ \A q \in Process \ {p} : pc'[q] = pc[q] /\ mine'[q] = mine[q]
        /\ \A q \in Process : chain'[q] \in {chain[q], Names}
        /\ UNCHANGED <<lock, receipts, head, staged, minted, acked, mine>>
    BY DEF Read, Goto, TypeOK
  <1>4. AsLeft(p)'
    <2>1. CASE Intact
      <3>1. Intact' /\ chain'[p] = Names' /\ task' = task
        BY <2>1 DEF Read, Intact, Linked, HeadFits, Names, TypeOK
      <3>2. pc'[p] \in {"release", "stage"} \/ (pc'[p] = "sealed" /\ task[p] # "append")
        BY <2>1, <1>1 DEF Read, Goto, TypeOK
      <3> QED BY <3>1, <3>2 DEF AsLeft, At
    <2>2. CASE ~Intact
      BY <2>2, <1>1 DEF Read, Goto, AsLeft, At, TypeOK
    <2> QED BY <2>1, <2>2
  <1>5. Exclusive' /\ \A q \in Process : AsLeft(q)'
    BY <1>2, <1>3, <1>4, OthersIdle
  <1>6. minted' \in Nat /\ minted <= minted'
    BY <1>3 DEF TypeOK
  <1>7. Accounted' /\ OneChain' /\ ReadersAgree' /\ HeadLeads' /\ AnswerIsKept'
    BY <1>3, <1>6, Undisturbed
  <1> QED BY <1>5, <1>7

\* The steps that only move the call on towards its release
Onward(p) ==
  \/ Refuse(p) \/ MarkBroken(p) \/ Release(p) \/ ReadFails(p) \/ PendingFails(p)
  \/ StageFails(p) \/ WriteFails(p) \/ SealedFails(p) \/ MarkFails(p) \/ ReleaseFails(p)

\* An early return, an error or a release touches neither head nor directories.
LEMMA OnwardStep == ASSUME Inductive, TypeOK', NEW p \in Process, Onward(p) PROVE Inductive'
  <1> USE DEF Inductive
  <1>1. /\ pc[p] \in Inside
        /\ UNCHANGED <<receipts, head, staged, chain, minted, acked>>
    BY DEF Onward, Refuse, MarkBroken, Release, ReadFails, PendingFails, StageFails, WriteFails,
           SealedFails, MarkFails, ReleaseFails, Fails, Return, At, Inside, files
  <1>2. lock /\ \A q \in Process \ {p} : pc[q] = "idle" /\ mine[q] = 0
    BY <1>1, Alone
  <1>3. \/ pc' = [pc EXCEPT ![p] = "idle"] /\ mine' = [mine EXCEPT ![p] = 0]
        \/ lock' = lock /\ mine' = mine /\ \E s \in {"release", "failing"} : pc' = [pc EXCEPT ![p] = s]
    BY DEF Onward, Refuse, MarkBroken, Release, ReadFails, PendingFails, StageFails, WriteFails,
           SealedFails, MarkFails, ReleaseFails, Fails, Return, Goto, files
  <1>4. /\ \A q \in Process \ {p} : pc'[q] = pc[q] /\ mine'[q] = mine[q]
        /\ \/ pc'[p] = "idle" /\ mine'[p] = 0
           \/ pc'[p] \in {"release", "failing"} /\ lock'
    BY <1>2, <1>3 DEF TypeOK
  <1>5. AsLeft(p)' /\ (pc'[p] \in Inside => lock')
    BY <1>4 DEF AsLeft, At, Inside
  <1>6. Exclusive' /\ \A q \in Process : AsLeft(q)'
    BY <1>2, <1>4, <1>5, OthersIdle
  <1>7. minted' \in Nat /\ minted <= minted'
    BY <1>1 DEF TypeOK
  <1>8. Accounted' /\ OneChain' /\ ReadersAgree' /\ HeadLeads' /\ AnswerIsKept'
    BY <1>1, <1>7, Undisturbed
  <1> QED BY <1>6, <1>8

-----------------------------------------------------------------------------
\* A staged receipt is newer than every directory.
LEMMA StageStep == ASSUME Inductive, TypeOK', NEW p \in Process, Stage(p) PROVE Inductive'
  <1> USE DEF Inductive
  <1>1. pc[p] \in Inside /\ Intact /\ chain[p] = Names
    BY DEF Stage, At, Inside, AsLeft
  <1>2. lock /\ \A q \in Process \ {p} : pc[q] = "idle" /\ mine[q] = 0
    BY <1>1, Alone
  <1>3. /\ \A q \in Process \ {p} : pc'[q] = pc[q] /\ mine'[q] = mine[q]
        /\ pc'[p] = "staged" /\ mine'[p] = minted + 1 /\ minted' = minted + 1
        /\ staged' = staged \cup {minted + 1}
        /\ UNCHANGED <<lock, receipts, head, marker, temps, chain, acked>>
    BY DEF Stage, Goto, TypeOK
  <1>4. /\ head.count = Len(receipts) /\ ~marker /\ staged = {} /\ temps = {}
        /\ \A k \in DOMAIN receipts : receipts[k].sealed
    BY <1>1, IntactCount DEF TypeOK
  <1>5. minted \in Nat /\ \A k \in DOMAIN receipts : receipts[k].name \in Nat
    <2>1. \A k \in DOMAIN receipts : receipts[k] \in Receipt
      BY DEF TypeOK
    <2> QED BY <2>1 DEF TypeOK, Receipt
  <1>6. Settled'
    BY <1>3, <1>4 DEF Settled
  <1>7. Fresh(p)'
    BY <1>1, <1>3, <1>5 DEF Fresh, Accounted, Names
  <1>8. AsLeft(p)'
    BY <1>3, <1>4, <1>6, <1>7 DEF AsLeft, At
  <1>9. Exclusive' /\ \A q \in Process : AsLeft(q)'
    BY <1>2, <1>3, <1>8, OthersIdle
  <1>10. minted' \in Nat /\ minted <= minted' /\ staged \subseteq staged'
    BY <1>3, <1>5
  <1>11. Accounted' /\ OneChain' /\ ReadersAgree' /\ HeadLeads' /\ AnswerIsKept'
    BY <1>3, <1>10, Undisturbed
  <1> QED BY <1>9, <1>11

\* Writing .head-next- changes only that file.
LEMMA WriteHeadStep == ASSUME Inductive, TypeOK', NEW p \in Process, WriteHead(p) PROVE Inductive'
  <1> USE DEF Inductive
  <1>1. /\ pc[p] \in Inside /\ Settled /\ Fresh(p) /\ staged = {mine[p]} /\ temps = {}
        /\ head.count = Len(receipts)
    BY DEF WriteHead, At, Inside, AsLeft
  <1>2. lock /\ \A q \in Process \ {p} : pc[q] = "idle" /\ mine[q] = 0
    BY <1>1, Alone
  <1>3. /\ \A q \in Process \ {p} : pc'[q] = pc[q] /\ mine'[q] = mine[q]
        /\ pc'[p] = "ready" /\ temps' = temps \cup {mine[p]}
        /\ UNCHANGED <<lock, staged, receipts, head, marker, mine, chain, minted, acked>>
    BY DEF WriteHead, Goto, TypeOK
  <1>4. Settled' /\ Fresh(p)'
    BY <1>1, <1>3 DEF Settled, Fresh, Names
  <1>5. AsLeft(p)'
    BY <1>1, <1>3, <1>4 DEF AsLeft, At
  <1>6. Exclusive' /\ \A q \in Process : AsLeft(q)'
    BY <1>2, <1>3, <1>5, OthersIdle
  <1>7. minted' \in Nat /\ minted <= minted'
    BY <1>3 DEF TypeOK
  <1>8. Accounted' /\ OneChain' /\ ReadersAgree' /\ HeadLeads' /\ AnswerIsKept'
    BY <1>3, <1>7, Undisturbed
  <1> QED BY <1>6, <1>8

\* The head moves one ahead, to the receipt that is staged.
LEMMA RenameHeadStep == ASSUME Inductive, TypeOK', NEW p \in Process, RenameHead(p) PROVE Inductive'
  <1> USE DEF Inductive
  <1>1. /\ pc[p] \in Inside /\ Settled /\ Fresh(p) /\ staged = {mine[p]} /\ temps = {mine[p]}
        /\ head.count = Len(receipts) /\ (guarded[p] => live[p])
    BY DEF RenameHead, RenamesHead, At, Inside, AsLeft
  <1>2. lock /\ \A q \in Process \ {p} : pc[q] = "idle" /\ mine[q] = 0
    BY <1>1, Alone
  <1>3. /\ \A q \in Process \ {p} : pc'[q] = pc[q] /\ mine'[q] = mine[q]
        /\ pc'[p] = "headed" /\ temps' = temps \ {mine[p]}
        /\ head' = [count |-> Len(chain[p]) + 1, tail |-> mine[p]]
        /\ UNCHANGED <<lock, staged, receipts, marker, mine, chain, guarded, live, minted, acked>>
    BY DEF RenameHead, RenamesHead, Goto, TypeOK
  <1>4. Len(chain[p]) = Len(receipts) /\ Len(receipts) \in Nat
    BY <1>1, NamesAreASequence DEF Fresh, TypeOK
  <1>5. Settled' /\ Fresh(p)'
    BY <1>1, <1>3 DEF Settled, Fresh, Names
  <1>6. AsLeft(p)'
    <2>1. temps' = {} /\ staged' = {mine'[p]} /\ (guarded'[p] => live'[p])
      BY <1>1, <1>3
    <2>2. head' = [count |-> Len(receipts') + 1, tail |-> mine'[p]]
      BY <1>3, <1>4
    <2> QED BY <1>3, <1>5, <2>1, <2>2 DEF AsLeft, At
  <1>7. Exclusive' /\ \A q \in Process : AsLeft(q)'
    BY <1>2, <1>3, <1>6, OthersIdle
  <1>8. Accounted'
    BY <1>3, <1>4 DEF Accounted
  <1>9. OneChain' /\ ReadersAgree'
    BY <1>3 DEF OneChain, Linked, ReadersAgree
  <1>10. HeadLeads'
    BY <1>1, <1>3, <1>4 DEF HeadLeads
  <1>11. AnswerIsKept'
    BY <1>1, <1>3, <1>4 DEF AnswerIsKept, TypeOK
  <1> QED BY <1>7, <1>8, <1>9, <1>10, <1>11

\* Cancelling removes a preparation that the head does not name yet.
LEMMA CancelStep ==
  ASSUME Inductive, TypeOK', NEW p \in Process, Cancel(p) \/ CancelFails(p) PROVE Inductive'
  <1> USE DEF Inductive
  <1>1. pc[p] \in Inside /\ head.count = Len(receipts)
    BY DEF Cancel, CancelFails, At, Inside, AsLeft
  <1>2. lock /\ \A q \in Process \ {p} : pc[q] = "idle" /\ mine[q] = 0
    BY <1>1, Alone
  <1>3. /\ \A q \in Process \ {p} : pc'[q] = pc[q] /\ mine'[q] = mine[q]
        /\ pc'[p] \in {"release", "failing"}
        /\ UNCHANGED <<lock, receipts, head, mine, chain, minted, acked>>
    BY DEF Cancel, CancelFails, Goto, TypeOK
  <1>4. AsLeft(p)'
    BY <1>3 DEF AsLeft, At
  <1>5. Exclusive' /\ \A q \in Process : AsLeft(q)'
    BY <1>2, <1>3, <1>4, OthersIdle
  <1>6. minted' \in Nat /\ minted <= minted'
    BY <1>3 DEF TypeOK
  <1>7. Accounted' /\ OneChain' /\ ReadersAgree' /\ HeadLeads' /\ AnswerIsKept'
    BY <1>1, <1>3, <1>6, Undisturbed
  <1> QED BY <1>5, <1>7

\* The directory gets the place that the head announced, behind all others.
LEMMA RenameReceiptStep ==
  ASSUME Inductive, TypeOK', NEW p \in Process, NEW f \in BOOLEAN, RenameReceipt(p, f)
  PROVE  Inductive'
  <1> USE DEF Inductive
  <1> DEFINE n == Len(receipts)
             r == [name |-> mine[p], prev |-> TailName(chain[p]), fails |-> f, sealed |-> FALSE]
  <1>1. /\ pc[p] \in Inside /\ Settled /\ Fresh(p) /\ staged = {mine[p]} /\ temps = {}
        /\ head = [count |-> n + 1, tail |-> mine[p]]
    BY DEF RenameReceipt, At, Inside, AsLeft
  <1>2. lock /\ \A q \in Process \ {p} : pc[q] = "idle" /\ mine[q] = 0
    BY <1>1, Alone
  <1>3. /\ \A q \in Process \ {p} : pc'[q] = pc[q] /\ mine'[q] = mine[q]
        /\ pc'[p] = "named" /\ staged' = staged \ {mine[p]} /\ receipts' = Append(receipts, r)
        /\ UNCHANGED <<lock, temps, head, marker, mine, chain, minted, acked>>
    BY DEF RenameReceipt, Goto, TypeOK
  <1>4. /\ n \in Nat /\ DOMAIN receipts = 1 .. n /\ Len(receipts') = n + 1
        /\ DOMAIN receipts' = 1 .. n + 1 /\ \A k \in 1 .. n : receipts'[k] = receipts[k]
        /\ receipts'[n + 1] = r
    BY <1>3 DEF TypeOK
  <1>5. r.name = mine[p] /\ mine[p] \in 1 .. minted /\ \A k \in 1 .. n : receipts[k].name < mine[p]
    BY <1>1, <1>4 DEF Fresh
  <1>6. r.prev = IF n = 0 THEN 0 ELSE receipts[n].name
    BY <1>1, NamesAreASequence DEF Fresh, TypeOK
  <1> HIDE DEF n, r
  <1>7. \A k \in 1 .. n : receipts[k].name \in Nat
    <2>1. \A k \in 1 .. n : receipts[k] \in Receipt
      BY <1>4 DEF TypeOK
    <2> QED BY <2>1 DEF Receipt
  <1>8. AsLeft(p)'
    <2>1. receipts' # <<>> /\ receipts'[Len(receipts')].name = mine[p]
      BY <1>4, <1>5 DEF TypeOK
    <2>2. head' = [count |-> Len(receipts'), tail |-> mine'[p]] /\ ~marker' /\ staged' = {} /\ temps' = {}
      BY <1>1, <1>3, <1>4 DEF Settled
    <2>3. \A k \in 1 .. Len(receipts') - 1 : receipts'[k].sealed
      BY <1>1, <1>4 DEF Settled
    <2> QED BY <1>3, <2>1, <2>2, <2>3 DEF AsLeft, At
  <1>9. Exclusive' /\ \A q \in Process : AsLeft(q)'
    BY <1>2, <1>3, <1>8, OthersIdle
  <1>10. \A j, k \in DOMAIN receipts' : j < k => receipts'[j].name < receipts'[k].name
    <2> SUFFICES ASSUME NEW j \in 1 .. n + 1, NEW k \in 1 .. n + 1, j < k
                 PROVE  receipts'[j].name < receipts'[k].name
      BY <1>4
    <2>1. CASE k = n + 1
      BY <2>1, <1>4, <1>5
    <2>2. CASE k # n + 1
      BY <2>2, <1>4 DEF Accounted
    <2> QED BY <2>1, <2>2
  <1>11. \A k \in DOMAIN receipts' : receipts'[k].name \in Nat /\ receipts'[k].name <= minted
    <2> SUFFICES ASSUME NEW k \in 1 .. n + 1
                 PROVE  receipts'[k].name \in Nat /\ receipts'[k].name <= minted
      BY <1>4
    <2>1. CASE k = n + 1
      BY <2>1, <1>4, <1>5 DEF TypeOK
    <2>2. CASE k # n + 1
      BY <2>2, <1>4, <1>7 DEF Accounted
    <2> QED BY <2>1, <2>2
  <1>12. Accounted'
    <2>1. TailName(Names)' = mine[p]
      <3>1. receipts' \in Seq(Receipt)
        BY DEF TypeOK
      <3>2. Names' = [k \in 1 .. n + 1 |-> receipts'[k].name]
        BY <1>4 DEF Names
      <3>3. Names' \in Seq(Nat) /\ Len(Names') = n + 1
        BY <3>2, <1>4, <1>11
      <3>4. n + 1 \in 1 .. n + 1 /\ n + 1 # 0
        <4>1. n \in Nat
          BY <1>4
        <4> QED BY <4>1
      <3>5. Names'[n + 1] = mine[p]
        BY <3>2, <3>4, <1>4, <1>5
      <3>6. Names' # <<>>
        BY <3>3, <3>4
      <3> QED BY <3>3, <3>5, <3>6 DEF TailName
    <2>2. head'.tail = mine[p]
      BY <1>1, <1>3
    <2> QED BY <1>3, <1>10, <1>11, <2>1, <2>2 DEF Accounted
  <1>13. OneChain'
    <2>1. Linked'
      <3> SUFFICES ASSUME NEW k \in 1 .. n + 1
                   PROVE  receipts'[k].prev = IF k = 1 THEN 0 ELSE receipts'[k - 1].name
        BY <1>4 DEF Linked
      <3>1. CASE k = n + 1
        BY <3>1, <1>4, <1>6
      <3>2. CASE k # n + 1
        <4>1. k \in 1 .. n /\ (k # 1 => k - 1 \in 1 .. n)
          BY <3>2, <1>4
        <4>2. receipts[k].prev = IF k = 1 THEN 0 ELSE receipts[k - 1].name
          BY <4>1, <1>4 DEF OneChain, Linked
        <4> QED BY <4>1, <4>2, <1>4
      <3> QED BY <3>1, <3>2
    <2>2. ASSUME NEW j \in DOMAIN receipts', NEW k \in DOMAIN receipts',
                 receipts'[j].name = receipts'[k].name
          PROVE  j = k
      BY <2>2, <1>4, <1>10, <1>11
    <2> QED BY <2>1, <2>2 DEF OneChain
  <1>14. ReadersAgree'
    <2> SUFFICES ASSUME NEW q \in Process
                 PROVE  /\ Len(chain[q]) <= n + 1
                        /\ \A k \in DOMAIN chain[q] : receipts'[k].name = chain[q][k]
      BY <1>3, <1>4 DEF ReadersAgree
    <2>1. Len(chain[q]) \in Nat /\ DOMAIN chain[q] = 1 .. Len(chain[q])
      BY DEF TypeOK
    <2>2. Len(chain[q]) <= n /\ \A k \in DOMAIN chain[q] : receipts[k].name = chain[q][k]
      BY DEF ReadersAgree, n
    <2> QED BY <2>1, <2>2, <1>4
  <1>15. AnswerIsKept'
    <2>1. head'.count = n + 1
      BY <1>1, <1>3
    <2> SUFFICES ASSUME NEW m \in acked
                 PROVE  \E k \in DOMAIN receipts' : receipts'[k].name = m /\ receipts'[k].sealed /\ k <= n + 1
      BY <1>3, <2>1 DEF AnswerIsKept
    <2>2. PICK k \in DOMAIN receipts : receipts[k].name = m /\ receipts[k].sealed
      BY DEF AnswerIsKept
    <2> QED BY <2>2, <1>4
  <1>16. HeadLeads'
    BY <1>1, <1>3, <1>4 DEF HeadLeads
  <1> QED BY <1>9, <1>12, <1>13, <1>14, <1>15, <1>16

\* Sealing makes the ledger intact again.
LEMMA SealStep == ASSUME Inductive, TypeOK', NEW p \in Process, Seal(p) PROVE Inductive'
  <1> USE DEF Inductive
  <1> DEFINE n == Len(receipts)
  <1>1. /\ pc[p] \in Inside /\ ~marker /\ staged = {} /\ temps = {} /\ receipts # <<>>
        /\ mine[p] = receipts[n].name /\ head = [count |-> n, tail |-> mine[p]]
        /\ \A k \in 1 .. n - 1 : receipts[k].sealed
    BY DEF Seal, At, Inside, AsLeft
  <1>2. lock /\ \A q \in Process \ {p} : pc[q] = "idle" /\ mine[q] = 0
    BY <1>1, Alone
  <1>3. /\ \A q \in Process \ {p} : pc'[q] = pc[q] /\ mine'[q] = mine[q]
        /\ pc'[p] = "sealed"
        /\ UNCHANGED <<lock, staged, temps, head, marker, mine, chain, minted, acked>>
    BY DEF Seal, Goto, TypeOK
  <1>4. /\ Len(receipts') = n /\ DOMAIN receipts' = DOMAIN receipts
        /\ \A k \in DOMAIN receipts : /\ receipts'[k].name = receipts[k].name
                                      /\ receipts'[k].prev = receipts[k].prev
                                      /\ receipts[k].sealed => receipts'[k].sealed
                                      /\ receipts[k].name = mine[p] => receipts'[k].sealed
    <2>1. mine[p] \in Nat /\ receipts \in Seq(Receipt)
      BY DEF TypeOK
    <2> QED BY <2>1, SealKeeps DEF Seal
  <1>5. n \in Nat \ {0} /\ DOMAIN receipts = 1 .. n
    BY <1>1 DEF TypeOK
  <1>6. Names' = Names
    BY <1>4 DEF Names
  <1>7. TailName(Names) = mine[p]
    BY <1>1, <1>5, NamesAreASequence DEF TypeOK
  <1> HIDE DEF n
  <1>8. Linked'
    <2> SUFFICES ASSUME NEW k \in 1 .. n
                 PROVE  receipts'[k].prev = IF k = 1 THEN 0 ELSE receipts'[k - 1].name
      BY <1>4, <1>5 DEF Linked
    <2>1. k # 1 => k - 1 \in 1 .. n
      BY <1>5
    <2>2. receipts[k].prev = IF k = 1 THEN 0 ELSE receipts[k - 1].name
      BY <1>5 DEF OneChain, Linked
    <2> QED BY <2>1, <2>2, <1>4, <1>5
  <1>9. Intact'
    <2>1. \A k \in 1 .. n : receipts'[k].sealed
      <3> SUFFICES ASSUME NEW k \in 1 .. n PROVE receipts'[k].sealed
        OBVIOUS
      <3>1. CASE k = n
        BY <3>1, <1>1, <1>4, <1>5
      <3>2. CASE k # n
        BY <3>2, <1>1, <1>4, <1>5
      <3> QED BY <3>1, <3>2
    <2>2. HeadFits'
      <3>1. head'.count # 0
        BY <1>1, <1>3, <1>5
      <3>2. head' # NoHead
        BY <3>1 DEF NoHead
      <3>3. TailName(Names)' = mine[p]
        BY <1>6, <1>7 DEF TailName
      <3> QED BY <3>2, <3>3, <1>1, <1>3, <1>4 DEF HeadFits
    <2> QED BY <2>1, <2>2, <1>1, <1>3, <1>4, <1>5, <1>8 DEF Intact
  <1>10. AsLeft(p)'
    <2>1. \E k \in DOMAIN receipts' : receipts'[k].name = mine'[p]
      BY <1>1, <1>3, <1>4, <1>5
    <2> QED BY <2>1, <1>3, <1>9 DEF AsLeft, At
  <1>11. Exclusive' /\ \A q \in Process : AsLeft(q)'
    BY <1>2, <1>3, <1>10, OthersIdle
  <1>12. Accounted'
    BY <1>3, <1>4, <1>6 DEF Accounted, TailName
  <1>13. OneChain'
    BY <1>4, <1>8 DEF OneChain
  <1>14. ReadersAgree'
    <2> SUFFICES ASSUME NEW q \in Process
                 PROVE  Len(chain[q]) <= n
                        /\ \A k \in DOMAIN chain[q] : receipts'[k].name = chain[q][k]
      BY <1>3, <1>4 DEF ReadersAgree
    <2>1. Len(chain[q]) \in Nat /\ DOMAIN chain[q] = 1 .. Len(chain[q])
      BY DEF TypeOK
    <2>2. Len(chain[q]) <= n /\ \A k \in DOMAIN chain[q] : receipts[k].name = chain[q][k]
      BY DEF ReadersAgree, n
    <2> QED BY <2>1, <2>2, <1>4, <1>5
  <1>15. AnswerIsKept' /\ HeadLeads'
    <2>1. AnswerIsKept'
      BY <1>3, <1>4 DEF AnswerIsKept
    <2>2. HeadLeads'
      BY <1>1, <1>3, <1>4 DEF HeadLeads, n
    <2> QED BY <2>1, <2>2
  <1> QED BY <1>11, <1>12, <1>13, <1>14, <1>15

\* An append is answered when its receipt is sealed and counted.
LEMMA PointStep ==
  ASSUME Inductive, TypeOK', NEW p \in Process, Point(p) \/ PointFails(p) PROVE Inductive'
  <1> USE DEF Inductive
  <1>1. /\ pc[p] \in Inside /\ Intact
        /\ task[p] = "append" => \E k \in DOMAIN receipts : receipts[k].name = mine[p]
    BY DEF Point, Points, PointFails, At, Inside, AsLeft
  <1>2. lock /\ \A q \in Process \ {p} : pc[q] = "idle" /\ mine[q] = 0
    BY <1>1, Alone
  <1>3. /\ \A q \in Process \ {p} : pc'[q] = pc[q] /\ mine'[q] = mine[q]
        /\ pc'[p] = "release"
        /\ UNCHANGED <<lock, receipts, head, staged, mine, chain, minted>>
        /\ acked' = acked \/ (task[p] = "append" /\ acked' = acked \cup {mine[p]})
    BY DEF Point, Points, PointFails, Answers, Goto, TypeOK, files
  <1>4. AsLeft(p)'
    BY <1>3 DEF AsLeft, At
  <1>5. Exclusive' /\ \A q \in Process : AsLeft(q)'
    BY <1>2, <1>3, <1>4, OthersIdle
  <1>6. minted' \in Nat /\ minted <= minted'
    BY <1>3 DEF TypeOK
  <1>7. Accounted' /\ OneChain' /\ ReadersAgree' /\ HeadLeads'
    BY <1>3, <1>6, Undisturbed
  <1>8. AnswerIsKept'
    <2>1. head.count = Len(receipts) /\ \A k \in DOMAIN receipts : receipts[k].sealed
      BY <1>1, IntactCount DEF TypeOK
    <2>2. \A k \in DOMAIN receipts : k <= Len(receipts)
      BY NamesAreASequence DEF TypeOK
    <2> QED BY <1>1, <1>3, <2>1, <2>2 DEF AnswerIsKept
  <1> QED BY <1>5, <1>7, <1>8

\* The guard may fall at any moment but between the two renames.
LEMMA CloseStep == ASSUME Inductive, TypeOK', NEW p \in Process, Close(p) PROVE Inductive'
  <1> USE DEF Inductive
  <1>1. pc[p] \in Inside /\ pc[p] # "headed"
    BY DEF Close, At
  <1>2. lock /\ \A q \in Process \ {p} : pc[q] = "idle" /\ mine[q] = 0
    BY <1>1, Alone
  <1>3. UNCHANGED <<files, pc, task, chain, mine, guarded, minted, acked>>
    BY DEF Close
  <1>4. AsLeft(p)'
    BY <1>1, <1>3 DEF AsLeft, At, Settled, Fresh, Intact, Linked, HeadFits, Names, files
  <1>5. Exclusive' /\ \A q \in Process : AsLeft(q)'
    BY <1>2, <1>3, <1>4, OthersIdle DEF files
  <1>6. minted' \in Nat /\ minted <= minted'
    BY <1>3 DEF TypeOK
  <1>7. Accounted' /\ OneChain' /\ ReadersAgree' /\ HeadLeads' /\ AnswerIsKept'
    BY <1>3, <1>6, Undisturbed DEF files
  <1> QED BY <1>5, <1>7

\* A crash forgets what the process knew and leaves the files.
LEMMA CrashStep == ASSUME Inductive, TypeOK', NEW p \in Process, Crash(p) PROVE Inductive'
  <1> USE DEF Inductive
  <1>1. /\ UNCHANGED <<files, minted, acked>>
        /\ \A q \in Process \ {p} : pc'[q] = pc[q] /\ mine'[q] = mine[q]
        /\ pc'[p] = "idle" /\ mine'[p] = 0
        /\ \A q \in Process : chain'[q] \in {chain[q], <<>>}
    BY DEF Crash, Return, Goto, TypeOK
  <1>2. Exclusive'
    <2>1. \A q \in Process : pc'[q] \in Inside => q # p /\ pc[q] \in Inside
      BY <1>1 DEF Inside
    <2> QED BY <2>1, <1>1 DEF Exclusive, files
  <1>3. ASSUME NEW q \in Process PROVE AsLeft(q)'
    <2>1. CASE q = p
      BY <2>1, <1>1 DEF AsLeft, At
    <2>2. CASE q # p
      <3>1. UNCHANGED <<task[q], chain[q], guarded[q], live[q], pc[q], mine[q], files, minted>>
        BY <2>2, <1>1 DEF Crash, Return, TypeOK
      <3> QED BY <3>1 DEF AsLeft, At, Settled, Fresh, Intact, Linked, HeadFits, Names, files
    <2> QED BY <2>1, <2>2
  <1>4. minted' \in Nat /\ minted <= minted'
    BY <1>1 DEF TypeOK
  <1>5. Accounted' /\ OneChain' /\ ReadersAgree' /\ HeadLeads' /\ AnswerIsKept'
    BY <1>1, <1>4, Undisturbed DEF files
  <1> QED BY <1>2, <1>3, <1>5

-----------------------------------------------------------------------------
\* Every step keeps the invariant.
LEMMA InvariantStep == Inductive /\ [Next]_vars => Inductive'
  <1> SUFFICES ASSUME Inductive, [Next]_vars PROVE Inductive'
    OBVIOUS
  <1>1. TypeOK'
    BY TypeStep DEF Inductive
  <1>2. CASE UNCHANGED vars
    <2>0. \A p \in Process : AsLeft(p)'
      BY <1>2 DEF vars, files, memory, Inductive, AsLeft, At, Settled, Fresh, Intact, Linked,
         HeadFits, Names, TailName
    <2>1. Exclusive' /\ Accounted' /\ OneChain' /\ ReadersAgree'
      BY <1>2 DEF vars, files, memory, Inductive, Exclusive, Accounted, OneChain, ReadersAgree,
         Intact, Linked, HeadFits, Names, TailName
    <2>2. AnswerIsKept' /\ HeadLeads'
      BY <1>2 DEF vars, files, memory, Inductive, AnswerIsKept, HeadLeads, Names, Intact, Linked, HeadFits,
         TailName
    <2> QED BY <1>1, <2>0, <2>1, <2>2 DEF Inductive
  <1>3. ASSUME NEW p \in Process, Call(p) \/ Work(p) \/ Close(p) \/ Trouble(p) PROVE Inductive'
    <2>1. CASE Onward(p)
      BY <2>1, <1>1, OnwardStep
    <2>2. CASE Call(p)
      BY <2>2, <1>1, CallStep
    <2>3. CASE Read(p)
      BY <2>3, <1>1, ReadStep
    <2>4. CASE Stage(p)
      BY <2>4, <1>1, StageStep
    <2>5. CASE WriteHead(p)
      BY <2>5, <1>1, WriteHeadStep
    <2>6. CASE RenameHead(p)
      BY <2>6, <1>1, RenameHeadStep
    <2>7. CASE Cancel(p) \/ CancelFails(p)
      BY <2>7, <1>1, CancelStep
    <2>8. CASE \E f \in BOOLEAN : RenameReceipt(p, f)
      BY <2>8, <1>1, RenameReceiptStep
    <2>9. CASE Seal(p)
      BY <2>9, <1>1, SealStep
    <2>10. CASE Point(p) \/ PointFails(p)
      BY <2>10, <1>1, PointStep
    <2>11. CASE Close(p)
      BY <2>11, <1>1, CloseStep
    <2>12. CASE Crash(p)
      BY <2>12, <1>1, CrashStep
    <2> QED
      BY <1>3, <2>1, <2>2, <2>3, <2>4, <2>5, <2>6, <2>7, <2>8, <2>9, <2>10, <2>11, <2>12
      DEF Work, Trouble, Onward
  <1> QED BY <1>2, <1>3 DEF Next

\* The lock excludes and what a call finds under it is as it was left: the
\* invariant of every run of the ledger, for any number of processes.
THEOREM LedgerInvariant == Spec => []Inductive
  <1>1. Init => Inductive
    <2> SUFFICES ASSUME Init PROVE Inductive
      OBVIOUS
    <2>1. TypeOK
      BY InitTypes
    <2>2. Exclusive /\ \A p \in Process : AsLeft(p)
      BY DEF Init, Exclusive, AsLeft, At, Inside
    <2>3. receipts = <<>> /\ DOMAIN receipts = {} /\ Len(receipts) = 0 /\ acked = {} /\ head.count = 0 /\ head.tail = 0
      BY DEF Init, NoHead
    <2>4. TailName(Names) = 0
      BY <2>1, <2>3, NamesAreASequence DEF TypeOK
    <2>5. Accounted /\ OneChain /\ AnswerIsKept /\ HeadLeads
      BY <2>3, <2>4 DEF Accounted, OneChain, Linked, AnswerIsKept, HeadLeads
    <2>6. ReadersAgree
      <3>1. \A q \in Process : Len(chain[q]) = 0 /\ DOMAIN chain[q] = {}
        BY DEF Init
      <3> QED BY <3>1, <2>3 DEF ReadersAgree
    <2> QED BY <2>1, <2>2, <2>5, <2>6 DEF Inductive
  <1> QED BY <1>1, InvariantStep, PTL DEF Spec

\* No two appends follow the same receipt, and what a reader was told stays
\* the beginning of the chain.
THEOREM ChainIsOne == Spec => [](OneChain /\ ReadersAgree)
  <1>1. Inductive => OneChain /\ ReadersAgree
    BY DEF Inductive
  <1> QED BY <1>1, LedgerInvariant, PTL

\* An answered append stays, sealed and counted; an interrupted one leaves its
\* evidence under .pending.
THEOREM AnswersStand == Spec => [](AnswerIsKept /\ HeadLeads)
  <1>1. Inductive => AnswerIsKept /\ HeadLeads
    BY DEF Inductive
  <1> QED BY <1>1, LedgerInvariant, PTL

-----------------------------------------------------------------------------
(***************************************************************************)
(* Steps seen from outside: only RenameReceipt adds a directory.           *)
(***************************************************************************)
Quiet(p) ==
  \/ Onward(p) \/ Call(p) \/ Read(p) \/ Stage(p) \/ WriteHead(p) \/ RenameHead(p) \/ Cancel(p)
  \/ CancelFails(p) \/ Seal(p) \/ Point(p) \/ PointFails(p) \/ Close(p) \/ Crash(p)

\* Every step is quiet or renames a receipt.
LEMMA QuietOrRename ==
  ASSUME Next PROVE \E p \in Process : Quiet(p) \/ \E f \in BOOLEAN : RenameReceipt(p, f)
  BY DEF Next, Work, Trouble, Quiet, Onward

\* A quiet step adds, removes and renames no directory.
LEMMA QuietKeepsNames ==
  ASSUME TypeOK, NEW p \in Process, Quiet(p)
  PROVE  Names' = Names /\ Len(receipts') = Len(receipts)
  <1>1. CASE Seal(p)
    <2>1. mine[p] \in Nat /\ receipts \in Seq(Receipt)
      BY DEF TypeOK
    <2> QED BY <1>1, <2>1, SealKeeps DEF Seal, Names
  <1>2. CASE Onward(p)
    BY <1>2 DEF Onward, Refuse, MarkBroken, Release, ReadFails, PendingFails, StageFails,
       WriteFails, SealedFails, MarkFails, ReleaseFails, Fails, files, Names
  <1>3. CASE Call(p) \/ Read(p) \/ Stage(p) \/ WriteHead(p) \/ RenameHead(p)
    BY <1>3 DEF Call, Take, Claim, Read, Stage, WriteHead, RenameHead, RenamesHead, Names
  <1>4. CASE Cancel(p) \/ CancelFails(p) \/ Point(p) \/ PointFails(p) \/ Close(p) \/ Crash(p)
    BY <1>4 DEF Cancel, CancelFails, Point, Points, PointFails, Close, Crash, files, Names
  <1> QED BY <1>1, <1>2, <1>3, <1>4 DEF Quiet

\* What RenameReceipt finds and leaves
LEMMA RenameGrows ==
  ASSUME Inductive, NEW p \in Process, NEW f \in BOOLEAN, RenameReceipt(p, f)
  PROVE  /\ pc[p] = "headed" /\ (guarded[p] => live[p]) /\ mine[p] \in Nat \ {0}
         /\ \A q \in Process \ {p} : mine[q] = 0
         /\ Len(receipts) \in Nat /\ Len(receipts') = Len(receipts) + 1
         /\ receipts'[Len(receipts) + 1].name = mine[p]
         /\ \A k \in 1 .. Len(receipts) : receipts'[k] = receipts[k] /\ receipts[k].name < mine[p]
         /\ DOMAIN receipts = 1 .. Len(receipts) /\ DOMAIN receipts' = 1 .. Len(receipts) + 1
  <1> USE DEF Inductive
  <1>1. pc[p] = "headed" /\ (guarded[p] => live[p]) /\ Fresh(p) /\ pc[p] \in Inside
    BY DEF RenameReceipt, At, Inside, AsLeft
  <1>2. \A q \in Process \ {p} : mine[q] = 0
    BY <1>1, Alone
  <1>3. receipts' = Append(receipts, [name |-> mine[p], prev |-> TailName(chain[p]),
                                      fails |-> f, sealed |-> FALSE])
    BY DEF RenameReceipt
  <1>4. /\ Len(receipts) \in Nat /\ Len(receipts') = Len(receipts) + 1
        /\ receipts'[Len(receipts) + 1].name = mine[p]
        /\ \A k \in 1 .. Len(receipts) : receipts'[k] = receipts[k]
        /\ DOMAIN receipts = 1 .. Len(receipts) /\ DOMAIN receipts' = 1 .. Len(receipts) + 1
    BY <1>3 DEF TypeOK
  <1>5. mine[p] \in Nat \ {0} /\ \A k \in DOMAIN receipts : receipts[k].name < mine[p]
    BY <1>1 DEF Fresh, TypeOK
  <1> QED BY <1>1, <1>2, <1>4, <1>5

\* A guarded receipt appears only while its guard holds.
THEOREM GuardedCommit == Spec => CancelOrCommit
  <1> DEFINE A == \A p \in Process :
                    guarded[p] /\ Len(receipts') > Len(receipts)
                      /\ mine[p] = receipts'[Len(receipts')].name => live[p]
  <1>1. Inductive /\ [Next]_vars => A
    <2> SUFFICES ASSUME Inductive, [Next]_vars, NEW q \in Process, guarded[q],
                        Len(receipts') > Len(receipts), mine[q] = receipts'[Len(receipts')].name
                 PROVE  live[q]
      OBVIOUS
    <2>1. Len(receipts) \in Nat
      BY DEF Inductive, TypeOK
    <2>2. Next
      BY <2>1 DEF vars, files
    <2>3. PICK p \in Process : Quiet(p) \/ \E f \in BOOLEAN : RenameReceipt(p, f)
      BY <2>2, QuietOrRename
    <2>4. PICK f \in BOOLEAN : RenameReceipt(p, f)
      BY <2>1, <2>3, QuietKeepsNames DEF Inductive
    <2>5. mine[q] = mine[p] /\ mine[p] # 0
      BY <2>4, RenameGrows
    <2>6. q = p
      BY <2>4, <2>5, RenameGrows
    <2> QED BY <2>4, <2>6, RenameGrows
  <1>2. Inductive /\ [Next]_vars => [A]_vars
    BY <1>1
  <1>3. Spec => [][A]_vars
    BY <1>2, LedgerInvariant, PTL DEF Spec
  <1> QED BY <1>3 DEF CancelOrCommit

\* A lock whose owner died stops the ledger, and keeps it as it was found.
THEOREM OrphanStays == Spec => OrphanIsFrozen
  <1>1. ASSUME TypeOK, [Next]_vars, Orphaned PROVE Orphaned' /\ UNCHANGED files
    <2>1. CASE UNCHANGED vars
      BY <2>1, <1>1 DEF vars, memory, files, Orphaned
    <2>2. ASSUME NEW p \in Process, Call(p) \/ Work(p) \/ Close(p) \/ Trouble(p)
          PROVE  Crash(p)
      <3>1. lock /\ pc[p] \notin Inside
        BY <1>1 DEF Orphaned
      <3> QED
        BY <2>2, <3>1
        DEF Inside, At, Call, Take, Work, Read, Refuse, Stage, WriteHead, RenameHead, RenamesHead,
            Cancel, RenameReceipt, Seal, Point, Points, MarkBroken, Release, Close, Trouble,
            ReadFails, PendingFails, StageFails, WriteFails, SealedFails, MarkFails, PointFails,
            CancelFails, ReleaseFails, Fails
    <2>3. ASSUME NEW p \in Process, Crash(p) PROVE Orphaned' /\ UNCHANGED files
      <3>1. UNCHANGED files /\ pc' = [pc EXCEPT ![p] = "idle"]
        BY <2>3 DEF Crash, Return, Goto
      <3>2. \A q \in Process : pc'[q] \notin Inside
        BY <3>1, <1>1 DEF Orphaned, Inside, TypeOK
      <3> QED BY <3>1, <3>2, <1>1 DEF Orphaned, files
    <2> QED BY <1>1, <2>1, <2>2, <2>3 DEF Next
  <1>2. TypeOK /\ [Next]_vars => [Orphaned => Orphaned' /\ UNCHANGED files]_vars
    BY <1>1
  <1> QED BY <1>2, TypeCorrect, PTL DEF Spec, OrphanIsFrozen

-----------------------------------------------------------------------------
(***************************************************************************)
(* The refinement.  Custody stays open as long as a step can still end     *)
(* well: while an append is between its staging and its seal, or the files *)
(* are intact and the lock, if taken, has a living owner.                  *)
(***************************************************************************)
LEMMA WorkerOpen ==
  ASSUME Inductive, NEW p \in Process,
         pc[p] \in {"stage", "staged", "ready", "headed", "named", "sealed"}
  PROVE  Open
  <1>1. pc[p] \in {"stage", "sealed"} => Intact /\ pc[p] \in Inside
    BY DEF Inductive, AsLeft, At, Inside
  <1> QED BY <1>1 DEF Open

\* Nothing that breaks custody is undone.
LEMMA IntactBefore ==
  ASSUME UNCHANGED <<receipts, head, staged, temps, pendingDir>>, marker => marker', Intact'
  PROVE  Intact
  BY DEF Intact, Linked, HeadFits, Names, TailName

\* A quiet step never reopens the ledger.
LEMMA QuietOpens ==
  ASSUME Inductive, Inductive', NEW p \in Process, Quiet(p), Open'
  PROVE  Open
  <1> USE DEF Inductive
  <1>1. CASE pc[p] \in {"stage", "staged", "ready", "headed", "named", "sealed"}
    BY <1>1, WorkerOpen
  <1>2. ASSUME Call(p) PROVE Open
    <2>1. ~lock /\ pc' = [pc EXCEPT ![p] = "read"]
          /\ UNCHANGED <<receipts, head, staged, temps, pendingDir, marker>>
      BY <1>2 DEF Call, Take, Claim, Goto
    <2>2. \A q \in Process : pc'[q] \notin {"staged", "ready", "headed", "named"}
      BY <2>1 DEF Exclusive, Inside, TypeOK
    <2>3. Intact
      BY <2>1, <2>2, IntactBefore DEF Open
    <2> QED BY <2>1, <2>3 DEF Open
  <1>3. ASSUME Close(p) PROVE Open
    BY <1>3 DEF Close, Open, Intact, Linked, HeadFits, Names, TailName, files
  <1>4. ASSUME Crash(p) PROVE Open
    <2>1. UNCHANGED files /\ pc' = [pc EXCEPT ![p] = "idle"]
      BY <1>4 DEF Crash, Return, Goto
    <2>2. \A q \in Process : pc'[q] \in Inside => pc'[q] = pc[q]
      BY <2>1 DEF Inside, TypeOK
    <2>3. CASE \E q \in Process : pc'[q] \in {"staged", "ready", "headed", "named"}
      BY <2>2, <2>3 DEF Open, Inside
    <2>4. CASE Intact' /\ (lock' => \E q \in Process : pc'[q] \in Inside)
      <3>1. Intact /\ lock' = lock
        BY <2>1, <2>4, IntactBefore DEF files
      <3> QED BY <3>1, <2>2, <2>4 DEF Open
    <2> QED BY <2>3, <2>4 DEF Open
  <1>5. ASSUME pc[p] \in {"read", "failing", "release"}, Onward(p) \/ Read(p) PROVE Open
    <2>1. pc[p] \in Inside
      BY <1>5 DEF Inside
    <2>2. lock /\ \A q \in Process \ {p} : pc[q] = "idle"
      BY <2>1, Alone
    <2>3. /\ UNCHANGED <<receipts, head, staged, temps, pendingDir>> /\ (marker => marker')
          /\ \E s \in {"idle", "stage", "sealed", "release", "failing"} : pc' = [pc EXCEPT ![p] = s]
      <3>1. CASE Read(p)
        BY <3>1 DEF Read, Goto
      <3>2. CASE MarkBroken(p) \/ Release(p) \/ ReleaseFails(p)
        BY <3>2 DEF MarkBroken, Release, ReleaseFails, Return, Goto, files
      <3>3. CASE ReadFails(p) \/ MarkFails(p)
        BY <3>3 DEF ReadFails, MarkFails, Fails, Goto, files, Inductive, TypeOK
      <3>4. CASE Refuse(p) \/ PendingFails(p) \/ StageFails(p) \/ WriteFails(p) \/ SealedFails(p)
        BY <3>4, <1>5 DEF Refuse, PendingFails, StageFails, WriteFails, SealedFails, Fails, At
      <3> QED BY <1>5, <3>1, <3>2, <3>3, <3>4 DEF Onward
    <2>4. \A q \in Process : pc'[q] \notin {"staged", "ready", "headed", "named"}
      BY <2>2, <2>3 DEF TypeOK
    <2>5. Intact
      BY <2>3, <2>4, IntactBefore DEF Open
    <2> QED BY <2>1, <2>5 DEF Open
  <1> QED
    BY <1>1, <1>2, <1>3, <1>4, <1>5
    DEF Quiet, Stage, WriteHead, RenameHead, RenamesHead, Cancel, CancelFails, Seal, Point, Points,
        PointFails, Onward, Refuse, MarkBroken, Release, ReadFails, PendingFails, StageFails,
        WriteFails, SealedFails, MarkFails, ReleaseFails, Fails, Read, At

\* The ledger is a list that grows by one, until it is closed for good.
THEOREM ImplementsChain == Spec => ChainContract
  <1>1. Init => Contract!Init
    <2> SUFFICES ASSUME Init PROVE Names = <<>> /\ Open = TRUE
      BY DEF Contract!Init
    <2>1. receipts = <<>> /\ head = NoHead /\ ~pendingDir /\ ~marker /\ staged = {} /\ temps = {} /\ ~lock
      BY DEF Init
    <2>2. Names = <<>>
      BY <2>1 DEF Names
    <2>3. Intact
      BY <2>1 DEF Intact, Linked, HeadFits
    <2> QED BY <2>1, <2>2, <2>3 DEF Open
  <1>2. Inductive /\ Inductive' /\ [Next]_vars => [Contract!Next]_<<Names, Open>>
    <2> SUFFICES ASSUME Inductive, Inductive', [Next]_vars
                 PROVE  [Contract!Next]_<<Names, Open>>
      OBVIOUS
    <2>1. CASE UNCHANGED vars
      BY <2>1 DEF vars, files, memory, Names, Open, Intact, Linked, HeadFits, TailName
    <2>2. ASSUME NEW p \in Process, Quiet(p) PROVE [Contract!Next]_<<Names, Open>>
      <3>1. Names' = Names
        BY <2>2, QuietKeepsNames DEF Inductive
      <3>2. Open' => Open
        BY <2>2, QuietOpens
      <3>3. CASE Open /\ ~Open'
        BY <3>1, <3>3 DEF Contract!Next, Contract!Break
      <3>4. CASE Open' = Open
        BY <3>1, <3>4
      <3> QED BY <3>2, <3>3, <3>4 DEF Open
    <2>3. ASSUME NEW p \in Process, NEW f \in BOOLEAN, RenameReceipt(p, f)
          PROVE  Contract!Next
      <3>1. Open
        BY <2>3, WorkerOpen DEF RenameReceipt, At
      <3>2. Open'
        <4>1. pc'[p] = "named"
          BY <2>3 DEF RenameReceipt, Goto, Inductive, TypeOK
        <4> QED BY <4>1 DEF Open
      <3>3. /\ Len(Names) = Len(receipts) /\ DOMAIN Names = 1 .. Len(receipts)
            /\ \A k \in 1 .. Len(receipts) : Names[k] = receipts[k].name
        BY NamesAreASequence DEF Inductive, TypeOK
      <3>4. /\ Len(Names') = Len(receipts') /\ \A k \in 1 .. Len(receipts') : Names'[k] = receipts'[k].name
        <4>1. receipts' \in Seq(Receipt)
          BY DEF Inductive, TypeOK
        <4>2. /\ Names' \in Seq(Nat) /\ Len(Names') = Len(receipts')
              /\ \A k \in 1 .. Len(receipts') : Names'[k] = receipts'[k].name
          <5>1. \A k \in 1 .. Len(receipts') : receipts'[k].name \in Nat
            <6>1. \A k \in 1 .. Len(receipts') : receipts'[k] \in Receipt
              BY <4>1
            <6> QED BY <6>1 DEF Receipt
          <5>2. Names' = [k \in 1 .. Len(receipts') |-> receipts'[k].name] /\ Len(receipts') \in Nat
            BY <4>1 DEF Names
          <5> QED BY <5>1, <5>2
        <4> QED BY <4>2
      <3>5. /\ Len(receipts) \in Nat /\ Len(receipts') = Len(receipts) + 1
            /\ receipts'[Len(receipts) + 1].name = mine[p] /\ mine[p] \in Nat
            /\ \A k \in 1 .. Len(receipts) : receipts'[k] = receipts[k] /\ receipts[k].name < mine[p]
        BY <2>3, RenameGrows
      <3>6. Len(Names') = Len(Names) + 1 /\ Names'[Len(Names')] = mine[p]
        BY <3>3, <3>4, <3>5
      <3>7. ASSUME NEW k \in DOMAIN Names
            PROVE  Names'[k] = Names[k] /\ Names[k] # Names'[Len(Names')]
        BY <3>3, <3>4, <3>5, <3>6
      <3> QED BY <3>1, <3>2, <3>6, <3>7 DEF Contract!Next, Contract!Extend
    <2> QED BY <2>1, <2>2, <2>3, QuietOrRename
  <1> QED BY <1>1, <1>2, LedgerInvariant, PTL DEF Spec, ChainContract, Contract!Spec
=============================================================================
