----------------------------- MODULE ReceiptLedger -----------------------------
(***************************************************************************)
(* The receipt ledger on disk (review/receipt-store.js): append lock,      *)
(* staging directory, head, sealed receipt directories, broken marker and  *)
(* the pointer to the latest failure.                                      *)
(*                                                                         *)
(* Several bootstrap processes share review-receipts/.  What one does      *)
(* under the append lock is split wherever an error or a crash leaves      *)
(* something else behind.  A process that dies is replaced by a new one    *)
(* under the same name.  A receipt is its name (id and hash), its          *)
(* predecessor's, whether it records a failure and whether it is sealed;   *)
(* the names of the directories sort by createdAt, which only grows, so    *)
(* the directories are a sequence.                                         *)
(***************************************************************************)
EXTENDS Naturals, Sequences

CONSTANTS Process,
          MaxAppends,   \* bound: receipts staged
          MaxFaults     \* bound: crashes and I/O errors

ASSUME ConstantsAssumption == MaxAppends \in Nat /\ MaxFaults \in Nat

VARIABLES
  lock,         \* .append-lock exists
  staged,       \* names under .pending
  temps,        \* names of .head-next- files
  pendingDir,   \* .pending exists
  head,         \* .custody-head, NoHead before the first append
  receipts,     \* the receipt directories
  marker,       \* .custody-broken exists
  pointer,      \* latest-failure.json: which receipt, 0 for null
  \* per process
  pc,           \* where its call stands
  task,         \* which call
  chain,        \* the names of the last intact chain it read
  mine,         \* name of the receipt it appends
  guarded,      \* the append runs under withCommitGuard
  live,         \* what the guard would say
  \* bookkeeping
  minted, acked, faults

files  == <<lock, staged, temps, pendingDir, head, receipts, marker, pointer>>
memory == <<pc, task, chain, mine, guarded, live>>
vars   == <<files, memory, minted, acked, faults>>

Task   == {"verify", "append", "point"}
Inside == {"read", "stage", "staged", "ready", "headed", "named", "sealed", "failing",
           "release"}          \* holding the lock
NoHead == [count |-> 0, tail |-> 0]
Receipt == [name : Nat, prev : Nat, fails : BOOLEAN, sealed : BOOLEAN]

TypeOK ==
  /\ lock \in BOOLEAN /\ pendingDir \in BOOLEAN /\ marker \in BOOLEAN
  /\ staged \subseteq Nat /\ temps \subseteq Nat
  /\ head \in [count : Nat, tail : Nat]
  /\ receipts \in Seq(Receipt) /\ pointer \in 0 .. Len(receipts)
  /\ pc \in [Process -> {"idle"} \cup Inside] /\ task \in [Process -> Task]
  /\ chain \in [Process -> Seq(Nat)] /\ mine \in [Process -> Nat]
  /\ guarded \in [Process -> BOOLEAN] /\ live \in [Process -> BOOLEAN]
  /\ minted \in Nat /\ acked \subseteq Nat /\ faults \in 0 .. MaxFaults

(***************************************************************************)
(* What #chain finds.                                                      *)
(***************************************************************************)
Names    == [k \in DOMAIN receipts |-> receipts[k].name]
TailName(s)  == IF s = <<>> THEN 0 ELSE s[Len(s)]
Linked   == \A k \in DOMAIN receipts :
              receipts[k].prev = IF k = 1 THEN 0 ELSE receipts[k - 1].name
HeadFits == IF head = NoHead THEN receipts = <<>> /\ ~pendingDir
            ELSE head = [count |-> Len(receipts), tail |-> TailName(Names)]
Intact   == /\ ~marker /\ staged = {} /\ temps = {}
            /\ \A k \in DOMAIN receipts : receipts[k].sealed
            /\ Linked /\ HeadFits

IsLatestFailure(k) ==           \* findLast
  /\ k # 0 => receipts[k].fails
  /\ \A j \in DOMAIN receipts : j > k => ~receipts[j].fails

Goto(p, s) == pc' = [pc EXCEPT ![p] = s]
At(p, s)   == pc[p] = s
Fault      == faults < MaxFaults /\ faults' = faults + 1

-----------------------------------------------------------------------------
(***************************************************************************)
(* #locked: mkdir is the lock; whoever finds it gives up at once ("busy"). *)
(***************************************************************************)
Claim(p, t, g) ==
  /\ At(p, "idle")
  /\ g => t = "append" /\ receipts # <<>>     \* used for 'eligible' and 'activated' only
  /\ lock' = TRUE
  /\ task' = [task EXCEPT ![p] = t]
  /\ guarded' = [guarded EXCEPT ![p] = g]
  /\ Goto(p, "read")
  /\ UNCHANGED <<staged, temps, pendingDir, head, receipts, marker, pointer, chain, mine,
                 live, minted, acked, faults>>

Orphaned == lock /\ \A p \in Process : pc[p] \notin Inside
TakeAnyway(p, t, g) == Claim(p, t, g)     \* mistake: EEXIST is taken for success
Take(p, t, g) == ~lock /\ Claim(p, t, g)

Return(p) == /\ Goto(p, "idle") /\ mine' = [mine EXCEPT ![p] = 0]
             /\ guarded' = [guarded EXCEPT ![p] = FALSE] /\ live' = [live EXCEPT ![p] = TRUE]

Release(p) ==
  /\ At(p, "release")
  /\ lock' = FALSE
  /\ Return(p)
  /\ UNCHANGED <<staged, temps, pendingDir, head, receipts, marker, pointer, task, chain,
                 minted, acked, faults>>

(***************************************************************************)
(* verifyChain, and the first step of every other call                     *)
(***************************************************************************)
ReadUnverified(p) ==            \* mistake: the answer is not looked at
  /\ At(p, "read") /\ chain' = [chain EXCEPT ![p] = Names]
  /\ Goto(p, IF task[p] = "append" THEN "stage" ELSE "release")
  /\ UNCHANGED <<files, task, mine, guarded, live, minted, acked, faults>>
Read(p) ==
  /\ At(p, "read")
  /\ IF Intact
       THEN /\ chain' = [chain EXCEPT ![p] = Names]
            /\ \/ task[p] = "verify" /\ Goto(p, "release")
               \/ task[p] = "append" /\ Goto(p, "stage")
               \/ task[p] = "point"  /\ Goto(p, "sealed")
            /\ UNCHANGED marker
       ELSE /\ marker' = TRUE
            /\ Goto(p, "release")
            /\ UNCHANGED chain
  /\ UNCHANGED <<lock, staged, temps, pendingDir, head, receipts, pointer, task, mine,
                 guarded, live, minted, acked, faults>>

(***************************************************************************)
(* finalizeEvent                                                           *)
(***************************************************************************)
\* The input, the policy or the history forbids the receipt.
Refuse(p) ==
  /\ At(p, "stage")
  /\ Goto(p, "release")
  /\ UNCHANGED <<files, task, chain, mine, guarded, live, minted, acked, faults>>

Stage(p) ==
  /\ At(p, "stage") /\ minted < MaxAppends
  /\ minted' = minted + 1
  /\ mine' = [mine EXCEPT ![p] = minted + 1]
  /\ pendingDir' = TRUE /\ staged' = staged \cup {minted + 1}
  /\ Goto(p, "staged")
  /\ UNCHANGED <<lock, temps, head, receipts, marker, pointer, task, chain, guarded, live,
                 acked, faults>>

WriteHead(p) ==
  /\ At(p, "staged")
  /\ temps' = temps \cup {mine[p]}
  /\ Goto(p, "ready")
  /\ UNCHANGED <<lock, staged, pendingDir, head, receipts, marker, pointer, task, chain,
                 mine, guarded, live, minted, acked, faults>>

\* The guard is evaluated in the turn that renames the head.
RenamesHead(p) ==
  /\ At(p, "ready")
  /\ temps' = temps \ {mine[p]}
  /\ head' = [count |-> Len(chain[p]) + 1, tail |-> mine[p]]
  /\ Goto(p, "headed")
  /\ UNCHANGED <<lock, staged, pendingDir, receipts, marker, pointer, task, chain, mine,
                 guarded, live, minted, acked, faults>>
RenameHeadUnguarded(p) == RenamesHead(p)     \* mistake: the guard was asked before staging
RenameHead(p) == (guarded[p] => live[p]) /\ RenamesHead(p)

RenameReceipt(p, f) ==
  /\ At(p, "headed")
  /\ staged' = staged \ {mine[p]}
  /\ receipts' = Append(receipts, [name |-> mine[p], prev |-> TailName(chain[p]),
                                   fails |-> f, sealed |-> FALSE])
  /\ Goto(p, "named")
  /\ UNCHANGED <<lock, temps, pendingDir, head, marker, pointer, task, chain, mine,
                 guarded, live, minted, acked, faults>>

\* The guard fails: the preparation is removed again.
Cancel(p) ==
  /\ At(p, "ready") /\ guarded[p] /\ ~live[p]
  /\ staged' = staged \ {mine[p]} /\ temps' = temps \ {mine[p]}
  /\ Goto(p, "release")
  /\ UNCHANGED <<lock, pendingDir, head, receipts, marker, pointer, task, chain, mine,
                 guarded, live, minted, acked, faults>>

SealLater(p) ==                 \* mistake: the modes are left for the next reader
  /\ At(p, "named") /\ Goto(p, "sealed")
  /\ UNCHANGED <<files, task, chain, mine, guarded, live, minted, acked, faults>>

\* sealHeldReceipt, on the inodes held since before the rename
Seal(p) ==
  /\ At(p, "named")
  /\ receipts' = [k \in DOMAIN receipts |-> IF receipts[k].name = mine[p]
                    THEN [receipts[k] EXCEPT !.sealed = TRUE] ELSE receipts[k]]
  /\ Goto(p, "sealed")
  /\ UNCHANGED <<lock, staged, temps, pendingDir, head, marker, pointer, task, chain, mine,
                 guarded, live, minted, acked, faults>>

\* The answer is the receipt, or a SanitizationError although the fixed
\* failure was appended.
Answers(p) ==
  \/ task[p] = "append" /\ acked' = acked \cup {mine[p]}
  \/ UNCHANGED acked

\* #pointer, last
Points(p, k) ==
  /\ At(p, "sealed")
  /\ pointer' = k
  /\ Goto(p, "release")
  /\ Answers(p)
  /\ UNCHANGED <<lock, staged, temps, pendingDir, head, receipts, marker, task, chain, mine,
                 guarded, live, minted, faults>>
Point(p) == \E k \in {0} \cup DOMAIN receipts : IsLatestFailure(k) /\ Points(p, k)

(***************************************************************************)
(* What can go wrong.  The lock is a directory: a dead owner leaves it.    *)
(***************************************************************************)
\* catch: mark the ledger broken, throw on
MarkBroken(p) ==
  /\ At(p, "failing")
  /\ marker' = TRUE
  /\ Goto(p, "release")
  /\ UNCHANGED <<lock, staged, temps, pendingDir, head, receipts, pointer, task, chain, mine,
                 guarded, live, minted, acked, faults>>

Fails(p, from, to) ==
  /\ At(p, from) /\ Fault
  /\ Goto(p, to)
  /\ UNCHANGED <<files, task, chain, mine, guarded, live, minted, acked>>

\* A file cannot be read: #chain answers as for any other break.
ReadFails(p) ==
  /\ At(p, "read") /\ Fault
  /\ marker' \in {marker, TRUE}
  /\ Goto(p, "release")
  /\ UNCHANGED <<lock, staged, temps, pendingDir, head, receipts, pointer, task, chain, mine,
                 guarded, live, minted, acked>>

\* .pending is created, the directory in it is not.
PendingFails(p) ==
  /\ At(p, "stage") /\ Fault
  /\ pendingDir' = TRUE
  /\ Goto(p, "release")
  /\ UNCHANGED <<lock, staged, temps, head, receipts, marker, pointer, task, chain, mine,
                 guarded, live, minted, acked>>

\* Before the try block nothing is marked; the staged files stay.
StageFails(p) == Fails(p, "staged", "release")

\* Writing, renaming, rereading or sealing fails; or the marker itself.
WriteFails(p) == \E s \in {"staged", "ready", "headed", "named"} : Fails(p, s, "failing")
SealedFails(p) == task[p] = "append" /\ Fails(p, "sealed", "failing")
MarkFails(p)  == Fails(p, "failing", "release")
PointFails(p) ==                \* swallowed; the receipt is answered all the same
  /\ At(p, "sealed") /\ Fault
  /\ Goto(p, "release")
  /\ Answers(p)
  /\ UNCHANGED <<files, task, chain, mine, guarded, live, minted>>

\* Removing the preparation stops half-way.
CancelFails(p) ==
  /\ At(p, "ready") /\ guarded[p] /\ ~live[p] /\ Fault
  /\ \/ staged' = staged \ {mine[p]} /\ temps' \in {temps, temps \ {mine[p]}}
     \/ UNCHANGED <<staged, temps>>
  /\ Goto(p, "failing")
  /\ UNCHANGED <<lock, pendingDir, head, receipts, marker, pointer, task, chain, mine,
                 guarded, live, minted, acked>>

\* rmdir fails: the lock stays although its owner is through.
ReleaseFails(p) ==
  /\ At(p, "release") /\ Fault
  /\ Return(p)
  /\ UNCHANGED <<files, task, chain, minted, acked>>

\* Both renames of a guarded append are one turn: only a crash separates them.
Close(p) ==
  /\ pc[p] \in Inside /\ guarded[p] /\ live[p] /\ ~At(p, "headed")
  /\ live' = [live EXCEPT ![p] = FALSE]
  /\ UNCHANGED <<files, pc, task, chain, mine, guarded, minted, acked, faults>>

Crash(p) ==
  /\ pc[p] \in Inside \/ chain[p] # <<>>
  /\ Fault
  /\ Return(p) /\ chain' = [chain EXCEPT ![p] = <<>>]
  /\ UNCHANGED <<files, task, minted, acked>>

-----------------------------------------------------------------------------
Init ==
  /\ lock = FALSE /\ staged = {} /\ temps = {} /\ pendingDir = FALSE
  /\ head = NoHead /\ receipts = <<>> /\ marker = FALSE /\ pointer = 0
  /\ pc = [p \in Process |-> "idle"] /\ task = [p \in Process |-> "verify"]
  /\ chain = [p \in Process |-> <<>>] /\ mine = [p \in Process |-> 0]
  /\ guarded = [p \in Process |-> FALSE] /\ live = [p \in Process |-> TRUE]
  /\ minted = 0 /\ acked = {} /\ faults = 0

\* One more step of a call that holds the lock
Work(p) ==
  \/ Read(p) \/ Refuse(p) \/ Stage(p) \/ WriteHead(p) \/ RenameHead(p) \/ Cancel(p)
  \/ \E f \in BOOLEAN : RenameReceipt(p, f)
  \/ Seal(p) \/ Point(p) \/ MarkBroken(p) \/ Release(p)
Call(p) == \E t \in Task, g \in BOOLEAN : Take(p, t, g)
Trouble(p) ==
  \/ ReadFails(p) \/ PendingFails(p) \/ StageFails(p) \/ WriteFails(p) \/ SealedFails(p)
  \/ MarkFails(p) \/ PointFails(p) \/ CancelFails(p) \/ ReleaseFails(p) \/ Crash(p)

Next == \E p \in Process : Call(p) \/ Work(p) \/ Close(p) \/ Trouble(p)
Spec == Init /\ [][Next]_vars

-----------------------------------------------------------------------------
(***************************************************************************)
(* Properties                                                              *)
(***************************************************************************)
\* The lock excludes, and the files a call relies on are as it left them: the
\* staged receipt is newer than the chain, the head names it from one rename to
\* the other, all older receipts are sealed.
Exclusive ==
  \A p, q \in Process : pc[p] \in Inside => lock /\ (pc[q] \in Inside => p = q)
Fresh(p) == /\ mine[p] \in 1 .. minted /\ chain[p] = Names
            /\ \A k \in DOMAIN receipts : receipts[k].name < mine[p]
Settled  == /\ ~marker /\ \A k \in DOMAIN receipts : receipts[k].sealed
AsLeft(p) ==
  /\ At(p, "idle") => mine[p] = 0
  /\ At(p, "stage") => Intact /\ chain[p] = Names
  /\ At(p, "staged") => Settled /\ Fresh(p) /\ staged = {mine[p]} /\ temps = {}
                         /\ head.count = Len(receipts)
  /\ At(p, "ready")  => Settled /\ Fresh(p) /\ staged = {mine[p]} /\ temps = {mine[p]}
                         /\ head.count = Len(receipts)
  /\ At(p, "headed") => Settled /\ Fresh(p) /\ staged = {mine[p]} /\ temps = {}
                         /\ head = [count |-> Len(receipts) + 1, tail |-> mine[p]]
                         /\ (guarded[p] => live[p])
  /\ At(p, "named")  => /\ ~marker /\ staged = {} /\ temps = {} /\ receipts # <<>>
                        /\ mine[p] = receipts[Len(receipts)].name
                        /\ head = [count |-> Len(receipts), tail |-> mine[p]]
                        /\ \A k \in 1 .. Len(receipts) - 1 : receipts[k].sealed
  /\ At(p, "sealed") => Intact /\ (task[p] = "append" =>
                         \E k \in DOMAIN receipts : receipts[k].name = mine[p])
Accounted ==
  /\ \A k \in DOMAIN receipts : receipts[k].name <= minted
  /\ \A j, k \in DOMAIN receipts : j < k => receipts[j].name < receipts[k].name
  /\ head.count = Len(receipts) => head.tail = TailName(Names)

\* The directories are one chain, each receipt linked to the one before: no
\* two processes append after the same predecessor.
OneChain ==
  /\ Linked
  /\ \A j, k \in DOMAIN receipts : receipts[j].name = receipts[k].name => j = k

\* What any living process was told is still how the chain begins, whatever
\* other processes appended, cancelled or broke in the meantime.
ReadersAgree ==
  \A p \in Process : Len(chain[p]) <= Len(receipts)
    /\ \A k \in DOMAIN chain[p] : receipts[k].name = chain[p][k]

\* An append that was answered is in the chain, sealed, and the head counts it.
AnswerIsKept ==
  \A n \in acked : \E k \in DOMAIN receipts :
    receipts[k].name = n /\ receipts[k].sealed /\ k <= head.count

\* An append that stops after its head leaves the evidence: what the head
\* announces beyond the chain is still under .pending.
HeadLeads ==
  \/ head.count = Len(receipts)
  \/ head.count = Len(receipts) + 1 /\ head.tail \in staged

\* With what makes them inductive
Inductive == /\ TypeOK /\ Exclusive /\ \A p \in Process : AsLeft(p)
             /\ Accounted /\ OneChain /\ ReadersAgree /\ AnswerIsKept /\ HeadLeads

\* "close either cancels first or follows commit": a guarded receipt appears
\* only while its guard holds.
CancelOrCommit ==
  [][\A p \in Process : guarded[p] /\ Len(receipts') > Len(receipts) /\ mine[p] = receipts'[Len(receipts')].name
       => live[p]]_vars

\* After a process died inside a call no other takes its place: the files stay
\* as they were found.
OrphanIsFrozen == [][Orphaned => Orphaned' /\ UNCHANGED files]_vars

\* The ledger is a list that grows by one, until it is closed for good.
Open ==
  \/ \E p \in Process : pc[p] \in {"staged", "ready", "headed", "named"}
  \/ Intact /\ (lock => \E p \in Process : pc[p] \in Inside)
Contract == INSTANCE ReceiptChain WITH chain <- Names, open <- Open
ChainContract == Contract!Spec
=============================================================================
