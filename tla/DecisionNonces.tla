--------------------------- MODULE DecisionNonces ---------------------------
(***************************************************************************)
(* review/decision-nonce.js: the files under review-decisions/.  A session *)
(* is one DecisionNonces object, one per bootstrap process; the directory  *)
(* outlives it.  The calls are synchronous, so a session has one at a time *)
(* and its own calls never interleave; other sessions' calls and a crash   *)
(* come between any two file operations.  A nonce stands for its hash and  *)
(* its file names; a binding for the review, candidate, policy and action. *)
(***************************************************************************)
EXTENDS NoncePromises

CONSTANTS Session,    \* DecisionNonces objects, one per process
          Binding,    \* review, candidate, policy and action
          None,       \* no file, or no call
          Ttl,        \* ttlMs
          MaxTime     \* bound: readings of the wall clock

VARIABLES
  record,     \* <hash>.json
  now,        \* the wall clock, which may be set back
  recovered   \* history: the decisions recover answered for

vars == <<record, used, at, call, alive, now, granted, recovered>>

Decision == [nonce : Nonce, binding : Binding]
Record   == [binding : Binding, expires : Nat, session : Session]
Grant    == [session : Session, binding : Binding]

ASSUME ConstantsAssumption ==
  /\ None \notin Record
  /\ Ttl \in Nat \ {0} /\ MaxTime \in Nat

TypeOK ==
  /\ record \in [Nonce -> Record \cup {None}]
  /\ used \in [Nonce -> {"absent", "torn", "whole"}]
  /\ at \in [Session -> {"idle", "create", "write", "answer"}]
  /\ call \in [Session -> Decision \cup {None}]
  /\ \A s \in Session : at[s] # "idle" => call[s] \in Decision
  /\ alive \subseteq Session /\ now \in 0 .. MaxTime
  /\ granted \in [Nonce -> Seq(Grant)]
  /\ recovered \subseteq Nonce

Issued(n)  == record[n] # None
Expired(n) == record[n].expires <= now      \* #record
Unspent(n) == used[n] = "absent"            \* existsSync of the used file

-----------------------------------------------------------------------------
(* Mistakes the code could have made; the specification uses none of them. *)
Move(s, pc) == at' = [at EXCEPT ![s] = pc] /\ UNCHANGED call
End(s)      == Move(s, "idle")

\* the used file is removed once the decision was answered
AnswerAndTidy(s) ==
  /\ at[s] = "answer" /\ End(s)
  /\ LET d == call[s] IN
     /\ granted' = [granted EXCEPT ![d.nonce] =
                      Append(@, [session |-> s, binding |-> record[d.nonce].binding])]
     /\ used' = [used EXCEPT ![d.nonce] = "absent"]
  /\ UNCHANGED <<record, alive, now, recovered>>
\* a used file that could not be written is removed again
WriteFailsAndRemoves(s) ==
  /\ at[s] = "write" /\ End(s)
  /\ used' = [used EXCEPT ![call[s].nonce] = "absent"]
  /\ UNCHANGED <<record, alive, now, granted, recovered>>

-----------------------------------------------------------------------------
Init ==
  /\ record = [n \in Nonce |-> None] /\ used = [n \in Nonce |-> "absent"]
  /\ at = [s \in Session |-> "idle"] /\ call = [s \in Session |-> None]
  /\ alive = Session /\ now = 0
  /\ granted = [n \in Nonce |-> <<>>] /\ recovered = {}

\* issue: the nonce is fresh (32 random bytes, O_EXCL).  A crash before the
\* record is whole leaves a nonce nobody was told of.
Issue(s, n, b) ==
  /\ s \in alive /\ at[s] = "idle" /\ ~Issued(n)
  /\ record' = [record EXCEPT ![n] = [binding |-> b, expires |-> now + Ttl, session |-> s]]
  /\ UNCHANGED <<used, at, call, alive, now, granted, recovered>>

\* consume up to its last check; a decision it refuses changes nothing
Present(s, d) ==
  /\ s \in alive /\ at[s] = "idle"
  /\ Issued(d.nonce) /\ ~Expired(d.nonce)
  /\ record[d.nonce].binding = d.binding
  /\ Unspent(d.nonce)
  /\ record[d.nonce].session = s
  /\ call' = [call EXCEPT ![s] = d]
  /\ at' = [at EXCEPT ![s] = "create"]
  /\ UNCHANGED <<record, used, alive, now, granted, recovered>>

\* open with O_CREAT | O_EXCL: the linearization point.  EEXIST would refuse the
\* call; as only the issuing session gets here, and one call at a time, it is a
\* second line of defence (Inductive).
Create(s) ==
  /\ at[s] = "create"
  /\ used[call[s].nonce] = "absent"
  /\ used' = [used EXCEPT ![call[s].nonce] = "torn"] /\ Move(s, "write")
  /\ UNCHANGED <<record, alive, now, granted, recovered>>

\* writeFileSync and the two fsyncs
Write(s) ==
  /\ at[s] = "write"
  /\ used' = [used EXCEPT ![call[s].nonce] = "whole"]
  /\ Move(s, "answer")
  /\ UNCHANGED <<record, alive, now, granted, recovered>>

\* ... one of which fails: consume throws, with the file torn or whole
WriteFails(s) ==
  /\ at[s] = "write" /\ End(s)
  /\ \E f \in {"torn", "whole"} : used' = [used EXCEPT ![call[s].nonce] = f]
  /\ UNCHANGED <<record, alive, now, granted, recovered>>

Answer(s) ==
  /\ at[s] = "answer" /\ End(s)
  /\ LET d == call[s] IN
     granted' = [granted EXCEPT ![d.nonce] =
                   Append(@, [session |-> s, binding |-> d.binding])]
  /\ UNCHANGED <<record, used, alive, now, recovered>>

\* recover: any session, the used file must match the record
Recover(s, n) ==
  /\ s \in alive /\ at[s] = "idle"
  /\ Issued(n) /\ ~Expired(n) /\ used[n] = "whole"
  /\ recovered' = recovered \cup {n}
  /\ UNCHANGED <<record, used, at, call, alive, now, granted>>

Crash(s) ==
  /\ s \in alive /\ alive' = alive \ {s} /\ End(s)
  /\ UNCHANGED <<record, used, now, granted, recovered>>

Clock ==
  /\ now' \in 0 .. MaxTime
  /\ UNCHANGED <<record, used, at, call, alive, granted, recovered>>

Next ==
  \/ \E s \in Session :
       \/ \E n \in Nonce, b \in Binding : Issue(s, n, b)
       \/ \E d \in Decision : Present(s, d)
       \/ Create(s) \/ Write(s) \/ WriteFails(s) \/ Answer(s) \/ Crash(s)
       \/ \E n \in Nonce : Recover(s, n)
  \/ Clock

Spec == Init /\ [][Next]_vars

-----------------------------------------------------------------------------
\* What was answered is what was issued: the session that issued the nonce, with
\* its very binding, and the spent file stands complete behind the answer.
GrantIsBound ==
  \A n \in Nonce : \A k \in DOMAIN granted[n] :
    /\ used[n] = "whole"
    /\ granted[n][k].session = record[n].session
    /\ granted[n][k].binding = record[n].binding

\* recover never answers for a decision whose consumption was not written out.
RecoveredWasWritten == \A n \in recovered : used[n] = "whole"

\* Why: a consumption in progress belongs to the session that issued the nonce,
\* so there is one of it, its used file is the one it made, and nothing was
\* answered yet; an unspent nonce was never answered.
InProgress(s) ==
  LET d == call[s] IN
  /\ s \in alive /\ Issued(d.nonce)
  /\ record[d.nonce].session = s /\ record[d.nonce].binding = d.binding
  /\ at[s] = "create" => used[d.nonce] = "absent"
  /\ at[s] = "write" => used[d.nonce] = "torn"
  /\ at[s] = "answer" => used[d.nonce] = "whole"
  /\ at[s] \in {"write", "answer"} => granted[d.nonce] = <<>>
NonceHolds(n) ==
  /\ ~Issued(n) => used[n] = "absent"
  /\ used[n] # "whole" => granted[n] = <<>> /\ n \notin recovered
  /\ \/ granted[n] = <<>>
     \/ granted[n] = <<[session |-> record[n].session, binding |-> record[n].binding]>>
Inductive ==
  /\ TypeOK
  /\ \A s \in Session : at[s] # "idle" => InProgress(s)
  /\ \A n \in Nonce : NonceHolds(n)
=============================================================================
