------------------------- MODULE ActivationContract -------------------------
(***************************************************************************)
(* What the activation journal promises, without files, locks or crashes:  *)
(* at any moment one version is good; an authorisation is spent on at most *)
(* one trial; a trial replaces the good version only by being committed,   *)
(* and otherwise the good version stays.                                   *)
(***************************************************************************)
CONSTANTS Review, None

VARIABLES good,     \* the last committed version
          trial,    \* the version under trial, None between trials
          spent,    \* authorisations consumed so far
          granted   \* consumed and about to be tried

vars == <<good, trial, spent, granted>>

Init == /\ good \in Review /\ trial = None
        /\ spent = {} /\ granted = {}

\* An authorisation is consumed once, and never twice.
Consume(r) == /\ trial = None /\ r \notin spent
              /\ spent' = spent \cup {r} /\ granted' = {r}
              /\ UNCHANGED <<good, trial>>

\* The process that consumed it went away.
Lose == granted' = {} /\ UNCHANGED <<good, trial, spent>>

Try(r) == /\ trial = None /\ r \in granted
          /\ trial' = r /\ granted' = {}
          /\ UNCHANGED <<good, spent>>

Commit == /\ trial # None
          /\ good' = trial /\ trial' = None
          /\ UNCHANGED <<spent, granted>>

Abandon == /\ trial # None
           /\ trial' = None
           /\ UNCHANGED <<good, spent, granted>>

Next == \/ \E r \in Review : Consume(r) \/ Try(r)
        \/ Lose \/ Commit \/ Abandon

Spec == Init /\ [][Next]_vars
=============================================================================
