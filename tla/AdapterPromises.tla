--------------------------- MODULE AdapterPromises ---------------------------
(***************************************************************************)
(* What one invocation of the on-device model promises its owner and the   *)
(* bridge (chrome-review-adapter.js), said of its outcome, its sessions    *)
(* and its messages alone.  ChromeAdapter has the steps that keep it.      *)
(***************************************************************************)
EXTENDS Naturals, Sequences

VARIABLES
  inv,        \* the invocation: see ChromeAdapter's TypeOK
  ops,        \* prepare's and run's operation
  sent        \* history: messages sent to the bridge

\* The deadline, cancels, drift, the model's answer and its failures race, and
\* exactly one of them settles: one message, or the model's answer superseded
\* by one cancel (terminal).
SettledOnce ==
  \/ sent = <<>> \/ Len(sent) = 1
  \/ Len(sent) = 2 /\ sent[1].reason = "none" /\ sent[2].kind = "cancel"

\* No session of the model outlives the invocation: also one that create
\* delivers after the abort, or that hangs in a prompt (dispose).
NoSessionLeft == inv.terminal => \A o \in DOMAIN ops : ops[o].session # "open"
=============================================================================
