---------------------------- MODULE ChromeAdapter ----------------------------
(***************************************************************************)
(* extension/chrome-review-adapter.js: one invocation of Chrome's          *)
(* on-device model in the panel.  Calls of the owner (SidecarSession),     *)
(* answers of the model, the one timer and the clock race; what is sent    *)
(* goes to the bridge, whose status rules are Parses.  One unit of time is *)
(* the 60 s the adapter allows an inspection or a run; the 600 s it allows *)
(* everything else end at the deadline, which is at most 600 s away.       *)
(***************************************************************************)
EXTENDS AdapterPromises

CONSTANTS Deadline, MaxTime      \* MaxTime: bound on the clock
ASSUME TimeAssumption == Deadline \in Nat \ {0} /\ MaxTime \in Nat /\ MaxTime > Deadline

VARIABLES
  inspecting, \* where inspect stands
  destroyed,  \* adapter flag
  now, timer  \* timer: when it is due, or Off

vars == <<inv, ops, inspecting, destroyed, now, timer, sent>>

Op  == {"prepare", "run"}
Off == MaxTime + 1
CancelReasons  == {"cancellation", "panel-closure", "emergency-stop"}
FailureReasons == {"connection-loss", "provenance-drift", "timeout", "custody-failure"}
Reasons == CancelReasons \cup FailureReasons
           \cup {"none", "api-absent", "setup-declined", "unavailable", "malformed-output"}
Availability == {"not-checked", "available", "api-absent", "setup-required",
                 "setup-declined", "unavailable"}
Phase == {"none", "verifying", "checking", "ready", "preparation-required", "preparing",
          "running", "completed", "stopped", "failed"}
Message == [kind : {"result", "cancel"}, reason : Reasons, availability : Availability,
            execution : {"completed", "failed", "not-run"}]

TypeOK ==
  /\ inv \in [phase : Phase, terminal : BOOLEAN, resultSent : BOOLEAN, finalized : BOOLEAN,
              prompted : BOOLEAN, availability : Availability]
  /\ ops \in [Op -> [pc : {"idle", "create", "prompt", "dispose", "done"},
                     session : {"none", "open", "closed"},
                     cleanup : {"none", "pending", "ok", "failed"},
                     failure : Reasons \cup {"gone"}]]
  /\ inspecting \in {"no", "verify", "ask", "done"} /\ destroyed \in BOOLEAN
  /\ now \in 0 .. MaxTime /\ timer \in 0 .. Off
  /\ \A k \in DOMAIN sent : sent[k] \in Message
  /\ inv.phase # "none" /\ ~inv.terminal => timer # Off

-----------------------------------------------------------------------------
(* terminal(reasonCode): the one way to settle. "none" is the model's answer. *)

\* sessions are left to their finally
NotDisposed(os) == os

\* dispose: destroy is called once, on a session that exists
Disposed(os) ==
  [o \in Op |-> IF os[o].session = "open"
                THEN [os[o] EXCEPT !.session = "closed", !.cleanup = "pending"] ELSE os[o]]

Arm(t) == timer' = IF now + t < Deadline THEN now + t
                   ELSE IF now < Deadline THEN Deadline ELSE now
Long == Deadline          \* the 600 s

Wire(i, reason) ==
  LET cancels == reason \in CancelReasons \/ (i.resultSent /\ reason # "none")
      lost    == i.resultSent /\ reason \in {"connection-loss", "timeout"}
      said    == IF i.resultSent /\ reason \notin CancelReasons THEN "cancellation" ELSE reason
  IN IF lost THEN <<>>
     ELSE <<[kind |-> IF cancels THEN "cancel" ELSE "result", reason |-> said,
             availability |-> i.availability,
             execution |-> IF reason = "none" THEN "completed"
                           ELSE IF i.prompted THEN "failed" ELSE "not-run"]>>

PhaseAfter(reason) == IF reason = "none" THEN "completed"
                      ELSE IF reason \in CancelReasons THEN "stopped" ELSE "failed"

\* mistakes the code could have made
TerminalAgain(reason, i, os) ==
  /\ inv' = [i EXCEPT !.phase = PhaseAfter(reason),
                      !.terminal = @ \/ reason # "none", !.resultSent = @ \/ reason = "none"]
  /\ IF reason = "none" THEN Arm(Long) ELSE timer' = Off
  /\ ops' = Disposed(os) /\ sent' = sent \o Wire(i, reason)
TerminalNotRearmed(reason, i, os) ==
  IF i.terminal \/ (reason = "none" /\ i.resultSent)
  THEN inv' = i /\ ops' = os /\ UNCHANGED <<timer, sent>>
  ELSE /\ inv' = [i EXCEPT !.phase = PhaseAfter(reason),
                           !.terminal = reason # "none", !.resultSent = @ \/ reason = "none"]
       /\ timer' = Off
       /\ ops' = Disposed(os) /\ sent' = sent \o Wire(i, reason)

Terminal(reason, i, os) ==
  IF i.terminal \/ (reason = "none" /\ i.resultSent)
  THEN inv' = i /\ ops' = os /\ UNCHANGED <<timer, sent>>
  ELSE /\ inv' = [i EXCEPT !.phase = PhaseAfter(reason),
                           !.terminal = reason # "none", !.resultSent = @ \/ reason = "none"]
       /\ IF reason = "none" THEN Arm(Long) ELSE timer' = Off
       /\ ops' = Disposed(os) /\ sent' = sent \o Wire(i, reason)

\* live(): a deadline that has passed settles on the way
Live == inv.phase # "none" /\ ~inv.terminal /\ ~destroyed /\ now < Deadline
NotLive(os) ==
  /\ ~Live
  /\ IF inv.phase # "none" /\ ~destroyed THEN Terminal("timeout", inv, os)
     ELSE ops' = os /\ UNCHANGED <<inv, timer, sent>>

-----------------------------------------------------------------------------
Init ==
  /\ inv = [phase |-> "none", terminal |-> FALSE, resultSent |-> FALSE,
            finalized |-> FALSE, prompted |-> FALSE, availability |-> "not-checked"]
  /\ ops = [o \in Op |-> [pc |-> "idle", session |-> "none", cleanup |-> "none",
                          failure |-> "none"]]
  /\ inspecting = "no" /\ destroyed = FALSE /\ now = 0 /\ timer = Off /\ sent = <<>>

\* snapshotReady: a well-formed packet whose deadline is still to come
ReadyAccepted == now < Deadline

Inspect ==
  /\ inv.phase = "none" /\ ~destroyed /\ ReadyAccepted
  /\ inv' = [inv EXCEPT !.phase = "verifying"] /\ inspecting' = "verify" /\ Arm(1)
  /\ UNCHANGED <<ops, destroyed, now, sent>>

\* verifyReady's digests agree; without the API the review ends here
Verified ==
  /\ inspecting = "verify" /\ UNCHANGED <<destroyed, now>>
  /\ \/ /\ Live /\ inspecting' = "ask" /\ inv' = [inv EXCEPT !.phase = "checking"]
        /\ UNCHANGED <<ops, timer, sent>>
     \/ /\ Live /\ inspecting' = "done"
        /\ Terminal("api-absent", [inv EXCEPT !.availability = "api-absent"], ops)
     \/ inspecting' = "done" /\ NotLive(ops)

Available ==
  /\ inspecting = "ask" /\ inspecting' = "done" /\ UNCHANGED <<destroyed, now>>
  /\ \/ /\ Live /\ Arm(Long) /\ UNCHANGED <<ops, sent>>
        /\ \E a \in {<<"available", "ready">>, <<"setup-required", "preparation-required">>} :
             inv' = [inv EXCEPT !.availability = a[1], !.phase = a[2]]
     \/ Live /\ Terminal("unavailable", [inv EXCEPT !.availability = "unavailable"], ops)
     \/ NotLive(ops)

InspectFails ==
  /\ inspecting \in {"verify", "ask"} /\ inspecting' = "done" /\ UNCHANGED <<destroyed, now>>
  /\ \/ Live /\ Terminal("custody-failure", inv, ops)
     \/ NotLive(ops)

-----------------------------------------------------------------------------
(* execute: create, prompt, and a finally that destroys the session.        *)
Step(o, rec) == [ops EXCEPT ![o] = rec]
Inv == UNCHANGED <<inspecting, destroyed, now>>
StartPhase(o) == IF o = "prepare" THEN "preparation-required" ELSE "ready"

Execute(o) ==
  /\ inv.phase = StartPhase(o) /\ Inv
  /\ \/ /\ Live
        /\ ops' = Step(o, [pc |-> "create", session |-> "none", cleanup |-> "none",
                           failure |-> "none"])
        /\ inv' = [inv EXCEPT !.phase = IF o = "prepare" THEN "preparing" ELSE "running"]
        /\ Arm(IF o = "prepare" THEN Long ELSE 1) /\ UNCHANGED sent
     \/ NotLive(ops)

\* the operation enters its finally with this outcome
Finally(o, os, failure) ==
  LET ended == [os EXCEPT ![o].pc = "dispose", ![o].failure = failure] IN Disposed(ended)

Created(o) ==
  /\ ops[o].pc = "create" /\ Inv
  /\ LET got == [ops EXCEPT ![o].session = "open"] IN
     \/ /\ Live /\ o = "run"
        /\ ops' = [got EXCEPT ![o].pc = "prompt"] /\ inv' = [inv EXCEPT !.prompted = TRUE]
        /\ UNCHANGED <<timer, sent>>
     \/ /\ Live /\ o = "prepare"
        /\ ops' = Finally(o, got, "none") /\ UNCHANGED <<inv, timer, sent>>
     \/ NotLive(Finally(o, got, "gone"))

CreateFails(o) ==
  /\ ops[o].pc = "create" /\ Inv
  /\ ops' = Finally(o, ops, IF o = "prepare" THEN "setup-declined" ELSE "unavailable")
  /\ UNCHANGED <<inv, timer, sent>>

Prompted(o) ==
  /\ ops[o].pc = "prompt" /\ Inv
  /\ \/ /\ Live
        /\ \E f \in {"none", "malformed-output"} : ops' = Finally(o, ops, f)
        /\ UNCHANGED <<inv, timer, sent>>
     \/ NotLive(Finally(o, ops, "gone"))

PromptFails(o) ==
  /\ ops[o].pc = "prompt" /\ Inv
  /\ ops' = Finally(o, ops, "custody-failure") /\ UNCHANGED <<inv, timer, sent>>

\* the model's destroy returns or throws; it may also never do either
CleanedUp(o) ==
  /\ ops[o].cleanup = "pending" /\ Inv
  /\ \E c \in {"ok", "failed"} : ops' = [ops EXCEPT ![o].cleanup = c]
  /\ UNCHANGED <<inv, timer, sent>>

\* after the finally
Finish(o) ==
  /\ ops[o].pc = "dispose" /\ ops[o].cleanup # "pending" /\ Inv
  /\ LET f == IF ops[o].cleanup = "failed" /\ ops[o].failure # "gone" THEN "custody-failure"
              ELSE ops[o].failure
         os == [ops EXCEPT ![o].pc = "done"]
     IN \/ f = "gone" /\ ops' = os /\ UNCHANGED <<inv, timer, sent>>
        \/ f # "gone" /\ NotLive(os)
        \/ /\ f # "gone" /\ Live /\ f = "none" /\ o = "prepare"
           /\ ops' = os /\ Arm(Long) /\ UNCHANGED sent
           /\ inv' = [inv EXCEPT !.availability = "available", !.phase = "ready"]
        \/ /\ f # "gone" /\ Live /\ (f # "none" \/ o = "run")
           /\ Terminal(f, [inv EXCEPT !.availability =
                             IF f \in {"setup-declined", "unavailable"} THEN f ELSE @], os)

-----------------------------------------------------------------------------
(* The owner: cancel, destroy and finalize; and time.                       *)
Cancel(reason) ==
  /\ inv.phase # "none" /\ reason \in CancelReasons \cup FailureReasons
  /\ Terminal(reason, inv, ops) /\ Inv

Destroy(reason) ==
  /\ reason \in CancelReasons \cup FailureReasons
  /\ destroyed' = TRUE /\ UNCHANGED <<inspecting, now>>
  /\ IF inv.phase # "none" THEN Terminal(reason, inv, ops)
     ELSE UNCHANGED <<inv, ops, timer, sent>>

Finalize ==
  /\ inv.phase # "none" /\ ~inv.finalized
  /\ inv' = [inv EXCEPT !.finalized = TRUE, !.terminal = TRUE]
  /\ destroyed' = TRUE /\ timer' = Off /\ ops' = Disposed(ops)
  /\ UNCHANGED <<inspecting, now, sent>>

TimerFires ==
  /\ timer # Off /\ now >= timer /\ Inv
  /\ IF inv.terminal \/ inv.phase = "none" THEN timer' = Off /\ UNCHANGED <<inv, ops, sent>>
     ELSE Terminal("timeout", inv, ops)

Tick == now < MaxTime /\ now' = now + 1
        /\ UNCHANGED <<inv, ops, inspecting, destroyed, timer, sent>>

Next ==
  \/ Inspect \/ Verified \/ Available \/ InspectFails
  \/ \E o \in Op : \/ Execute(o) \/ Created(o) \/ CreateFails(o) \/ CleanedUp(o) \/ Finish(o)
                   \/ Prompted(o) \/ PromptFails(o)
  \/ \E r \in Reasons : Cancel(r) \/ Destroy(r)
  \/ Finalize \/ TimerFires \/ Tick

\* Time passes and a due timer fires; nothing is asked of the model or the user.
Spec == Init /\ [][Next]_vars /\ WF_vars(Tick) /\ WF_vars(TimerFires)

-----------------------------------------------------------------------------
\* An invocation ends by itself, whatever the model or the user leave undone.
Ends == inv.phase # "none" ~> inv.terminal
=============================================================================
