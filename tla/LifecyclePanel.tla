--------------------------- MODULE LifecyclePanel ---------------------------
(***************************************************************************)
(* The update card: sidepanel-controller.js and the buttons of             *)
(* sidepanel.js against the lifecycle router of sidecar-protocol.js.  Each *)
(* connection of the panel is a host process with a router of its own and  *)
(* two FIFO pipes; its number is the panel's connection generation, and    *)
(* the review it offers bears that number too.  The coordinator behind the *)
(* router is ReviewCoordinator's business: here each call returns some     *)
(* answer.  The Chrome adapter is seen as ChromeAdapter leaves it: open,   *)
(* completed, failed or stopped.                                           *)
(***************************************************************************)
EXTENDS Naturals, Sequences

CONSTANT MaxGen                  \* bound on connection generations
ASSUME GenAssumption == MaxGen \in Nat \ {0}

VARIABLES
  panel,     \* SidecarSession: see TypeOK; status is the page's connection status
  attempts,  \* connection attempts whose storage.get has not returned
  chrome,    \* the session's #chrome: owner (0: none), adapter, finalized, revoked
  up,        \* up[c]: the host process of connection c runs
  toHost, toPanel, \* the pipes of connection c
  router,    \* router[c]
  stage,     \* stage[c]: the coordinator's Chrome stage
  readies,   \* readies[c]: session.ready messages the host relayed
  silent     \* silent[c]: a failure was not told to the panel

vars == <<panel, attempts, chrome, up, toHost, toPanel, router, stage, readies, silent>>
hosts == <<up, router, stage, readies, silent>>

Conn  == 1 .. MaxGen
Shown == {"idle", "available", "requested", "reviewing", "eligible", "stopped", "accepting",
          "activating", "completed", "rejected", "failed", "dismissed"}
RouterState == {"idle", "available", "reviewing", "eligible", "activating", "rejected",
                "completed", "failed"}
Command == {"status", "start", "accept", "reject", "navigate", "chromeResult", "chromeStop"}
Event   == {"available", "started", "eligible", "failed", "activating", "completed",
            "rolledBack", "chromeReady", "ready"}

TypeOK ==
  /\ panel \in [port : {0} \cup Conn, gen : 1 .. MaxGen + 1,
                connecting : {0} \cup Conn, state : Shown,
                review : {0} \cup Conn, decision : BOOLEAN, asked : BOOLEAN,
                status : {"connecting", "ready", "closed"}]
  /\ attempts \subseteq Conn
  /\ chrome \in [owner : {0} \cup Conn, adapter : {"none", "open", "completed", "failed", "stopped"},
                 finalized : BOOLEAN, revoked : BOOLEAN]
  /\ up \in [Conn -> BOOLEAN] /\ silent \in [Conn -> BOOLEAN] /\ readies \in [Conn -> 0 .. 2]
  /\ toHost \in [Conn -> Seq([kind : Command, rev : {0} \cup Conn])]
  /\ toPanel \in [Conn -> Seq([kind : Event, rev : {0} \cup Conn])]
  /\ router \in [Conn -> [state : RouterState, bound : BOOLEAN, grant : BOOLEAN,
                          rejection : BOOLEAN,
                          busy : {"no", "status", "start", "accept", "reject", "navigate"}]]
  /\ stage \in [Conn -> {"none", "asked", "result", "stopped", "done"}]

NoChrome == [owner |-> 0, adapter |-> "none", finalized |-> FALSE, revoked |-> FALSE]

-----------------------------------------------------------------------------
(* What the panel sends.                                                    *)
Post(c, kind, rev) ==
  toHost' = [toHost EXCEPT ![c] = IF c # 0 /\ up[c] THEN Append(@, [kind |-> kind, rev |-> rev])
                                  ELSE @]

Owns == chrome.owner # 0 /\ ~chrome.revoked /\ panel.port = chrome.owner
        /\ panel.gen = chrome.owner

\* invalidateChrome: authority first, then the adapter's last word
Withdrawn(p) ==
  IF chrome.owner = 0 THEN p
  ELSE [p EXCEPT !.decision = FALSE, !.state = IF @ = "eligible" THEN "stopped" ELSE @]
Revoked ==
  IF chrome.owner = 0 THEN chrome
  ELSE [chrome EXCEPT !.revoked = TRUE,
          !.adapter = IF chrome.revoked \/ chrome.finalized \/ @ = "failed" THEN @ ELSE "stopped"]
LastWord(reason) ==
  IF /\ chrome.owner # 0 /\ ~chrome.revoked /\ ~chrome.finalized
     /\ chrome.adapter = "open" \/ (chrome.adapter = "completed" /\ reason # "connection-loss")
  THEN Post(chrome.owner, "chromeStop", chrome.owner) ELSE UNCHANGED toHost

\* a close that forgets the review's state
ClosedKeepingCard(p) == [p EXCEPT !.gen = @ + 1, !.port = 0, !.connecting = 0, !.asked = FALSE,
                                  !.status = "closed"]
\* closeConnection, whose event also shows Disconnected
Closed(p) == [p EXCEPT !.gen = @ + 1, !.port = 0, !.connecting = 0, !.state = "idle",
                       !.review = 0, !.decision = FALSE, !.asked = FALSE, !.status = "closed"]
Disconnects(reason) ==
  /\ panel' = Closed(panel) /\ chrome' = NoChrome /\ LastWord(reason)

-----------------------------------------------------------------------------
Init ==
  /\ panel = [port |-> 0, gen |-> 1, connecting |-> 1, state |-> "idle", review |-> 0,
              decision |-> FALSE, asked |-> FALSE, status |-> "connecting"]
  /\ attempts = {1} /\ chrome = NoChrome
  /\ up = [c \in Conn |-> FALSE] /\ silent = [c \in Conn |-> FALSE]
  /\ toHost = [c \in Conn |-> <<>>] /\ toPanel = [c \in Conn |-> <<>>]
  /\ router = [c \in Conn |-> [state |-> "idle", bound |-> FALSE, grant |-> FALSE,
                               rejection |-> FALSE, busy |-> "no"]]
  /\ stage = [c \in Conn |-> "none"] /\ readies = [c \in Conn |-> 0]

\* connect resumes after its await, and the page asks for the update's status
ConnectDone(a) ==
  /\ a \in attempts /\ attempts' = attempts \ {a}
  /\ UNCHANGED <<chrome, toPanel, router, stage, readies, silent>>
  /\ IF a = panel.gen
     THEN /\ panel' = [panel EXCEPT !.port = a, !.connecting = 0, !.asked = TRUE]
          /\ up' = [up EXCEPT ![a] = TRUE]
          /\ toHost' = [toHost EXCEPT ![a] = <<[kind |-> "status", rev |-> 0]>>]
     ELSE UNCHANGED <<panel, up, toHost>>

ConnectFails(a) ==
  /\ a \in attempts /\ attempts' = attempts \ {a}
  /\ panel' = [panel EXCEPT !.connecting = IF @ = a THEN 0 ELSE @, !.status = "closed"]
  /\ UNCHANGED <<chrome, toHost, toPanel, hosts>>

\* the page becomes visible with a closed status: disconnect, then connect
Reconnect ==
  /\ panel.status = "closed"
  /\ LET tearing == panel.port # 0 \/ panel.connecting # 0
         torn    == IF tearing THEN Closed(panel) ELSE [panel EXCEPT !.status = "connecting"]
         g       == torn.gen + 1
     IN /\ g \in Conn
        /\ panel' = [torn EXCEPT !.gen = g, !.connecting = g]
        /\ attempts' = attempts \cup {g}
        /\ chrome' = (IF tearing THEN NoChrome ELSE chrome)
        /\ IF tearing THEN LastWord("panel-closure") ELSE UNCHANGED toHost
  /\ UNCHANGED <<toPanel, hosts>>

\* pagehide
PageHides ==
  /\ panel.port # 0 \/ panel.connecting # 0
  /\ Disconnects("panel-closure") /\ UNCHANGED <<attempts, toPanel, hosts>>

\* the host is gone and what it had written has been read
PortDisconnects ==
  /\ panel.port # 0 /\ ~up[panel.port] /\ toPanel[panel.port] = <<>>
  /\ Disconnects("connection-loss") /\ UNCHANGED <<attempts, toPanel, hosts>>

-----------------------------------------------------------------------------
(* Clicks.  renderReview shows buttons by the state of the card; the method *)
(* behind each has a gate of its own, and throws when that is closed.       *)
Active == Owns /\ ~chrome.finalized /\ chrome.adapter \notin {"failed", "stopped"}
Buttons ==
  (IF panel.state = "failed"
   THEN {"dismiss"} \cup (IF panel.review # 0 THEN {"open"} ELSE {})
   ELSE IF panel.state = "completed" THEN {"dismiss"}
   ELSE IF panel.state = "eligible" THEN {"accept", "reject"}
   ELSE IF panel.state = "available" THEN {"start"} ELSE {})
  \cup (IF panel.state = "reviewing" /\ Active THEN {"cancel"} ELSE {})

\* choose() goes through
Decidable ==
  /\ panel.state = "eligible" /\ panel.decision
  /\ chrome.owner = 0 \/ (Owns /\ chrome.finalized /\ chrome.adapter = "completed")

StartReview ==
  /\ "start" \in Buttons /\ panel' = [panel EXCEPT !.state = "requested"]
  /\ Post(panel.port, "start", panel.review)
  /\ UNCHANGED <<attempts, chrome, toPanel, hosts>>

\* the click is sent before the state moves
ChooseUnlinearized(action) ==
  /\ action \in Buttons /\ Decidable
  /\ UNCHANGED <<attempts, toPanel, hosts, panel, chrome>>
  /\ Len(toHost[panel.port]) < 2
  /\ Post(panel.port, action, panel.review)
Choose(action) ==
  /\ action \in Buttons /\ UNCHANGED <<attempts, toPanel, hosts>>
  /\ IF Decidable
     THEN /\ panel' = [panel EXCEPT !.decision = FALSE,
                         !.state = IF action = "accept" THEN "accepting" ELSE "rejected"]
          /\ Post(panel.port, action, panel.review) /\ UNCHANGED chrome
     ELSE panel' = Withdrawn(panel) /\ chrome' = Revoked /\ LastWord("provenance-drift")

OpenReview ==
  /\ "open" \in Buttons
  /\ toHost[panel.port] = <<>> /\ toPanel[panel.port] = <<>>   \* bound: one at a time
  /\ Post(panel.port, "navigate", panel.review)
  /\ UNCHANGED <<panel, attempts, chrome, toPanel, hosts>>

Dismiss ==
  /\ "dismiss" \in Buttons
  /\ panel' = [panel EXCEPT !.state = "dismissed", !.review = 0, !.decision = FALSE]
  /\ UNCHANGED <<attempts, chrome, toHost, toPanel, hosts>>

\* cancelChromeReview; emergencyStop is offered during a turn as well, which
\* may be under way at any time
Stop ==
  /\ "cancel" \in Buttons \/ panel.port # 0
  /\ chrome.owner # 0
  /\ panel' = Withdrawn(panel) /\ chrome' = Revoked /\ LastWord("cancellation")
  /\ UNCHANGED <<attempts, toPanel, hosts>>

\* The adapter's own moves, as long as the session owns it.
AdapterAnswers ==
  /\ Owns /\ chrome.adapter = "open" /\ chrome' = [chrome EXCEPT !.adapter = "completed"]
  /\ Post(chrome.owner, "chromeResult", chrome.owner)
  /\ UNCHANGED <<panel, attempts, toPanel, hosts>>
AdapterFails ==
  /\ Owns /\ chrome.adapter = "open" /\ chrome' = [chrome EXCEPT !.adapter = "failed"]
  /\ Post(chrome.owner, "chromeStop", chrome.owner)
  /\ UNCHANGED <<panel, attempts, toPanel, hosts>>
AdapterExpires ==
  /\ Owns /\ chrome.adapter = "completed" /\ ~chrome.finalized
  /\ chrome' = [chrome EXCEPT !.adapter = "failed"]
  /\ UNCHANGED <<panel, attempts, toHost, toPanel, hosts>>

-----------------------------------------------------------------------------
(* handleMessage.                                                           *)
Same(m) == panel.review # 0 /\ m.rev = panel.review


\* lifecycle()'s table of the steps that follow an answer; first without the
\* rollback
StepsForward == [started    |-> <<"requested", "reviewing">>,
                 eligible   |-> <<"reviewing", "eligible">>,
                 activating |-> <<"accepting", "activating">>,
                 completed  |-> <<"activating", "completed">>]
Steps == [started    |-> <<"requested", "reviewing">>,
          eligible   |-> <<"reviewing", "eligible">>,
          activating |-> <<"accepting", "activating">>,
          completed  |-> <<"activating", "completed">>,
          rolledBack |-> <<"activating", "failed">>]

\* an eligibility that its own Chrome review does not back is dropped
BackedAnyway(m) == m.kind # "eligible" \/ chrome.owner = 0 \/ panel.port = chrome.owner
Backed(m) == m.kind # "eligible" \/ chrome.owner = 0 \/ (Owns /\ chrome.adapter = "completed")

Finalized == IF chrome.owner = 0 THEN chrome ELSE [chrome EXCEPT !.finalized = TRUE]

Lifecycle(m) ==
  /\ UNCHANGED toHost
  /\ IF m.kind = "available" /\ panel.state = "idle" /\ panel.asked
     THEN panel' = [panel EXCEPT !.asked = FALSE, !.review = m.rev, !.state = "available"]
          /\ UNCHANGED chrome
     ELSE IF m.kind = "failed" /\ panel.state \notin {"failed", "completed", "dismissed"}
             /\ (Same(m) \/ (panel.state = "idle" /\ panel.asked /\ m.rev = 0))
     THEN panel' = [panel EXCEPT !.state = "failed", !.decision = FALSE, !.asked = FALSE]
          /\ chrome' = Finalized
     ELSE IF m.kind \in DOMAIN Steps /\ Same(m) /\ Backed(m) /\ panel.state = Steps[m.kind][1]
     THEN /\ panel' = [panel EXCEPT !.state = Steps[m.kind][2], !.decision = m.kind = "eligible"]
          /\ chrome' = (IF m.kind = "eligible" THEN Finalized ELSE chrome)
     ELSE UNCHANGED <<panel, chrome>>

ChromeReady(m) ==
  /\ UNCHANGED <<panel, toHost>>
  /\ IF panel.state = "reviewing" /\ Same(m) /\ chrome.owner = 0
     THEN chrome' = [NoChrome EXCEPT !.owner = panel.port, !.adapter = "open"]
     ELSE UNCHANGED chrome

SessionReady ==
  /\ panel' = [Withdrawn(panel) EXCEPT !.status = "ready"] /\ chrome' = Revoked
  /\ LastWord("provenance-drift")

\* the listener compares the port it was made for
Deliver(c) ==
  /\ toPanel[c] # <<>> /\ toPanel' = [toPanel EXCEPT ![c] = Tail(@)]
  /\ UNCHANGED <<attempts, hosts>>
  /\ LET m == Head(toPanel[c]) IN
     IF panel.port # c THEN UNCHANGED <<panel, chrome, toHost>>
     ELSE IF m.kind = "ready" THEN SessionReady
     ELSE IF m.kind = "chromeReady" THEN ChromeReady(m) ELSE Lifecycle(m)

-----------------------------------------------------------------------------
(* The host: the router and the answers of its coordinator.                 *)
Emit(c, kind) ==
  toPanel' = [toPanel EXCEPT ![c] = Append(@, [kind |-> kind,
                rev |-> IF router'[c].bound THEN c ELSE 0])]

Takes(c, m) ==
  /\ router[c].busy = "no"
  /\ \/ m.kind = "status" /\ router[c].state = "idle"
     \/ /\ m.rev = c /\ router[c].bound
        /\ \/ m.kind = "start" /\ router[c].state = "available"
           \/ m.kind = "navigate" /\ router[c].state = "failed"
           \/ m.kind = "accept" /\ router[c].state = "eligible" /\ router[c].grant
           \/ m.kind = "reject" /\ router[c].state = "eligible" /\ router[c].rejection

\* the state a command moves the router to before its first await
Begun(c, m) ==
  IF m.kind = "start" THEN [router[c] EXCEPT !.busy = "start", !.state = "reviewing"]
  ELSE IF m.kind \in {"accept", "reject"}
  THEN [router[c] EXCEPT !.busy = m.kind, !.grant = FALSE, !.rejection = FALSE,
          !.state = IF m.kind = "accept" THEN "activating" ELSE "rejected"]
  ELSE [router[c] EXCEPT !.busy = m.kind]

RouterHandles(c) ==
  /\ up[c] /\ toHost[c] # <<>> /\ toHost' = [toHost EXCEPT ![c] = Tail(@)]
  /\ UNCHANGED <<panel, attempts, chrome, up, readies, silent>>
  /\ LET m == Head(toHost[c]) IN
     IF m.kind \in {"chromeResult", "chromeStop"}
     THEN /\ stage' = [stage EXCEPT ![c] =
                         IF @ = "asked" /\ m.kind = "chromeResult" THEN "result"
                         ELSE IF @ \in {"asked", "result"} /\ m.kind = "chromeStop"
                         THEN "stopped" ELSE @]
          /\ UNCHANGED <<router, toPanel>>
     ELSE IF Takes(c, m)
     THEN /\ router' = [router EXCEPT ![c] = Begun(c, m)] /\ UNCHANGED stage
          /\ IF m.kind = "start" THEN Emit(c, "started")
             ELSE IF m.kind = "accept" THEN Emit(c, "activating") ELSE UNCHANGED toPanel
     ELSE UNCHANGED <<router, stage, toPanel>>

\* the answer settles the command: fail() is silent while a Chrome
\* finalization is pending
Answered(c, state) == router' = [router EXCEPT ![c].state = state, ![c].busy = "no"]
Fail(c) ==
  /\ router' = [router EXCEPT ![c].state = "failed", ![c].busy = "no",
                              ![c].grant = FALSE, ![c].rejection = FALSE]
  /\ UNCHANGED stage
  /\ \/ Emit(c, "failed") /\ UNCHANGED silent
     \/ /\ stage[c] \in {"asked", "result", "stopped"}
        /\ silent' = [silent EXCEPT ![c] = TRUE] /\ UNCHANGED toPanel

StatusReturns(c) ==
  /\ up[c] /\ router[c].busy = "status"
  /\ UNCHANGED <<panel, attempts, chrome, up, toHost, readies>>
  /\ \/ Answered(c, "idle") /\ UNCHANGED <<stage, silent, toPanel>>    \* unavailable
     \/ /\ router' = [router EXCEPT ![c].state = "available", ![c].bound = TRUE, ![c].busy = "no"]
        /\ Emit(c, "available") /\ UNCHANGED <<stage, silent>>
     \/ Fail(c)

\* the Chrome stage of startReview, whose packet needs a session
AsksChrome(c) ==
  /\ up[c] /\ router[c].busy = "start" /\ stage[c] = "none" /\ readies[c] > 0
  /\ stage' = [stage EXCEPT ![c] = "asked"]
  /\ router' = router /\ Emit(c, "chromeReady")
  /\ UNCHANGED <<panel, attempts, chrome, up, toHost, readies, silent>>

StartReturns(c) ==
  /\ up[c] /\ router[c].busy = "start"
  /\ UNCHANGED <<panel, attempts, chrome, up, toHost, readies>>
  /\ \/ /\ stage[c] \in {"none", "result"} /\ readies[c] > 0
        /\ router' = [router EXCEPT ![c].state = "eligible", ![c].grant = TRUE,
                                    ![c].rejection = TRUE, ![c].busy = "no"]
        /\ stage' = [stage EXCEPT ![c] = "done"] /\ Emit(c, "eligible") /\ UNCHANGED silent
     \/ Fail(c)

DecisionReturns(c) ==
  /\ up[c] /\ router[c].busy \in {"accept", "reject"}
  /\ UNCHANGED <<panel, attempts, chrome, up, toHost, readies>>
  /\ \/ /\ router[c].busy = "accept" /\ UNCHANGED <<stage, silent>>
        /\ \/ Answered(c, "completed") /\ Emit(c, "completed")
           \/ Answered(c, "failed") /\ Emit(c, "rolledBack")
     \/ router[c].busy = "reject" /\ Answered(c, "rejected") /\ UNCHANGED <<stage, silent, toPanel>>
     \/ Fail(c)

NavigateReturns(c) ==
  /\ up[c] /\ router[c].busy = "navigate"
  /\ UNCHANGED <<panel, attempts, chrome, up, toHost, readies>>
  /\ \/ Answered(c, "failed") /\ UNCHANGED <<stage, silent, toPanel>>
     \/ Fail(c)

\* relayed when the conversation opens and when an activation refreshed it
HostReady(c) ==
  /\ up[c] /\ (readies[c] = 0 \/ (readies[c] = 1 /\ router[c].busy = "accept"))
  /\ readies' = [readies EXCEPT ![c] = @ + 1]
  /\ toPanel' = [toPanel EXCEPT ![c] = Append(@, [kind |-> "ready", rev |-> 0])]
  /\ UNCHANGED <<panel, attempts, chrome, up, toHost, router, stage, silent>>

\* stdin ended, a signal or a failure: close latches the router
HostExits(c) ==
  /\ up[c] /\ up' = [up EXCEPT ![c] = FALSE] /\ toHost' = [toHost EXCEPT ![c] = <<>>]
  /\ UNCHANGED <<panel, attempts, chrome, toPanel, router, stage, readies, silent>>

HostStep(c) == \/ RouterHandles(c) \/ StatusReturns(c) \/ AsksChrome(c) \/ StartReturns(c)
               \/ DecisionReturns(c) \/ NavigateReturns(c)

Next ==
  \/ Reconnect \/ PageHides \/ PortDisconnects
  \/ StartReview \/ Choose("accept") \/ Choose("reject") \/ OpenReview \/ Dismiss \/ Stop
  \/ AdapterAnswers \/ AdapterFails \/ AdapterExpires
  \/ \E c \in Conn : \/ ConnectDone(c) \/ ConnectFails(c) \/ Deliver(c) \/ HostStep(c)
                     \/ HostReady(c) \/ HostExits(c)

\* The page's tasks run, the router reads its pipe, and each call of the
\* coordinator returns; no fairness for the user, the model or the host's end.
Fairness ==
  /\ WF_vars(PortDisconnects)
  /\ \A c \in Conn : /\ WF_vars(ConnectDone(c)) /\ WF_vars(Deliver(c))
                     /\ WF_vars(RouterHandles(c)) /\ WF_vars(StatusReturns(c))
                     /\ WF_vars(StartReturns(c)) /\ WF_vars(DecisionReturns(c))
                     /\ WF_vars(NavigateReturns(c))
Spec == Init /\ [][Next]_vars /\ Fairness

-----------------------------------------------------------------------------

\* A click the panel let through is taken by the router, not lost to its busy
\* gate or to a grant already spent.
NoClickLost ==
  \A c \in Conn :
    up[c] /\ toHost[c] # <<>> /\ Head(toHost[c]).kind \in {"start", "accept", "reject"}
      => Takes(c, Head(toHost[c]))

\* Nothing of an earlier connection decides anything: the card's review and
\* the Chrome owner are those of the current port.
OnlyThisConnection ==
  /\ panel.review # 0 => panel.review = panel.port
  /\ chrome.owner # 0 => chrome.owner = panel.port

\* Once the Chrome review was stopped or replaced, no decision can be clicked.
StopWithdraws == chrome.revoked => ~panel.decision /\ panel.state # "eligible"

\* A card that waits for an answer gets one, unless the router kept a failure
\* to itself, or its eligibility was dropped here because the Chrome review
\* ended while it was in the pipe.
Waiting == panel.state \in {"requested", "reviewing", "accepting", "activating"}
Unanswered == panel.port # 0 /\
  \/ silent[panel.port]
  \/ panel.state = "reviewing" /\ chrome.owner # 0 /\ router[panel.port].state = "eligible"
     /\ (chrome.revoked \/ chrome.adapter = "failed")
ReviewSettles == Waiting ~> (~Waiting \/ Unanswered)

\* The amendment's security model (line 325): the emergency stop aborts the
\* review transaction.
StopAborts ==
  \A c \in Conn : (chrome.owner = c /\ chrome.revoked /\ router[c].state = "eligible")
                    ~> (~up[c] \/ router[c].state # "eligible" \/ panel.port # c)
=============================================================================
