----------------------------- MODULE AgentTurns -----------------------------
(***************************************************************************)
(* One connection of the panel's conversation: the composer and its Stop   *)
(* button (extension/sidepanel.js, sidepanel-controller.js), the native    *)
(* host with its serial message queue (native-host/host.js), the client of *)
(* the agent process (app-server-client.js, or grok-agent-client.js when   *)
(* acp) and, external, the agent.  Both pipes are FIFO.  An app-server     *)
(* turn is numbered by the agent, an ACP turn by the client; either way a  *)
(* turn is known here by the number of the text that started it.           *)
(***************************************************************************)
EXTENDS Naturals, Sequences, FiniteSets

CONSTANTS MaxTurns,     \* bound: texts sent
          MaxStops,     \* bound: presses of Stop
          MaxAsks       \* bound: server requests of the agent

ASSUME ConstantsAssumption ==
  MaxTurns \in Nat /\ MaxStops \in Nat /\ MaxAsks \in Nat

VARIABLES
  panel,                \* [active, busy, shown, card]: see TypeOK
  used,                 \* [turns, stops, asks] so far, against the bounds
  toHost, toPanel,      \* browser messages (a start with its text) and browser events
  hostUp,
  call,                 \* what the message handler awaits, or "idle"
  thread,               \* #threadId is set
  turn, answered,       \* #turnId; the resolved turn/start, not yet resumed
  waiters, stored,      \* #turnWaiters, #completedTurns
  prompts,              \* ACP: session/prompt requests in #pending
  ended,                \* history: turns whose end the client handled
  inbox, lines,         \* the agent's stdin and stdout
  acp,                  \* which client createBackend made
  agentUp, exited,      \* it runs; its exit event was handled
  running, owes         \* turns it works on; started ones not yet answered

client == <<call, thread, turn, answered, waiters, stored, prompts, ended>>
agent  == <<acp, agentUp, running, owes>>
pipes  == <<inbox, lines, exited>>
vars == <<panel, used, toHost, toPanel, hostUp, client, agent, pipes>>

Turn == 1 .. MaxTurns
Msg(kind, t) == [kind |-> kind, turn |-> t]

TypeOK ==
  /\ panel \in [active : BOOLEAN, busy : BOOLEAN, card : 0 .. MaxTurns,
                shown : {"connecting", "ready", "thinking", "stopped",
                         "unavailable", "disconnected"}]
  /\ used \in [turns : 0 .. MaxTurns, stops : 0 .. MaxStops, asks : 0 .. MaxAsks]
  /\ toHost \in Seq([kind : {"open", "start", "interrupt"}, turn : 0 .. MaxTurns])
  /\ call \in {"idle", "init", "resume", "new", "start", "interrupt"}
  /\ thread \in BOOLEAN /\ hostUp \in BOOLEAN /\ agentUp \in BOOLEAN /\ exited \in BOOLEAN
  /\ turn \in 0 .. MaxTurns /\ answered \in 0 .. MaxTurns
  /\ \A s \in {waiters, stored, prompts, ended, running, owes} : s \subseteq Turn
  /\ exited => ~agentUp
  /\ answered # 0 => call = "start" /\ ~acp
  /\ acp \in BOOLEAN

-----------------------------------------------------------------------------
(* The client. *)
Emit(kind, t) == toPanel' = Append(toPanel, Msg(kind, t))
Ask(kind, t)  == inbox' = Append(inbox, Msg(kind, t))      \* #write

\* mistakes the code could have made: any end clears #turnId, or the event
\* is only sent to a waiter
CompleteAnyTurn(t) ==
  /\ waiters' = waiters \ {t}
  /\ stored' = IF t \in waiters THEN stored ELSE stored \cup {t}
  /\ turn' = 0
  /\ ended' = ended \cup {t}
  /\ Emit("completed", t)
CompleteSilently(t) ==
  /\ waiters' = waiters \ {t}
  /\ stored' = IF t \in waiters THEN stored ELSE stored \cup {t}
  /\ turn' = IF t = turn THEN 0 ELSE turn
  /\ ended' = ended \cup {t}
  /\ IF t \in waiters THEN Emit("completed", t) ELSE UNCHANGED toPanel
\* #completeTurn, and the turn/completed notification
CompleteTurn(t) ==
  /\ waiters' = waiters \ {t}
  /\ stored' = IF t \in waiters THEN stored ELSE stored \cup {t}
  /\ turn' = IF t = turn THEN 0 ELSE turn
  /\ ended' = ended \cup {t}
  /\ Emit("completed", t)

-----------------------------------------------------------------------------
(* The host handles one browser message at a time.                         *)
Handling(m) == hostUp /\ call = "idle" /\ toHost # <<>> /\ Head(toHost).kind = m
Taken       == toHost' = Tail(toHost) /\ UNCHANGED <<panel, used, hostUp, agent, lines, exited>>

\* mistakes the code could have made
InterruptAndAwait ==
  /\ acp /\ Handling("interrupt") /\ Taken /\ turn # 0 /\ ~exited
  /\ Ask("cancel", 0)
  /\ UNCHANGED <<toPanel, client>>
ResumeIgnoringEnd ==
  /\ hostUp /\ answered # 0
  /\ call' = "idle" /\ answered' = 0 /\ turn' = answered
  /\ waiters' = waiters \cup {answered} /\ UNCHANGED stored
  /\ UNCHANGED <<panel, used, toHost, toPanel, hostUp, thread, prompts, ended, agent, pipes>>
\* session.open: ensureBackend, spawn, initialize
Open ==
  /\ Handling("open") /\ Taken /\ ~exited
  /\ Ask("init", 0) /\ call' = "init"
  /\ UNCHANGED <<toPanel, thread, turn, answered, waiters, stored, prompts, ended>>

\* turn.start; the app-server's answer is awaited
StartTurn ==
  /\ ~acp /\ Handling("start") /\ Taken /\ thread /\ turn = 0 /\ ~exited
  /\ Ask("prompt", Head(toHost).turn) /\ call' = "start"
  /\ UNCHANGED <<toPanel, thread, turn, answered, waiters, stored, prompts, ended>>

\* ... and an ACP prompt is not; written to a dead agent it fails after the
\* turn was announced, and the client keeps the turn
StartAcpTurn ==
  /\ acp /\ Handling("start") /\ Taken /\ thread /\ turn = 0
  /\ LET t == Head(toHost).turn IN
     /\ turn' = t /\ waiters' = waiters \cup {t}
     /\ IF exited
        THEN /\ toPanel' = toPanel \o <<Msg("started", t), Msg("error", 0)>>
             /\ UNCHANGED <<inbox, prompts>>
        ELSE /\ Emit("started", t) /\ Ask("prompt", t)
             /\ prompts' = prompts \cup {t}
  /\ UNCHANGED <<call, thread, answered, stored, ended>>

InterruptTurn ==
  /\ ~acp /\ Handling("interrupt") /\ Taken /\ thread /\ turn # 0 /\ ~exited
  /\ Ask("interrupt", turn) /\ call' = "interrupt"
  /\ UNCHANGED <<toPanel, thread, turn, answered, waiters, stored, prompts, ended>>

\* session/cancel asks for no answer: the turn is complete at once
InterruptAcpTurn ==
  /\ acp /\ Handling("interrupt") /\ Taken /\ thread /\ turn # 0 /\ ~exited
  /\ Ask("cancel", 0) /\ CompleteTurn(turn)
  /\ UNCHANGED <<call, thread, answered, prompts>>

\* everything else is refused by the client and becomes an error event
Refuse ==
  /\ \E m \in {"open", "start", "interrupt"} : Handling(m)
  /\ Taken
  /\ LET m == Head(toHost).kind IN
     \/ m = "open" /\ exited
     \/ m = "start" /\ (~thread \/ turn # 0 \/ (exited /\ ~acp))
     \/ m = "interrupt" /\ (~thread \/ turn = 0 \/ exited)
  /\ Emit("error", 0)
  /\ UNCHANGED <<client, inbox>>

-----------------------------------------------------------------------------
(* The client reads a line.  Once the exit was handled nothing is pending,  *)
(* and an answer finds no request.                                          *)
Line(kind) == hostUp /\ lines # <<>> /\ Head(lines).kind = kind
Read == lines' = Tail(lines) /\ UNCHANGED <<panel, used, toHost, hostUp, agent, exited>>

\* start and openSession go on; interruptTurn returns
Answered ==
  /\ Line("ok") /\ Read /\ ~exited
  /\ \/ /\ call = "init"
        /\ \E c \in {"resume", "new"} : call' = c /\ Ask(c, 0)
        /\ UNCHANGED <<toPanel, thread>>
     \/ /\ call \in {"resume", "new"}
        /\ thread' = TRUE /\ call' = "idle" /\ Emit("ready", 0) /\ UNCHANGED inbox
     \/ /\ call = "interrupt" /\ call' = "idle" /\ UNCHANGED <<toPanel, thread, inbox>>
  /\ UNCHANGED <<turn, answered, waiters, stored, prompts, ended>>

\* a refused request fails the handler; ACP resumes nothing and opens afresh
Refused ==
  /\ Line("refused") /\ Read /\ ~exited
  /\ IF acp /\ call = "resume"
     THEN call' = "new" /\ Ask("new", 0) /\ UNCHANGED toPanel
     ELSE call' = "idle" /\ Emit("error", 0) /\ UNCHANGED inbox
  /\ UNCHANGED <<thread, turn, answered, waiters, stored, prompts, ended>>

\* the answer to turn/start resolves a promise ...
Response ==
  /\ Line("response") /\ Read /\ ~exited
  /\ answered' = Head(lines).turn
  /\ UNCHANGED <<toPanel, inbox, call, thread, turn, waiters, stored, prompts, ended>>

\* ... and startTurn resumes, after whatever lines came in the same chunk
ResumeStart ==
  /\ hostUp /\ answered # 0
  /\ call' = "idle" /\ answered' = 0
  /\ IF answered \in stored
     THEN turn' = 0 /\ stored' = stored \ {answered} /\ UNCHANGED waiters
     ELSE turn' = answered /\ waiters' = waiters \cup {answered} /\ UNCHANGED stored
  /\ UNCHANGED <<panel, used, toHost, toPanel, hostUp, thread, prompts, ended, agent, pipes>>

Started ==
  /\ Line("started") /\ Read
  /\ turn' = Head(lines).turn /\ Emit("started", turn')
  /\ UNCHANGED <<inbox, call, thread, answered, waiters, stored, prompts, ended>>

\* session/update carries no turn, so ACP stamps the client's and drops
\* what comes without one
Delta ==
  /\ Line("delta") /\ Read
  /\ LET t == IF acp THEN turn ELSE Head(lines).turn IN
     IF t = 0 THEN UNCHANGED toPanel ELSE Emit("delta", t)
  /\ UNCHANGED <<inbox, client>>

\* turn/completed; for ACP the answer to session/prompt
Completed ==
  /\ Line("completed") /\ Read
  /\ acp => Head(lines).turn \in prompts
  /\ CompleteTurn(Head(lines).turn) /\ prompts' = prompts \ {Head(lines).turn}
  /\ UNCHANGED <<inbox, call, thread, answered>>

\* an ACP prompt answered with an error rejects a promise nobody awaits, which
\* ends the host, unless the turn was interrupted before
PromptFailed ==
  /\ Line("failed") /\ lines' = Tail(lines) /\ ~exited
  /\ LET t == Head(lines).turn IN
     /\ waiters' = waiters \ {t} /\ prompts' = prompts \ {t}
     /\ turn' = IF t = turn THEN 0 ELSE turn
     /\ ended' = ended \cup {t}
     /\ IF t \in waiters
        THEN hostUp' = FALSE /\ Emit("closed", 0)
        ELSE UNCHANGED <<hostUp, toPanel>>
  /\ UNCHANGED <<panel, used, toHost, call, thread, answered, stored, agent, inbox, exited>>

\* a capability the sidecar excludes is declined; declining to a process whose
\* exit was seen throws in the line handler and ends the host
ServerRequest ==
  /\ Line("ask") /\ lines' = Tail(lines)
  /\ IF exited
     THEN /\ hostUp' = FALSE /\ UNCHANGED inbox
          /\ toPanel' = toPanel \o <<Msg("violation", 0), Msg("closed", 0)>>
     ELSE Ask("declined", 0) /\ Emit("violation", 0) /\ UNCHANGED hostUp
  /\ UNCHANGED <<panel, used, toHost, client, agent, exited>>

\* an answer for nobody
Unmatched ==
  /\ hostUp /\ lines # <<>> /\ Read
  /\ \/ exited /\ Head(lines).kind \in {"ok", "refused", "response", "failed"}
     \/ exited /\ acp /\ Line("completed") /\ Head(lines).turn \notin prompts
  /\ UNCHANGED <<toPanel, inbox, client>>

\* #failAll: pending requests and waiters are rejected; a waiter's promise is
\* awaited by nobody, so its rejection ends the host
FailAll ==
  /\ hostUp /\ ~agentUp /\ ~exited /\ answered = 0
  /\ exited' = TRUE /\ call' = "idle" /\ prompts' = {} /\ waiters' = {}
  /\ turn' = IF turn \in prompts THEN 0 ELSE turn
  /\ toPanel' = toPanel \o <<Msg("error", 0)>>
                        \o (IF call = "idle" THEN <<>> ELSE <<Msg("error", 0)>>)
                        \o (IF waiters = {} THEN <<>> ELSE <<Msg("closed", 0)>>)
  /\ hostUp' = (waiters = {})
  /\ UNCHANGED <<panel, used, toHost, thread, answered, stored, ended, agent, inbox, lines>>

-----------------------------------------------------------------------------
(* The agent, external: it answers requests in order, streams, finishes,    *)
(* asks and dies.                                                           *)
Working == agentUp /\ UNCHANGED <<panel, used, toHost, toPanel, hostUp, client, acp, agentUp, exited>>
Say(ls) == lines' = lines \o ls

AgentReads ==
  /\ Working /\ inbox # <<>> /\ inbox' = Tail(inbox)
  /\ LET m == Head(inbox) IN
     \/ /\ m.kind \in {"init", "resume", "new"}
        /\ \E r \in {"ok", "refused"} : Say(<<Msg(r, 0)>>)
        /\ UNCHANGED <<running, owes>>
     \/ /\ m.kind = "prompt" /\ acp
        /\ \/ running' = running \cup {m.turn} /\ UNCHANGED lines
           \/ Say(<<Msg("failed", m.turn)>>) /\ UNCHANGED running
        /\ UNCHANGED owes
     \/ /\ m.kind = "prompt" /\ ~acp
        /\ LET t == m.turn IN
           \/ running' = running \cup {t} /\ owes' = owes \cup {t}
              /\ Say(<<Msg("started", t)>>)
           \/ running' = running \cup {t} /\ UNCHANGED owes
              /\ Say(<<Msg("response", t), Msg("started", t)>>)
           \/ Say(<<Msg("refused", 0)>>) /\ UNCHANGED <<running, owes>>
     \/ /\ m.kind = "interrupt" /\ UNCHANGED owes
        /\ IF m.turn \in running
           THEN /\ running' = running \ {m.turn}
                /\ \/ Say(<<Msg("ok", 0), Msg("completed", m.turn)>>)
                   \/ Say(<<Msg("completed", m.turn), Msg("ok", 0)>>)
           ELSE Say(<<Msg("refused", 0)>>) /\ UNCHANGED running
     \/ m.kind \in {"cancel", "declined"} /\ UNCHANGED <<lines, running, owes>>

AgentResponds(t) ==
  /\ Working /\ t \in owes /\ owes' = owes \ {t} /\ Say(<<Msg("response", t)>>)
  /\ UNCHANGED <<inbox, running>>

AgentStreams(t) ==
  /\ Working /\ t \in running /\ Say(<<Msg("delta", t)>>)
  /\ \A k \in DOMAIN lines : lines[k].kind # "delta"       \* bound
  /\ \A k \in DOMAIN toPanel : toPanel[k].kind # "delta"   \* bound
  /\ UNCHANGED <<inbox, running, owes>>

AgentFinishes(t) ==
  /\ Working /\ t \in running /\ running' = running \ {t}
  /\ Say(<<Msg("completed", t)>>)
  /\ UNCHANGED <<inbox, owes>>

AgentAsks ==
  /\ agentUp /\ running # {} /\ used.asks < MaxAsks
  /\ used' = [used EXCEPT !.asks = @ + 1] /\ Say(<<Msg("ask", 0)>>)
  /\ UNCHANGED <<panel, toHost, toPanel, hostUp, client, agent, inbox, exited>>

AgentDies ==
  /\ agentUp /\ agentUp' = FALSE /\ running' = {} /\ owes' = {}
  /\ UNCHANGED <<panel, used, toHost, toPanel, hostUp, client, acp, pipes>>

HostDies ==
  /\ hostUp /\ hostUp' = FALSE /\ Emit("closed", 0)
  /\ UNCHANGED <<panel, used, toHost, client, agent, pipes>>

-----------------------------------------------------------------------------
(* The panel. *)
Connected == panel.shown # "disconnected"
UI == UNCHANGED <<used, toHost, hostUp, client, agent, pipes>>

\* sendCurrentText: the composer is enabled and sendTurn accepts
Send ==
  /\ Connected /\ ~panel.busy /\ ~panel.active /\ used.turns < MaxTurns
  /\ used' = [used EXCEPT !.turns = @ + 1]
  /\ toHost' = Append(toHost, Msg("start", used'.turns))
  /\ panel' = [panel EXCEPT !.busy = TRUE]
  /\ UNCHANGED <<toPanel, hostUp, client, agent, pipes>>

\* emergencyStop: an interrupt only for a turn the panel knows to be active
Stop ==
  /\ Connected /\ panel.busy /\ used.stops < MaxStops
  /\ used' = [used EXCEPT !.stops = @ + 1]
  /\ toHost' = IF panel.active THEN Append(toHost, Msg("interrupt", 0)) ELSE toHost
  /\ panel' = [panel EXCEPT !.shown = "stopped"]
  /\ UNCHANGED <<toPanel, hostUp, client, agent, pipes>>

\* handleEvent and the controller's #handleMessage
Shows(e) ==
  [panel EXCEPT
     !.active = IF e.kind = "started" THEN TRUE
                ELSE IF e.kind \in {"ready", "completed", "closed"} THEN FALSE ELSE @,
     !.busy = IF e.kind = "started" THEN TRUE
              ELSE IF e.kind \in {"ready", "completed", "closed"} THEN FALSE
              ELSE IF e.kind = "error" THEN panel.active ELSE @,
     !.shown = IF e.kind = "started" THEN "thinking"
               ELSE IF e.kind \in {"ready", "completed"} THEN "ready"
               ELSE IF e.kind = "closed" THEN "disconnected"
               ELSE IF e.kind = "error" THEN "unavailable" ELSE @,
     !.card = IF e.kind = "started" THEN e.turn
              ELSE IF e.kind = "completed" THEN 0
              ELSE IF e.kind = "delta" /\ @ = 0 THEN e.turn ELSE @]
PanelReads ==
  /\ Connected /\ toPanel # <<>> /\ toPanel' = Tail(toPanel)
  /\ panel' = Shows(Head(toPanel)) /\ UI

-----------------------------------------------------------------------------
Init ==
  /\ panel = [active |-> FALSE, busy |-> FALSE, shown |-> "connecting", card |-> 0]
  /\ used = [turns |-> 0, stops |-> 0, asks |-> 0]
  /\ toHost = <<Msg("open", 0)>> /\ toPanel = <<>> /\ hostUp = TRUE
  /\ call = "idle" /\ thread = FALSE /\ turn = 0 /\ answered = 0
  /\ waiters = {} /\ stored = {} /\ prompts = {} /\ ended = {}
  /\ inbox = <<>> /\ lines = <<>> /\ agentUp = TRUE /\ exited = FALSE
  /\ running = {} /\ owes = {} /\ acp \in BOOLEAN

Handle == Open \/ StartTurn \/ StartAcpTurn \/ InterruptTurn \/ InterruptAcpTurn \/ Refuse
ReadLine ==
  \/ Answered \/ Refused \/ Response \/ ResumeStart
  \/ Started \/ Delta \/ Completed \/ PromptFailed \/ ServerRequest \/ Unmatched
  \/ FailAll

Next ==
  \/ Handle \/ ReadLine \/ PanelReads \/ Send \/ Stop \/ AgentReads
  \/ \E t \in Turn : AgentStreams(t) \/ AgentResponds(t) \/ AgentFinishes(t)
  \/ AgentAsks \/ AgentDies \/ HostDies

\* The event loops run; an app-server does what it is asked while it lives.  Of
\* an ACP agent nothing is assumed.
HostFairness == WF_vars(Handle) /\ WF_vars(ReadLine) /\ WF_vars(PanelReads)
AgentFairness ==
  /\ WF_vars(~acp /\ AgentReads)
  /\ \A t \in Turn : WF_vars(~acp /\ AgentResponds(t)) /\ WF_vars(~acp /\ AgentFinishes(t))
Spec == Init /\ [][Next]_vars /\ HostFairness /\ AgentFairness

-----------------------------------------------------------------------------
\* #turnId never names a turn that already ended, in whatever order the answer
\* to turn/start, the notifications and an interrupt come: such a turn would
\* never end again and every later text would be refused.
NoPhantomTurn == turn \notin ended

\* Once nothing is under way, Stop is offered exactly when the app-server client
\* has a turn.  (With the ACP client a late answer ends the next turn for the
\* panel: PanelFollowsAcp does not hold.)
Quiet == hostUp /\ call = "idle" /\ toHost = <<>> /\ toPanel = <<>> /\ lines = <<>>
PanelFollows    == Quiet /\ ~acp => (panel.active <=> turn # 0)
PanelFollowsAcp == Quiet /\ acp => (panel.active <=> turn # 0)

\* #turnId is given up only for the end of that very turn: a late answer about
\* an earlier one does not touch it.
OwnEndOnly == [][(turn # 0 /\ turn' # turn) => turn \in ended' \/ exited']_vars

\* What the panel believes active ends, or the panel says it is unavailable, as
\* long as the app-server lives.
Down == panel.shown \in {"unavailable", "disconnected"}
TurnSettles == (panel.active /\ ~acp) ~> (~panel.active \/ Down \/ ~agentUp)

\* Stop during an active ACP turn ends it for the panel even if the agent never
\* answers again (interruptTurn of that client).
StopEndsTurn ==
  (acp /\ \E k \in DOMAIN toHost : toHost[k].kind = "interrupt") ~> (~panel.active \/ Down)

\* "The UI stays stopped until app-server reports the turn as interrupted or
\* the native connection closes." (docs/design.md:76)
StopIsKept ==
  [][(panel.shown = "stopped" /\ panel'.shown # "stopped")
       => Head(toPanel).kind \in {"completed", "closed"}]_vars

\* "error states report honest `Unavailable`" (docs/browser-session-continuity.md):
\* a panel that was told of the agent's exit does not show a turn or Ready again.
FailureIsShown == (Quiet /\ exited) => (Down \/ panel.shown = "stopped")
=============================================================================
