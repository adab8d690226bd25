-------------------------- MODULE AgentTurnsProofs --------------------------
(***************************************************************************)
(* What the run turns checks of the safety of one connection, for any      *)
(* number of texts, presses of Stop and requests of the agent: the client  *)
(* never holds a turn that has ended, gives one up only for its own end,   *)
(* and with the app-server client the panel offers Stop when there is a    *)
(* turn to stop.  The argument: a text that waits is later than all that   *)
(* is known; one request at a time is unanswered; and when the client      *)
(* takes a text nothing of an earlier turn is left to be read, so at most  *)
(* one turn is live, and it starts before it ends.                         *)
(***************************************************************************)
EXTENDS AgentTurns, SequenceTheorems, TLAPS

(* Messages, and what a pipe is asked.  Only a turn's own messages name it. *)
Request     == {"init", "resume", "new", "prompt", "interrupt"}
Answer      == {"ok", "refused", "response"}
OfTurn      == {"response", "started", "delta", "completed", "failed"}
Messages(K) == [kind : K, turn : 0 .. MaxTurns]
Clicking    == Messages({"open", "start", "interrupt"})
Asking      == Messages(Request \cup {"cancel", "declined"})
Saying      == Messages(Answer \cup OfTurn \cup {"ask"})
Showing     == Messages({"started", "delta", "completed", "ready", "error", "violation", "closed"})

Items(s)          == {s[k] : k \in DOMAIN s}
Holds(s, kind, t) == Msg(kind, t) \in Items(s)
Some(s, K)        == \E m \in Items(s) : m.kind \in K
Once(s, K)        == \A k, l \in DOMAIN s : s[k].kind \in K /\ s[l].kind \in K => k = l
Has(kind, t)      == Holds(lines, kind, t)
Heard(K)          == Some(lines, K)
Pending(K)        == Some(inbox, K)

(* Types, with what a missing agent and either client rule out.             *)
PanelRecord ==
  [active : BOOLEAN, busy : BOOLEAN, card : 0 .. MaxTurns,
   shown : {"connecting", "ready", "thinking", "stopped", "unavailable", "disconnected"}]
UsedRecord == [turns : 0 .. MaxTurns, stops : 0 .. MaxStops, asks : 0 .. MaxAsks]
ClientTypes ==
  /\ call \in {"idle", "init", "resume", "new", "start", "interrupt"}
  /\ thread \in BOOLEAN /\ hostUp \in BOOLEAN /\ agentUp \in BOOLEAN
  /\ exited \in BOOLEAN /\ acp \in BOOLEAN
  /\ turn \in 0 .. MaxTurns /\ answered \in 0 .. MaxTurns
  /\ waiters \subseteq Turn /\ stored \subseteq Turn /\ prompts \subseteq Turn
  /\ ended \subseteq Turn /\ running \subseteq Turn /\ owes \subseteq Turn
  /\ exited => ~agentUp /\ call = "idle"
  /\ answered # 0 => call = "start" /\ ~acp
  /\ ~agentUp => running = {} /\ owes = {}
  /\ acp => owes = {} /\ call # "start"
  /\ ~acp => prompts = {}
LineTypes ==
  /\ lines \in Seq(Saying)
  /\ \A k \in OfTurn : ~Has(k, 0)
  /\ acp => ~Heard({"response", "started"})
  /\ ~acp => ~Heard({"failed"})
InboxTypes == inbox \in Seq(Asking) /\ ~Holds(inbox, "prompt", 0)
Types ==
  /\ panel \in PanelRecord /\ used \in UsedRecord /\ ClientTypes
  /\ toHost \in Seq(Clicking) /\ toPanel \in Seq(Showing) /\ LineTypes /\ InboxTypes

(* A text that waits for the host is later than every turn there is.        *)
Known(t) ==
  \/ t \in ended \/ t \in running \/ t \in owes \/ t \in stored \/ t \in waiters \/ t \in prompts
  \/ t = turn \/ t = answered
  \/ \E k \in OfTurn : Has(k, t)
  \/ Holds(inbox, "prompt", t)
TextsOrdered(s) ==
  \A k, l \in DOMAIN s :
    s[k].kind = "start" /\ s[l].kind = "start" /\ k < l => s[k].turn < s[l].turn
TextsAreNew ==
  /\ \A t \in Turn : Known(t) => t <= used.turns
  /\ \A u \in 0 .. MaxTurns : Holds(toHost, "start", u) =>
       u \in 1 .. used.turns /\ \A t \in Turn : Known(t) => t < u
  /\ TextsOrdered(toHost)

(* The app-server's turn: what is still to be said of it, by whom.          *)
Owed(t) == t \in owes \/ Has("response", t) \/ answered = t
Live(t) == t \in running \/ Owed(t) \/ Has("started", t) \/ Has("completed", t) \/ turn = t
NoLive  == \A t \in Turn : ~Live(t)

(* One request at a time is unanswered.                                     *)
OneAnswer ==
  /\ Once(inbox, Request) /\ Once(lines, Answer)
  /\ Pending(Request) => ~Heard(Answer)
  /\ Pending(Request) \/ Heard(Answer) => owes = {} /\ answered = 0
  /\ owes # {} => answered = 0
  /\ Pending(Request) \/ Heard(Answer) \/ owes # {} \/ answered # 0 => call # "idle"
  /\ Pending({"prompt"}) \/ Heard({"response"}) \/ owes # {} \/ answered # 0 => call = "start"
  /\ Pending(Request \ {"prompt"}) => call # "start"

(* When the client takes a text nothing of an earlier turn is left.         *)
Phases ==
  /\ call # "start" /\ turn = 0 => NoLive
  /\ call = "start" /\ (Pending({"prompt"}) \/ Heard({"refused"})) => NoLive
  /\ call \in {"init", "resume", "new"} => ~thread
  /\ \A t \in Turn : Holds(inbox, "prompt", t) => t \notin ended /\ t \notin waiters

(* A turn starts, ends and is answered for once, and starts before it ends. *)
OneLive == \A t, u \in Turn : Live(t) /\ Live(u) => t = u
Ordered(s) ==
  \A k, l \in DOMAIN s :
    /\ s[k].turn = s[l].turn
    /\ s[k].kind \in {"started", "completed"} /\ s[l].kind \in {"started", "completed"}
    => /\ s[k].kind = s[l].kind => k = l
       /\ s[k].kind = "started" /\ s[l].kind = "completed" => k < l
Over ==
  /\ \A t \in ended : t \notin running /\ ~Has("started", t) /\ ~Has("completed", t)
  /\ \A t \in Turn : Has("completed", t) => t \notin running
  /\ stored \subseteq ended
OwedTurn ==
  \A t \in Turn : Owed(t) =>
    /\ t \notin waiters
    /\ t \in ended => t \in stored
    /\ t \notin ended /\ turn # t => Has("started", t)
Unopened == ~thread => turn = 0 /\ call # "start" /\ NoLive
Core ==
  /\ ~exited => OneAnswer /\ Phases
  /\ OneLive /\ Ordered(lines) /\ Over /\ OwedTurn /\ Unopened

(* The conversation is opened once.                                         *)
Opening ==
  /\ Once(toHost, {"open"})
  /\ Some(toHost, {"open"}) => ~thread /\ call = "idle"

(* What the panel will believe when it has read its events.                 *)
Tells == {"started", "ready", "completed", "closed"}
LastTells(s, active) ==
  IF \E k \in DOMAIN s : s[k].kind \in Tells
  THEN \E k \in DOMAIN s : s[k].kind = "started" /\ \A l \in DOMAIN s : l > k => s[l].kind \notin Tells
  ELSE active
Believes == LastTells(toPanel, panel.active)
Follows ==
  hostUp =>
    /\ panel.shown # "disconnected" /\ ~Some(toPanel, {"closed"})
    /\ Believes => turn # 0
    /\ turn # 0 => Believes \/ Has("started", turn)

Inductive ==
  /\ Types /\ TextsAreNew /\ NoPhantomTurn
  /\ ~acp => Core /\ Opening /\ Follows

-----------------------------------------------------------------------------
-----------------------------------------------------------------------------
(* Pipes: what they hold after a message was added or taken.                *)
LEMMA ItemsAdd ==
  ASSUME NEW S, NEW s \in Seq(S), NEW m \in S
  PROVE  /\ Items(Append(s, m)) = Items(s) \cup {m} /\ Append(s, m) \in Seq(S)
         /\ s \o <<m>> = Append(s, m)
  <1>1. /\ Len(Append(s, m)) = Len(s) + 1 /\ Append(s, m) \in Seq(S)
        /\ \A k \in 1 .. Len(s) : Append(s, m)[k] = s[k]
        /\ Append(s, m)[Len(s) + 1] = m
    OBVIOUS
  <1>2. Items(Append(s, m)) \subseteq Items(s) \cup {m}
    BY <1>1 DEF Items
  <1>3. \A k \in DOMAIN s : k \in DOMAIN Append(s, m) /\ Append(s, m)[k] = s[k]
    BY <1>1
  <1>4. Len(s) + 1 \in DOMAIN Append(s, m)
    BY <1>1
  <1>5. Items(s) \cup {m} \subseteq Items(Append(s, m))
    BY <1>1, <1>3, <1>4 DEF Items
  <1>6. s \o <<m>> = Append(s, m)
    OBVIOUS
  <1>. QED
    BY <1>1, <1>2, <1>5, <1>6

LEMMA ItemsTake ==
  ASSUME NEW S, NEW s \in Seq(S), s # <<>>
  PROVE  /\ Head(s) \in S /\ Tail(s) \in Seq(S)
         /\ Items(s) = {Head(s)} \cup Items(Tail(s))
  <1>1. /\ Tail(s) \in Seq(S) /\ Len(Tail(s)) = Len(s) - 1 /\ Len(s) > 0 /\ Head(s) = s[1]
        /\ 1 \in DOMAIN s /\ \A k \in 1 .. Len(s) - 1 : Tail(s)[k] = s[k + 1]
    OBVIOUS
  <1>2. \A k \in DOMAIN Tail(s) : k + 1 \in DOMAIN s /\ Tail(s)[k] = s[k + 1]
    BY <1>1
  <1>3. \A k \in DOMAIN s : k = 1 \/ (k - 1 \in DOMAIN Tail(s) /\ Tail(s)[k - 1] = s[k])
    BY <1>1
  <1>. QED
    BY <1>1, <1>2, <1>3 DEF Items

LEMMA OnceAdd ==
  ASSUME NEW S, NEW s \in Seq(S), NEW m \in S, NEW K, Once(s, K),
         m.kind \in K => \A x \in Items(s) : x.kind \notin K
  PROVE  Once(Append(s, m), K)
  BY DEF Once, Items

LEMMA OnceTake ==
  ASSUME NEW S, NEW s \in Seq(S), s # <<>>, NEW K, Once(s, K)
  PROVE  /\ Once(Tail(s), K)
         /\ Head(s).kind \in K => \A x \in Items(Tail(s)) : x.kind \notin K
  <1>1. \A k \in DOMAIN Tail(s) : k + 1 \in DOMAIN s /\ Tail(s)[k] = s[k + 1] /\ k + 1 # 1 /\ k \in Nat
    OBVIOUS
  <1>2. Head(s) = s[1] /\ 1 \in DOMAIN s
    OBVIOUS
  <1>3. Once(Tail(s), K)
    BY <1>1 DEF Once
  <1>4. Head(s).kind \in K => \A x \in Items(Tail(s)) : x.kind \notin K
    BY <1>1, <1>2 DEF Once, Items
  <1>. QED
    BY <1>3, <1>4

(* A message that is not the start of a turn, nor the end of one that ended *)
(* before, keeps the order.                                                 *)
LEMMA OrderedAdd ==
  ASSUME NEW S, NEW s \in Seq(S), NEW m \in S, Ordered(s),
         m.kind = "started" => \A x \in Items(s) :
             x.turn = m.turn => x.kind \notin {"started", "completed"},
         m.kind = "completed" => \A x \in Items(s) : x.turn = m.turn => x.kind # "completed"
  PROVE  Ordered(Append(s, m))
  <1>1. /\ Len(Append(s, m)) = Len(s) + 1 /\ DOMAIN Append(s, m) = 1 .. Len(s) + 1
        /\ DOMAIN s = 1 .. Len(s) /\ Len(s) \in Nat
        /\ \A k \in 1 .. Len(s) : Append(s, m)[k] = s[k]
        /\ Append(s, m)[Len(s) + 1] = m
    OBVIOUS
  <1>2. \A k \in 1 .. Len(s) + 1 : k = Len(s) + 1 \/ (k \in 1 .. Len(s) /\ k < Len(s) + 1)
    BY <1>1
  <1>3. \A k \in 1 .. Len(s) : s[k] \in Items(s)
    BY <1>1 DEF Items
  <1> SUFFICES ASSUME NEW k \in 1 .. Len(s) + 1, NEW l \in 1 .. Len(s) + 1,
                      Append(s, m)[k].turn = Append(s, m)[l].turn,
                      Append(s, m)[k].kind \in {"started", "completed"},
                      Append(s, m)[l].kind \in {"started", "completed"}
               PROVE  /\ Append(s, m)[k].kind = Append(s, m)[l].kind => k = l
                      /\ Append(s, m)[k].kind = "started" /\ Append(s, m)[l].kind = "completed" => k < l
    BY <1>1 DEF Ordered
  <1>4. CASE k = Len(s) + 1
    BY <1>1, <1>2, <1>3, <1>4
  <1>5. CASE k \in 1 .. Len(s) /\ l = Len(s) + 1
    BY <1>1, <1>2, <1>3, <1>5
  <1>6. CASE k \in 1 .. Len(s) /\ l \in 1 .. Len(s)
    BY <1>1, <1>6 DEF Ordered
  <1>. QED
    BY <1>2, <1>4, <1>5, <1>6

LEMMA OrderedTake ==
  ASSUME NEW S, NEW s \in Seq(S), s # <<>>, Ordered(s)
  PROVE  /\ Ordered(Tail(s))
         /\ Head(s).kind \in {"started", "completed"} =>
              \A x \in Items(Tail(s)) : x.turn = Head(s).turn => x.kind # Head(s).kind
         /\ Head(s).kind = "completed" =>
              \A x \in Items(Tail(s)) : x.turn = Head(s).turn => x.kind # "started"
  <1>1. \A k \in DOMAIN Tail(s) : k + 1 \in DOMAIN s /\ Tail(s)[k] = s[k + 1] /\ k + 1 # 1
                                  /\ k \in Nat /\ ~(k + 1 < 1)
    OBVIOUS
  <1>2. Head(s) = s[1] /\ 1 \in DOMAIN s
    OBVIOUS
  <1>3. Ordered(Tail(s))
    BY <1>1 DEF Ordered
  <1>4. Head(s).kind \in {"started", "completed"} =>
              \A x \in Items(Tail(s)) : x.turn = Head(s).turn => x.kind # Head(s).kind
    BY <1>1, <1>2 DEF Ordered, Items
  <1>5. Head(s).kind = "completed" =>
              \A x \in Items(Tail(s)) : x.turn = Head(s).turn => x.kind # "started"
    BY <1>1, <1>2 DEF Ordered, Items
  <1>. QED
    BY <1>3, <1>4, <1>5

(* The last word about the turn.                                            *)
LEMMA LastTellsAdd ==
  ASSUME NEW S, NEW s \in Seq(S), NEW m \in S, NEW active \in BOOLEAN
  PROVE  LastTells(Append(s, m), active)
           <=> IF m.kind \in Tells THEN m.kind = "started" ELSE LastTells(s, active)
  <1>1. /\ DOMAIN Append(s, m) = 1 .. Len(s) + 1 /\ DOMAIN s = 1 .. Len(s) /\ Len(s) \in Nat
        /\ \A k \in 1 .. Len(s) : Append(s, m)[k] = s[k]
        /\ Append(s, m)[Len(s) + 1] = m
    OBVIOUS
  <1>2. \A k \in 1 .. Len(s) + 1 : k = Len(s) + 1 \/ (k \in 1 .. Len(s) /\ k < Len(s) + 1)
    BY <1>1
  <1>3. Len(s) + 1 \in 1 .. Len(s) + 1 /\ \A k \in 1 .. Len(s) : k \in 1 .. Len(s) + 1
    BY <1>1
  <1>4. CASE m.kind \in Tells
    <2>1. \E k \in DOMAIN Append(s, m) : Append(s, m)[k].kind \in Tells
      BY <1>1, <1>3, <1>4
    <2>2. \A k \in 1 .. Len(s) : Len(s) + 1 > k
      BY <1>1
    <2>3. ~(\E l \in 1 .. Len(s) + 1 : l > Len(s) + 1)
      BY <1>1
    <2>4. (\E k \in DOMAIN Append(s, m) : Append(s, m)[k].kind = "started"
             /\ \A l \in DOMAIN Append(s, m) : l > k => Append(s, m)[l].kind \notin Tells)
          <=> m.kind = "started"
      BY <1>1, <1>2, <1>3, <1>4, <2>2, <2>3
    <2>. QED
      BY <1>4, <2>1, <2>4 DEF LastTells
  <1>5. CASE m.kind \notin Tells
    <2>1. (\E k \in DOMAIN Append(s, m) : Append(s, m)[k].kind \in Tells)
          <=> (\E k \in DOMAIN s : s[k].kind \in Tells)
      BY <1>1, <1>2, <1>3, <1>5
    <2>2. (\E k \in DOMAIN Append(s, m) : Append(s, m)[k].kind = "started"
             /\ \A l \in DOMAIN Append(s, m) : l > k => Append(s, m)[l].kind \notin Tells)
          <=> (\E k \in DOMAIN s : s[k].kind = "started"
             /\ \A l \in DOMAIN s : l > k => s[l].kind \notin Tells)
      BY <1>1, <1>2, <1>3, <1>5 DEF Tells
    <2>. QED
      BY <1>5, <2>1, <2>2 DEF LastTells
  <1>. QED
    BY <1>4, <1>5

LEMMA LastTellsTake ==
  ASSUME NEW S, NEW s \in Seq(S), s # <<>>, NEW active \in BOOLEAN, NEW now \in BOOLEAN,
         now <=> IF Head(s).kind \in Tells THEN Head(s).kind = "started" ELSE active
  PROVE  LastTells(Tail(s), now) <=> LastTells(s, active)
  <1>1. /\ DOMAIN Tail(s) = 1 .. Len(s) - 1 /\ DOMAIN s = 1 .. Len(s) /\ Len(s) \in Nat \ {0}
        /\ Head(s) = s[1] /\ \A k \in 1 .. Len(s) - 1 : Tail(s)[k] = s[k + 1]
    OBVIOUS
  <1>2. \A k \in 1 .. Len(s) : k = 1 \/ (k > 1 /\ k - 1 \in 1 .. Len(s) - 1 /\ Tail(s)[k - 1] = s[k])
    BY <1>1
  <1>3. 1 \in 1 .. Len(s) /\ \A k \in 1 .. Len(s) - 1 : k + 1 \in 1 .. Len(s) /\ k + 1 > 1
    BY <1>1
  <1>4. CASE \E k \in DOMAIN Tail(s) : Tail(s)[k].kind \in Tells
    <2>1. \E k \in DOMAIN s : s[k].kind \in Tells
      BY <1>1, <1>3, <1>4
    <2>2. ASSUME NEW k \in DOMAIN Tail(s), Tail(s)[k].kind = "started",
                 \A l \in DOMAIN Tail(s) : l > k => Tail(s)[l].kind \notin Tells
          PROVE  \E j \in DOMAIN s : s[j].kind = "started"
                    /\ \A l \in DOMAIN s : l > j => s[l].kind \notin Tells
      <3>1. k + 1 \in DOMAIN s /\ s[k + 1].kind = "started"
        BY <1>1, <1>3, <2>2
      <3>2. \A l \in 1 .. Len(s) : l > k + 1 => l # 1 /\ l - 1 > k
        BY <1>1
      <3>3. \A l \in DOMAIN s : l > k + 1 => s[l].kind \notin Tells
        <4> SUFFICES ASSUME NEW l \in DOMAIN s, l > k + 1 PROVE s[l].kind \notin Tells
          OBVIOUS
        <4>1. l # 1 /\ l - 1 > k
          BY <1>1, <3>2
        <4>2. l - 1 \in DOMAIN Tail(s) /\ Tail(s)[l - 1] = s[l]
          BY <1>1, <1>2, <4>1
        <4>. QED
          BY <2>2, <4>1, <4>2
      <3>. QED
        BY <3>1, <3>3
    <2>3. ASSUME NEW j \in DOMAIN s, s[j].kind = "started",
                 \A l \in DOMAIN s : l > j => s[l].kind \notin Tells
          PROVE  \E k \in DOMAIN Tail(s) : Tail(s)[k].kind = "started"
                    /\ \A l \in DOMAIN Tail(s) : l > k => Tail(s)[l].kind \notin Tells
      <3>1. j # 1
        BY <1>1, <1>3, <1>4, <2>3
      <3>2. j - 1 \in DOMAIN Tail(s) /\ Tail(s)[j - 1].kind = "started"
        BY <1>1, <1>2, <2>3, <3>1
      <3>3. \A l \in DOMAIN Tail(s) : l > j - 1 => l + 1 > j
        BY <1>1
      <3>4. \A l \in DOMAIN Tail(s) : l > j - 1 => Tail(s)[l].kind \notin Tells
        BY <1>1, <1>3, <2>3, <3>3
      <3>. QED
        BY <3>2, <3>4
    <2>. QED
      BY <1>4, <2>1, <2>2, <2>3 DEF LastTells
  <1>5. CASE ~\E k \in DOMAIN Tail(s) : Tail(s)[k].kind \in Tells
    <2>1. \A k \in DOMAIN s : s[k].kind \in Tells => k = 1
      BY <1>1, <1>2, <1>5
    <2>2. CASE Head(s).kind \in Tells
      <3>1. (\E k \in DOMAIN s : s[k].kind = "started"
               /\ \A l \in DOMAIN s : l > k => s[l].kind \notin Tells)
            <=> Head(s).kind = "started"
        BY <1>1, <1>2, <1>3, <1>5, <2>1 DEF Tells
      <3>. QED
        BY <1>1, <1>3, <1>5, <2>2, <3>1 DEF LastTells
    <2>3. CASE Head(s).kind \notin Tells
      BY <1>1, <1>3, <1>5, <2>1, <2>3 DEF LastTells
    <2>. QED
      BY <2>2, <2>3
  <1>. QED
    BY <1>4, <1>5

(* The same for the questions the invariant asks of a pipe.                 *)
LEMMA MsgIs ==
  ASSUME NEW K
  PROVE  /\ \A m \in Messages(K) : m = Msg(m.kind, m.turn) /\ m.kind \in K /\ m.turn \in 0 .. MaxTurns
         /\ \A k \in K, t \in 0 .. MaxTurns :
              Msg(k, t) \in Messages(K) /\ Msg(k, t).kind = k /\ Msg(k, t).turn = t
  BY DEF Messages, Msg

LEMMA MsgEqual == \A k, t, j, u : Msg(k, t) = Msg(j, u) <=> k = j /\ t = u
  BY DEF Msg

LEMMA PipeAdd ==
  ASSUME NEW J, NEW s \in Seq(Messages(J)), NEW m \in Messages(J)
  PROVE  /\ Append(s, m) \in Seq(Messages(J)) /\ s \o <<m>> = Append(s, m)
         /\ Items(Append(s, m)) = Items(s) \cup {m}
         /\ \A k, t : Holds(Append(s, m), k, t) <=> Holds(s, k, t) \/ (k = m.kind /\ t = m.turn)
         /\ \A K : Some(Append(s, m), K) <=> Some(s, K) \/ m.kind \in K
         /\ \A K : Once(s, K) /\ (m.kind \in K => ~Some(s, K)) => Once(Append(s, m), K)
         /\ Ordered(s)
            /\ (m.kind = "started" => ~Holds(s, "started", m.turn) /\ ~Holds(s, "completed", m.turn))
            /\ (m.kind = "completed" => ~Holds(s, "completed", m.turn))
            => Ordered(Append(s, m))
  <1>1. /\ Items(Append(s, m)) = Items(s) \cup {m} /\ Append(s, m) \in Seq(Messages(J))
        /\ s \o <<m>> = Append(s, m)
    BY ItemsAdd
  <1>2. m = Msg(m.kind, m.turn)
    BY MsgIs
  <1>3. \A k, t : Holds(Append(s, m), k, t) <=> Holds(s, k, t) \/ (k = m.kind /\ t = m.turn)
    BY <1>1, <1>2, MsgEqual DEF Holds
  <1>4. \A K : Some(Append(s, m), K) <=> Some(s, K) \/ m.kind \in K
    BY <1>1 DEF Some
  <1>5. \A K : Once(s, K) /\ (m.kind \in K => ~Some(s, K)) => Once(Append(s, m), K)
    BY OnceAdd DEF Some
  <1>6. ASSUME Ordered(s),
               m.kind = "started" => ~Holds(s, "started", m.turn) /\ ~Holds(s, "completed", m.turn),
               m.kind = "completed" => ~Holds(s, "completed", m.turn)
        PROVE  Ordered(Append(s, m))
    <2>1. \A x \in Items(s) : x = Msg(x.kind, x.turn)
      <3>1. \A x \in Items(s) : x \in Messages(J)
        BY DEF Items
      <3>. QED
        BY <3>1, MsgIs
    <2>2. m.kind = "started" => \A x \in Items(s) : x.turn = m.turn => x.kind \notin {"started", "completed"}
      BY <1>6, <2>1 DEF Holds
    <2>3. m.kind = "completed" => \A x \in Items(s) : x.turn = m.turn => x.kind # "completed"
      BY <1>6, <2>1 DEF Holds
    <2>. QED
      BY <1>6, <2>2, <2>3, OrderedAdd
  <1>. QED
    BY <1>1, <1>3, <1>4, <1>5, <1>6

LEMMA PipeTake ==
  ASSUME NEW J, NEW s \in Seq(Messages(J)), s # <<>>
  PROVE  /\ Tail(s) \in Seq(Messages(J)) /\ Head(s) \in Messages(J)
         /\ Items(s) = {Head(s)} \cup Items(Tail(s))
         /\ \A k, t : Holds(s, k, t) <=>
              Holds(Tail(s), k, t) \/ (k = Head(s).kind /\ t = Head(s).turn)
         /\ \A K : Some(s, K) <=> Some(Tail(s), K) \/ Head(s).kind \in K
         /\ \A K : Once(s, K) =>
              Once(Tail(s), K) /\ (Head(s).kind \in K => ~Some(Tail(s), K))
         /\ Ordered(s) =>
              /\ Ordered(Tail(s))
              /\ Head(s).kind = "completed" => /\ ~Holds(Tail(s), "started", Head(s).turn)
                                               /\ ~Holds(Tail(s), "completed", Head(s).turn)
              /\ Head(s).kind = "started" => ~Holds(Tail(s), "started", Head(s).turn)
  <1>1. /\ Head(s) \in Messages(J) /\ Tail(s) \in Seq(Messages(J))
        /\ Items(s) = {Head(s)} \cup Items(Tail(s))
    BY ItemsTake
  <1>2. Head(s) = Msg(Head(s).kind, Head(s).turn)
    BY <1>1, MsgIs
  <1>3. \A k, t : Holds(s, k, t) <=> Holds(Tail(s), k, t) \/ (k = Head(s).kind /\ t = Head(s).turn)
    BY <1>1, <1>2, MsgEqual DEF Holds
  <1>4. \A K : Some(s, K) <=> Some(Tail(s), K) \/ Head(s).kind \in K
    BY <1>1 DEF Some
  <1>5. \A K : Once(s, K) => Once(Tail(s), K) /\ (Head(s).kind \in K => ~Some(Tail(s), K))
    BY OnceTake DEF Some
  <1>6. ASSUME Ordered(s)
        PROVE  /\ Ordered(Tail(s))
               /\ Head(s).kind = "completed" => /\ ~Holds(Tail(s), "started", Head(s).turn)
                                                /\ ~Holds(Tail(s), "completed", Head(s).turn)
               /\ Head(s).kind = "started" => ~Holds(Tail(s), "started", Head(s).turn)
    <2>1. /\ Ordered(Tail(s))
          /\ Head(s).kind \in {"started", "completed"} =>
               \A x \in Items(Tail(s)) : x.turn = Head(s).turn => x.kind # Head(s).kind
          /\ Head(s).kind = "completed" =>
               \A x \in Items(Tail(s)) : x.turn = Head(s).turn => x.kind # "started"
      BY <1>6, OrderedTake
    <2>2. \A k, t : Msg(k, t).kind = k /\ Msg(k, t).turn = t
      BY DEF Msg
    <2>. QED
      BY <2>1, <2>2 DEF Holds
  <1>. QED
    BY <1>1, <1>3, <1>4, <1>5, <1>6

(* The four pipes, each taken from or added to.                             *)
LEMMA Asks ==
  ASSUME InboxTypes, NEW kind \in Request \cup {"cancel", "declined"}, NEW t \in 0 .. MaxTurns,
         kind = "prompt" => t # 0, inbox' = Append(inbox, Msg(kind, t))
  PROVE  /\ InboxTypes'
         /\ \A j, u : Holds(inbox', j, u) <=> Holds(inbox, j, u) \/ (j = kind /\ u = t)
         /\ \A K : Some(inbox', K) <=> Some(inbox, K) \/ kind \in K
         /\ Once(inbox, Request) /\ (kind \in Request => ~Some(inbox, Request))
              => Once(inbox', Request)
  <1>1. PICK m : m = Msg(kind, t)
    OBVIOUS
  <1>2. m \in Messages(Request \cup {"cancel", "declined"}) /\ m.kind = kind /\ m.turn = t
    BY <1>1, MsgIs
  <1>. QED
    BY <1>1, <1>2, PipeAdd DEF InboxTypes, Asking

LEMMA InboxRead ==
  ASSUME InboxTypes, inbox # <<>>, inbox' = Tail(inbox),
         NEW kind, NEW t, Head(inbox).kind = kind, Head(inbox).turn = t
  PROVE  /\ InboxTypes'
         /\ kind \in Request \cup {"cancel", "declined"} /\ t \in 0 .. MaxTurns
         /\ kind = "prompt" => t \in Turn
         /\ \A j, u : Holds(inbox, j, u) <=> Holds(inbox', j, u) \/ (j = kind /\ u = t)
         /\ \A K : Some(inbox, K) <=> Some(inbox', K) \/ kind \in K
         /\ Once(inbox, Request) =>
              Once(inbox', Request) /\ (kind \in Request => ~Some(inbox', Request))
  <1>1. /\ Tail(inbox) \in Seq(Asking) /\ Head(inbox) \in Asking
        /\ \A j, u : Holds(inbox, j, u) <=> Holds(Tail(inbox), j, u) \/ (j = kind /\ u = t)
        /\ \A K : Some(inbox, K) <=> Some(Tail(inbox), K) \/ kind \in K
        /\ \A K : Once(inbox, K) =>
             Once(Tail(inbox), K) /\ (kind \in K => ~Some(Tail(inbox), K))
    BY PipeTake DEF InboxTypes, Asking
  <1>2. kind \in Request \cup {"cancel", "declined"} /\ t \in 0 .. MaxTurns
    BY <1>1, MsgIs DEF Asking
  <1>3. kind = "prompt" => t # 0
    BY <1>1 DEF InboxTypes
  <1>4. t # 0 => t \in Turn
    BY <1>2, ConstantsAssumption DEF Turn
  <1>. QED
    BY <1>1, <1>2, <1>3, <1>4 DEF InboxTypes

LEMMA LineSaid ==
  ASSUME LineTypes, NEW kind \in Answer \cup OfTurn \cup {"ask"}, NEW t \in 0 .. MaxTurns,
         kind \in OfTurn => t # 0,
         acp => kind \notin {"response", "started"}, ~acp => kind # "failed", acp' = acp,
         lines' = lines \o <<Msg(kind, t)>>
  PROVE  /\ LineTypes'
         /\ \A j, u : Holds(lines', j, u) <=> Holds(lines, j, u) \/ (j = kind /\ u = t)
         /\ \A K : Some(lines', K) <=> Some(lines, K) \/ kind \in K
         /\ Once(lines, Answer) /\ (kind \in Answer => ~Some(lines, Answer))
              => Once(lines', Answer)
         /\ Ordered(lines)
            /\ (kind = "started" => ~Holds(lines, "started", t) /\ ~Holds(lines, "completed", t))
            /\ (kind = "completed" => ~Holds(lines, "completed", t))
            => Ordered(lines')
  <1>1. PICK m : m = Msg(kind, t)
    OBVIOUS
  <1>2. m \in Messages(Answer \cup OfTurn \cup {"ask"}) /\ m.kind = kind /\ m.turn = t
    BY <1>1, MsgIs
  <1>3. lines \in Seq(Messages(Answer \cup OfTurn \cup {"ask"}))
    BY DEF LineTypes, Saying
  <1>4. lines' = Append(lines, m)
    BY <1>1, <1>2, <1>3, PipeAdd
  <1>5. /\ Append(lines, m) \in Seq(Messages(Answer \cup OfTurn \cup {"ask"}))
        /\ \A j, u : Holds(Append(lines, m), j, u) <=> Holds(lines, j, u) \/ (j = kind /\ u = t)
        /\ \A K : Some(Append(lines, m), K) <=> Some(lines, K) \/ kind \in K
        /\ \A K : Once(lines, K) /\ (kind \in K => ~Some(lines, K)) => Once(Append(lines, m), K)
        /\ Ordered(lines)
           /\ (kind = "started" => ~Holds(lines, "started", t) /\ ~Holds(lines, "completed", t))
           /\ (kind = "completed" => ~Holds(lines, "completed", t))
           => Ordered(Append(lines, m))
    BY <1>2, <1>3, PipeAdd
  <1>6. /\ lines' \in Seq(Messages(Answer \cup OfTurn \cup {"ask"}))
        /\ \A j, u : Holds(lines', j, u) <=> Holds(lines, j, u) \/ (j = kind /\ u = t)
        /\ \A K : Some(lines', K) <=> Some(lines, K) \/ kind \in K
        /\ \A K : Once(lines, K) /\ (kind \in K => ~Some(lines, K)) => Once(lines', K)
        /\ Ordered(lines)
           /\ (kind = "started" => ~Holds(lines, "started", t) /\ ~Holds(lines, "completed", t))
           /\ (kind = "completed" => ~Holds(lines, "completed", t))
           => Ordered(lines')
    BY <1>4, <1>5
  <1>7. LineTypes'
    BY <1>6 DEF LineTypes, Has, Heard, Saying
  <1>. QED
    BY <1>6, <1>7

LEMMA LineRead ==
  ASSUME LineTypes, lines # <<>>, lines' = Tail(lines), acp' = acp,
         NEW kind, NEW t, Head(lines).kind = kind, Head(lines).turn = t
  PROVE  /\ LineTypes'
         /\ kind \in Answer \cup OfTurn \cup {"ask"} /\ t \in 0 .. MaxTurns
         /\ kind \in OfTurn => t \in Turn
         /\ acp => kind \notin {"response", "started"}
         /\ ~acp => kind # "failed"
         /\ \A j, u : Holds(lines, j, u) <=> Holds(lines', j, u) \/ (j = kind /\ u = t)
         /\ \A K : Some(lines, K) <=> Some(lines', K) \/ kind \in K
         /\ Once(lines, Answer) =>
              Once(lines', Answer) /\ (kind \in Answer => ~Some(lines', Answer))
         /\ Ordered(lines) =>
              /\ Ordered(lines')
              /\ kind = "completed" => ~Holds(lines', "started", t) /\ ~Holds(lines', "completed", t)
              /\ kind = "started" => ~Holds(lines', "started", t)
  <1>1. /\ Tail(lines) \in Seq(Saying) /\ Head(lines) \in Saying
        /\ \A j, u : Holds(lines, j, u) <=> Holds(Tail(lines), j, u) \/ (j = kind /\ u = t)
        /\ \A K : Some(lines, K) <=> Some(Tail(lines), K) \/ kind \in K
        /\ \A K : Once(lines, K) =>
             Once(Tail(lines), K) /\ (kind \in K => ~Some(Tail(lines), K))
        /\ Ordered(lines) =>
              /\ Ordered(Tail(lines))
              /\ kind = "completed" => /\ ~Holds(Tail(lines), "started", t)
                                       /\ ~Holds(Tail(lines), "completed", t)
              /\ kind = "started" => ~Holds(Tail(lines), "started", t)
    BY PipeTake DEF LineTypes, Saying
  <1>2. kind \in Answer \cup OfTurn \cup {"ask"} /\ t \in 0 .. MaxTurns
    BY <1>1, MsgIs DEF Saying
  <1>3. kind \in OfTurn => t # 0
    BY <1>1 DEF LineTypes, Has
  <1>4. t # 0 => t \in Turn
    BY <1>2, ConstantsAssumption DEF Turn
  <1>5. (acp => kind \notin {"response", "started"}) /\ (~acp => kind # "failed")
    BY <1>1 DEF LineTypes, Heard
  <1>6. LineTypes'
    BY <1>1 DEF LineTypes, Has, Heard
  <1>. QED
    BY <1>1, <1>2, <1>3, <1>4, <1>5, <1>6

LEMMA EventSent ==
  ASSUME toPanel \in Seq(Showing), panel \in PanelRecord,
         NEW kind \in {"started", "delta", "completed", "ready", "error", "violation", "closed"},
         NEW t \in 0 .. MaxTurns, NEW s, s = Append(toPanel, Msg(kind, t))
  PROVE  /\ s \in Seq(Showing) /\ toPanel \o <<Msg(kind, t)>> = s
         /\ \A K : Some(s, K) <=> Some(toPanel, K) \/ kind \in K
         /\ LastTells(s, panel.active) <=> IF kind \in Tells THEN kind = "started" ELSE Believes
  <1>1. PICK m : m = Msg(kind, t)
    OBVIOUS
  <1>2. m \in Showing /\ m.kind = kind /\ m.turn = t
    BY <1>1, MsgIs DEF Showing
  <1>3. /\ s \in Seq(Showing) /\ toPanel \o <<m>> = s
        /\ \A K : Some(s, K) <=> Some(toPanel, K) \/ kind \in K
    BY <1>1, <1>2, PipeAdd DEF Showing
  <1>4. panel.active \in BOOLEAN
    BY DEF PanelRecord
  <1>5. LastTells(s, panel.active) <=> IF kind \in Tells THEN kind = "started" ELSE Believes
    BY <1>1, <1>2, <1>4, LastTellsAdd DEF Believes
  <1>. QED
    BY <1>1, <1>3, <1>5

LineAdded(s, d, kind, t) ==
  /\ d \in Seq(Saying)
  /\ \A j, u : Holds(d, j, u) <=> Holds(s, j, u) \/ (j = kind /\ u = t)
  /\ \A K : Some(d, K) <=> Some(s, K) \/ kind \in K
  /\ Once(s, Answer) /\ (kind \in Answer => ~Some(s, Answer)) => Once(d, Answer)
  /\ Ordered(s)
     /\ (kind = "started" => ~Holds(s, "started", t) /\ ~Holds(s, "completed", t))
     /\ (kind = "completed" => ~Holds(s, "completed", t))
     => Ordered(d)

LEMMA LinesSaid ==
  ASSUME lines \in Seq(Saying),
         NEW kind \in Answer \cup OfTurn \cup {"ask"}, NEW t \in 0 .. MaxTurns,
         NEW then \in Answer \cup OfTurn \cup {"ask"}, NEW u \in 0 .. MaxTurns,
         lines' = lines \o <<Msg(kind, t), Msg(then, u)>>
  PROVE  \E s : LineAdded(lines, s, kind, t) /\ LineAdded(s, lines', then, u)
  <1>1. ASSUME NEW s \in Seq(Saying), NEW k \in Answer \cup OfTurn \cup {"ask"}, NEW v \in 0 .. MaxTurns,
               NEW m, m = Msg(k, v)
        PROVE  LineAdded(s, Append(s, m), k, v)
    <2>1. m \in Messages(Answer \cup OfTurn \cup {"ask"}) /\ m.kind = k /\ m.turn = v
      BY <1>1, MsgIs
    <2>. QED
      BY <2>1, PipeAdd DEF LineAdded, Saying
  <1>2. PICK m, n : m = Msg(kind, t) /\ n = Msg(then, u)
    OBVIOUS
  <1>3. m \in Saying /\ n \in Saying
    BY <1>2, MsgIs DEF Saying
  <1>4. lines' = Append(Append(lines, m), n)
    BY <1>2, <1>3
  <1>5. LineAdded(lines, Append(lines, m), kind, t)
    BY <1>1, <1>2
  <1>6. PICK s : s = Append(lines, m)
    OBVIOUS
  <1>7. s \in Seq(Saying) /\ lines' = Append(s, n)
    BY <1>3, <1>4, <1>6
  <1>8. LineAdded(s, lines', then, u)
    BY <1>1, <1>2, <1>7
  <1>. QED
    BY <1>5, <1>6, <1>8

(* The host takes a message of the panel.                                   *)
LEMMA TextsTake ==
  ASSUME NEW J, NEW s \in Seq(Messages(J)), s # <<>>, TextsOrdered(s)
  PROVE  /\ TextsOrdered(Tail(s))
         /\ Head(s).kind = "start" =>
              \A u : Holds(Tail(s), "start", u) => Head(s).turn < u
  <1>1. /\ \A k \in DOMAIN Tail(s) : k + 1 \in DOMAIN s /\ Tail(s)[k] = s[k + 1] /\ 1 < k + 1
                                     /\ k \in Nat
        /\ Head(s) = s[1] /\ 1 \in DOMAIN s
    OBVIOUS
  <1>2. \A k, l \in DOMAIN Tail(s) : k < l => k + 1 < l + 1
    BY <1>1
  <1>3. TextsOrdered(Tail(s))
    BY <1>1, <1>2 DEF TextsOrdered
  <1>4. ASSUME Head(s).kind = "start", NEW u, Holds(Tail(s), "start", u) PROVE Head(s).turn < u
    <2>1. PICK k \in DOMAIN Tail(s) : Tail(s)[k] = Msg("start", u)
      BY <1>4 DEF Holds, Items
    <2>2. s[k + 1].kind = "start" /\ s[k + 1].turn = u
      BY <1>1, <2>1 DEF Msg
    <2>. QED
      BY <1>1, <1>4, <2>2 DEF TextsOrdered
  <1>. QED
    BY <1>3, <1>4

LEMMA HostTakes ==
  ASSUME toHost \in Seq(Clicking), toHost # <<>>, toHost' = Tail(toHost), TextsOrdered(toHost),
         NEW kind, NEW t, Head(toHost).kind = kind, Head(toHost).turn = t
  PROVE  /\ toHost' \in Seq(Clicking) /\ kind \in {"open", "start", "interrupt"}
         /\ t \in 0 .. MaxTurns
         /\ \A j, u : Holds(toHost, j, u) <=> Holds(toHost', j, u) \/ (j = kind /\ u = t)
         /\ \A K : Some(toHost, K) <=> Some(toHost', K) \/ kind \in K
         /\ \A K : Once(toHost, K) =>
              Once(toHost', K) /\ (kind \in K => ~Some(toHost', K))
         /\ TextsOrdered(toHost')
         /\ kind = "start" => \A u : Holds(toHost', "start", u) => t < u
  <1>1. /\ Tail(toHost) \in Seq(Clicking) /\ Head(toHost) \in Clicking
        /\ \A j, u : Holds(toHost, j, u) <=> Holds(Tail(toHost), j, u) \/ (j = kind /\ u = t)
        /\ \A K : Some(toHost, K) <=> Some(Tail(toHost), K) \/ kind \in K
        /\ \A K : Once(toHost, K) =>
             Once(Tail(toHost), K) /\ (kind \in K => ~Some(Tail(toHost), K))
    BY PipeTake DEF Clicking
  <1>2. kind \in {"open", "start", "interrupt"} /\ t \in 0 .. MaxTurns
    BY <1>1, MsgIs DEF Clicking
  <1>3. TextsOrdered(Tail(toHost))
        /\ (kind = "start" => \A u : Holds(Tail(toHost), "start", u) => t < u)
    BY TextsTake DEF Clicking
  <1>. QED
    BY <1>1, <1>2, <1>3

(* A step that sends no text and brings no turn, and one that takes a text. *)
LEMMA TextsLeft ==
  ASSUME TextsAreNew, used'.turns = used.turns, TextsOrdered(toHost'),
         \A u \in 0 .. MaxTurns : Holds(toHost', "start", u) => Holds(toHost, "start", u),
         \A t \in Turn : Known(t)' => Known(t)
  PROVE  TextsAreNew'
  <1>1. \A t \in Turn : Known(t)' => t <= used'.turns
    BY DEF TextsAreNew
  <1>2. ASSUME NEW u \in 0 .. MaxTurns, Holds(toHost', "start", u)
        PROVE  u \in 1 .. used'.turns /\ \A t \in Turn : Known(t)' => t < u
    BY <1>2 DEF TextsAreNew
  <1>. QED
    BY <1>1, <1>2 DEF TextsAreNew

LEMMA TextIsTaken ==
  ASSUME Types, TextsAreNew, used' = used, toHost # <<>>, toHost' = Tail(toHost),
         NEW n, Head(toHost).kind = "start", Head(toHost).turn = n,
         \A t \in Turn : Known(t)' => Known(t) \/ t = n
  PROVE  TextsAreNew'
  <1>1. /\ toHost' \in Seq(Clicking) /\ n \in 0 .. MaxTurns
        /\ \A u : Holds(toHost', "start", u) => Holds(toHost, "start", u) /\ n < u
        /\ Holds(toHost, "start", n) /\ TextsOrdered(toHost')
    BY HostTakes DEF Types, TextsAreNew
  <1>2. n \in 1 .. used.turns /\ \A t \in Turn : Known(t) => t < n
    BY <1>1 DEF TextsAreNew
  <1>3. used.turns \in Nat
    BY ConstantsAssumption DEF Types, UsedRecord
  <1>4. \A t \in Turn : Known(t)' => t <= used'.turns
    BY <1>2, <1>3 DEF TextsAreNew
  <1>5. ASSUME NEW u \in 0 .. MaxTurns, Holds(toHost', "start", u)
        PROVE  u \in 1 .. used'.turns /\ \A t \in Turn : Known(t)' => t < u
    <2>1. Holds(toHost, "start", u) /\ n < u
      BY <1>1, <1>5
    <2>2. u \in 1 .. used.turns /\ \A t \in Turn : Known(t) => t < u
      BY <2>1 DEF TextsAreNew
    <2>. QED
      BY <2>1, <2>2
  <1>. QED
    BY <1>1, <1>4, <1>5 DEF TextsAreNew

LEMMA TextIsNew ==
  ASSUME Types, TextsAreNew, toHost # <<>>, NEW n, Head(toHost).kind = "start", Head(toHost).turn = n
  PROVE  n \in Turn /\ ~Known(n)
  <1>1. Holds(toHost, "start", n) /\ n \in 0 .. MaxTurns
    <2>1. /\ Head(toHost) \in Clicking
          /\ \A j, u : Holds(toHost, j, u) <=>
               Holds(Tail(toHost), j, u) \/ (j = Head(toHost).kind /\ u = Head(toHost).turn)
      BY PipeTake DEF Types, Clicking
    <2>. QED
      BY <2>1, MsgIs DEF Clicking
  <1>2. n \in 1 .. used.turns /\ \A t \in Turn : Known(t) => t < n
    BY <1>1 DEF TextsAreNew
  <1>3. used.turns \in 0 .. MaxTurns
    BY DEF Types, UsedRecord
  <1>4. n \in Turn
    BY <1>1, <1>2, <1>3, ConstantsAssumption DEF Turn
  <1>5. ~(n < n)
    BY <1>1, ConstantsAssumption
  <1>. QED
    BY <1>2, <1>4, <1>5

(* The client, the agent and what is between them are left alone.           *)
LEMMA ClientRests ==
  ASSUME Inductive, UNCHANGED <<client, agent, pipes>>, hostUp' \in BOOLEAN
  PROVE  /\ ClientTypes' /\ LineTypes' /\ InboxTypes' /\ NoPhantomTurn'
         /\ ~acp => Core'
         /\ \A t \in Turn : Known(t)' => Known(t)
         /\ \A t : Has("started", t)' <=> Has("started", t)
  <1>1. /\ call' = call /\ thread' = thread /\ turn' = turn /\ answered' = answered
        /\ waiters' = waiters /\ stored' = stored /\ prompts' = prompts /\ ended' = ended
        /\ acp' = acp /\ agentUp' = agentUp /\ running' = running /\ owes' = owes
        /\ inbox' = inbox /\ lines' = lines /\ exited' = exited
    BY DEF client, agent, pipes
  <1>2. ClientTypes' /\ LineTypes' /\ InboxTypes'
    BY <1>1 DEF Inductive, Types, ClientTypes, LineTypes, InboxTypes, Has, Heard
  <1>3. NoPhantomTurn'
    BY <1>1 DEF Inductive, NoPhantomTurn
  <1>4. \A t \in Turn : Known(t)' => Known(t)
    BY <1>1 DEF Known, Has
  <1>5. \A t : Live(t)' <=> Live(t)
    BY <1>1 DEF Live, Owed, Has
  <1>6. \A t : Owed(t)' <=> Owed(t)
    BY <1>1 DEF Owed, Has
  <1>7. ASSUME ~acp PROVE Core'
    <2>1. Core
      BY <1>7 DEF Inductive
    <2>2. OneAnswer => OneAnswer'
      BY <1>1 DEF OneAnswer, Pending, Heard
    <2>3. Phases => Phases'
      BY <1>1, <1>5 DEF Phases, NoLive, Pending, Heard
    <2>4. OneLive' /\ Ordered(lines')
      BY <1>1, <1>5, <2>1 DEF Core, OneLive
    <2>5. Over'
      BY <1>1, <2>1 DEF Core, Over, Has
    <2>6. OwedTurn'
      BY <1>1, <1>6, <2>1 DEF Core, OwedTurn, Has
    <2>7. Unopened'
      BY <1>1, <1>5, <2>1 DEF Core, Unopened, NoLive
    <2>. QED
      BY <1>1, <2>1, <2>2, <2>3, <2>4, <2>5, <2>6, <2>7 DEF Core
  <1>8. \A t : Has("started", t)' <=> Has("started", t)
    BY <1>1 DEF Has
  <1>. QED
    BY <1>2, <1>3, <1>4, <1>7, <1>8

(* An event that says nothing of the turn, or none.                         *)
LEMMA NothingTold ==
  ASSUME Types, panel' = panel, hostUp' \in BOOLEAN, hostUp' => hostUp, turn' = turn,
         \A t \in Turn : Has("started", t) => Has("started", t)',
         NEW kind \in {"delta", "error", "violation"}, NEW t \in 0 .. MaxTurns,
         toPanel' = toPanel \/ toPanel' = Append(toPanel, Msg(kind, t))
  PROVE  toPanel' \in Seq(Showing) /\ (Follows => Follows')
  <1>1. toPanel \in Seq(Showing) /\ panel \in PanelRecord /\ turn \in 0 .. MaxTurns
    BY DEF Types, ClientTypes
  <1>2. toPanel' \in Seq(Showing) /\ (Believes' <=> Believes)
        /\ (Some(toPanel', {"closed"}) <=> Some(toPanel, {"closed"}))
    <2>1. CASE toPanel' = toPanel
      BY <1>1, <2>1 DEF Believes
    <2>2. CASE toPanel' = Append(toPanel, Msg(kind, t))
      <3>1. kind \notin Tells /\ kind \notin {"closed"}
        BY DEF Tells
      <3>2. PICK s : s = toPanel'
        OBVIOUS
      <3>4. /\ s \in Seq(Showing)
            /\ \A K : Some(s, K) <=> Some(toPanel, K) \/ kind \in K
            /\ LastTells(s, panel.active)
                 <=> IF kind \in Tells THEN kind = "started" ELSE Believes
        <4>1. kind \in {"started", "delta", "completed", "ready", "error", "violation", "closed"}
          OBVIOUS
        <4>2. s = Append(toPanel, Msg(kind, t))
          BY <2>2, <3>2
        <4>3. toPanel \in Seq(Showing) /\ panel \in PanelRecord
          BY <1>1
        <4>. QED
          BY <4>1, <4>2, <4>3, EventSent
      <3>3. LastTells(toPanel', panel.active) <=> Believes
        BY <3>1, <3>2, <3>4
      <3>. QED
        BY <3>1, <3>2, <3>3, <3>4 DEF Believes
    <2>. QED
      BY <2>1, <2>2
  <1>3. turn # 0 => turn \in Turn
    BY <1>1, ConstantsAssumption DEF Turn
  <1>4. turn # 0 /\ Has("started", turn) => Has("started", turn)'
    BY <1>3 DEF Has
  <1>5. Follows => Follows'
    BY <1>2, <1>4 DEF Follows
  <1>. QED
    BY <1>2, <1>5

(* sendCurrentText: the text is later than all before it.                   *)
LEMMA SendKeeps == ASSUME Inductive, Send PROVE Inductive'
  <1>0. Types /\ TextsAreNew
    BY DEF Inductive
  <1>1. /\ toHost' = Append(toHost, Msg("start", used.turns + 1))
        /\ panel' = [panel EXCEPT !.busy = TRUE] /\ toPanel' = toPanel /\ hostUp' = hostUp
        /\ UNCHANGED <<client, agent, pipes>>
        /\ used.turns < MaxTurns /\ used' = [used EXCEPT !.turns = @ + 1]
        /\ used'.turns = used.turns + 1
    BY <1>0 DEF Send, Types, UsedRecord
  <1>2. /\ panel' \in PanelRecord /\ panel'.active = panel.active /\ panel'.shown = panel.shown
    BY <1>0, <1>1 DEF Types, PanelRecord
  <1>3. used' \in UsedRecord /\ used.turns \in Nat /\ used.turns + 1 \in 1 .. MaxTurns
    <2>1. used \in UsedRecord
      BY <1>0 DEF Types
    <2>2. used.turns \in Nat /\ used.turns + 1 \in 1 .. MaxTurns /\ used.turns + 1 \in 0 .. MaxTurns
      BY <1>1, <2>1, ConstantsAssumption DEF UsedRecord
    <2>. QED
      BY <1>1, <2>1, <2>2 DEF UsedRecord
  <1>4. /\ ClientTypes' /\ LineTypes' /\ InboxTypes' /\ NoPhantomTurn'
        /\ ~acp => Core'
        /\ \A t \in Turn : Known(t)' => Known(t)
        /\ \A t : Has("started", t)' <=> Has("started", t)
    BY <1>0, <1>1, ClientRests DEF Types, ClientTypes
  <1>5. PICK n : n = used.turns + 1
    OBVIOUS
  <1>6. /\ Msg("start", n) \in Messages({"open", "start", "interrupt"})
        /\ Msg("start", n).kind = "start" /\ Msg("start", n).turn = n
    <2>1. n \in 0 .. MaxTurns
      BY <1>3, <1>5
    <2>. QED
      BY <2>1, MsgIs
  <1>7. /\ toHost' \in Seq(Clicking)
        /\ \A k, t : Holds(toHost', k, t) <=> Holds(toHost, k, t) \/ (k = "start" /\ t = n)
        /\ \A K : Some(toHost', K) <=> Some(toHost, K) \/ "start" \in K
        /\ \A K : Once(toHost, K) /\ ("start" \in K => ~Some(toHost, K)) => Once(toHost', K)
    <2>1. toHost \in Seq(Messages({"open", "start", "interrupt"}))
      BY <1>0 DEF Types, Clicking
    <2>2. PICK m \in Messages({"open", "start", "interrupt"}) :
            m = Msg("start", n) /\ m.kind = "start" /\ m.turn = n
      BY <1>6
    <2>3. /\ Append(toHost, m) \in Seq(Messages({"open", "start", "interrupt"}))
          /\ \A k, t : Holds(Append(toHost, m), k, t) <=> Holds(toHost, k, t) \/ (k = m.kind /\ t = m.turn)
          /\ \A K : Some(Append(toHost, m), K) <=> Some(toHost, K) \/ m.kind \in K
          /\ \A K : Once(toHost, K) /\ (m.kind \in K => ~Some(toHost, K)) => Once(Append(toHost, m), K)
      BY <2>1, PipeAdd
    <2>. QED
      BY <1>1, <1>5, <2>2, <2>3 DEF Clicking
  <1>8. TextsAreNew'
    <2>1. \A t \in Turn : Known(t)' => t <= used.turns
      BY <1>0, <1>4 DEF TextsAreNew
    <2>2. \A t \in Turn : Known(t)' => t < n /\ t <= used'.turns
      BY <1>1, <1>3, <1>5, <2>1 DEF Turn
    <2>3. \A u \in 0 .. MaxTurns : Holds(toHost, "start", u) => u \in 1 .. used.turns
      BY <1>0 DEF TextsAreNew
    <2>4. ASSUME NEW u \in 0 .. MaxTurns, Holds(toHost', "start", u)
          PROVE  u \in 1 .. used'.turns /\ \A t \in Turn : Known(t)' => t < u
      <3>1. CASE u = n
        BY <1>1, <1>3, <1>5, <2>2, <3>1
      <3>2. CASE Holds(toHost, "start", u)
        BY <1>0, <1>1, <1>3, <1>4, <2>3, <3>2 DEF TextsAreNew
      <3>. QED
        BY <1>7, <2>4, <3>1, <3>2
    <2>5. TextsOrdered(toHost')
      <3>1. toHost \in Seq(Clicking) /\ TextsOrdered(toHost)
        BY <1>0 DEF Types, TextsAreNew
      <3>2. /\ DOMAIN toHost' = 1 .. Len(toHost) + 1 /\ DOMAIN toHost = 1 .. Len(toHost)
            /\ Len(toHost) \in Nat /\ \A k \in 1 .. Len(toHost) : toHost'[k] = toHost[k]
            /\ toHost'[Len(toHost) + 1] = Msg("start", n)
        BY <1>1, <1>5, <3>1
      <3>3. \A k \in DOMAIN toHost : toHost[k].kind = "start" => toHost[k].turn < n
        <4> SUFFICES ASSUME NEW k \in DOMAIN toHost, toHost[k].kind = "start"
                     PROVE  toHost[k].turn < n
          OBVIOUS
        <4>1. toHost[k] \in Messages({"open", "start", "interrupt"})
          BY <3>1 DEF Clicking
        <4>2. toHost[k] = Msg("start", toHost[k].turn) /\ toHost[k].turn \in 0 .. MaxTurns
          BY <4>1, MsgIs
        <4>3. Holds(toHost, "start", toHost[k].turn)
          BY <4>2 DEF Holds, Items
        <4>. QED
          BY <1>3, <1>5, <2>3, <4>2, <4>3
      <3>. QED
        BY <1>6, <3>1, <3>2, <3>3 DEF TextsOrdered
    <2>. QED
      BY <2>2, <2>4, <2>5 DEF TextsAreNew
  <1>9. ASSUME ~acp PROVE Core' /\ Opening' /\ Follows'
    <2>1. Opening'
      <3>1. thread' = thread /\ call' = call
        BY <1>1 DEF client
      <3>. QED
        BY <1>7, <1>9, <3>1 DEF Inductive, Opening
    <2>2. Follows'
      <3>1. turn' = turn /\ Follows /\ (Believes' <=> Believes)
        BY <1>1, <1>2, <1>9 DEF client, Inductive, Believes
      <3>2. Has("started", turn) => Has("started", turn)'
        BY <1>1 DEF Has, client, pipes
      <3>. QED
        BY <1>1, <1>2, <3>1, <3>2 DEF Follows
    <2>. QED
      BY <1>4, <1>9, <2>1, <2>2
  <1>10. Types'
    BY <1>0, <1>1, <1>2, <1>3, <1>4, <1>7 DEF Types
  <1>11. acp' = acp
    BY <1>1 DEF agent
  <1>. QED
    BY <1>4, <1>8, <1>9, <1>10, <1>11 DEF Inductive

(* emergencyStop sends no text and touches no turn.                         *)
LEMMA StopKeeps == ASSUME Inductive, Stop PROVE Inductive'
  <1>0. Types /\ TextsAreNew
    BY DEF Inductive
  <1>1. /\ toHost' = toHost \/ toHost' = Append(toHost, Msg("interrupt", 0))
        /\ panel' = [panel EXCEPT !.shown = "stopped"] /\ toPanel' = toPanel /\ hostUp' = hostUp
        /\ UNCHANGED <<client, agent, pipes>>
        /\ used.stops < MaxStops /\ used' = [used EXCEPT !.stops = @ + 1]
    BY DEF Stop
  <1>2. /\ panel' \in PanelRecord /\ panel'.active = panel.active /\ panel'.shown = "stopped"
    BY <1>0, <1>1 DEF Types, PanelRecord
  <1>3. used' \in UsedRecord /\ used'.turns = used.turns
    <2>1. used \in UsedRecord
      BY <1>0 DEF Types
    <2>2. used.stops + 1 \in 0 .. MaxStops
      BY <1>1, <2>1, ConstantsAssumption DEF UsedRecord
    <2>. QED
      BY <1>1, <2>1, <2>2 DEF UsedRecord
  <1>4. /\ ClientTypes' /\ LineTypes' /\ InboxTypes' /\ NoPhantomTurn'
        /\ ~acp => Core'
        /\ \A t \in Turn : Known(t)' => Known(t)
        /\ \A t : Has("started", t)' <=> Has("started", t)
    BY <1>0, <1>1, ClientRests DEF Types, ClientTypes
  <1>5. /\ toHost' \in Seq(Clicking) /\ TextsOrdered(toHost')
        /\ \A u \in 0 .. MaxTurns : Holds(toHost', "start", u) => Holds(toHost, "start", u)
        /\ Once(toHost, {"open"}) => Once(toHost', {"open"})
        /\ Some(toHost', {"open"}) => Some(toHost, {"open"})
    <2>1. toHost \in Seq(Clicking) /\ TextsOrdered(toHost)
      BY <1>0 DEF Types, TextsAreNew
    <2>2. CASE toHost' = Append(toHost, Msg("interrupt", 0))
      <3>1. PICK m \in Messages({"open", "start", "interrupt"}) :
              m = Msg("interrupt", 0) /\ m.kind = "interrupt" /\ m.turn = 0
        BY MsgIs, ConstantsAssumption
      <3>2. /\ Append(toHost, m) \in Seq(Messages({"open", "start", "interrupt"}))
            /\ \A k, t : Holds(Append(toHost, m), k, t) <=> Holds(toHost, k, t) \/ (k = m.kind /\ t = m.turn)
            /\ \A K : Some(Append(toHost, m), K) <=> Some(toHost, K) \/ m.kind \in K
            /\ \A K : Once(toHost, K) /\ (m.kind \in K => ~Some(toHost, K)) => Once(Append(toHost, m), K)
        BY <2>1, PipeAdd DEF Clicking
      <3>3. /\ DOMAIN toHost' = 1 .. Len(toHost) + 1 /\ DOMAIN toHost = 1 .. Len(toHost)
            /\ Len(toHost) \in Nat /\ \A k \in 1 .. Len(toHost) : toHost'[k] = toHost[k]
            /\ toHost'[Len(toHost) + 1] = m
        BY <2>1, <2>2, <3>1
      <3>4. TextsOrdered(toHost')
        BY <2>1, <3>1, <3>3 DEF TextsOrdered
      <3>. QED
        BY <2>2, <3>1, <3>2, <3>4 DEF Clicking
    <2>. QED
      BY <1>1, <2>1, <2>2
  <1>6. TextsAreNew'
    BY <1>0, <1>3, <1>4, <1>5, TextsLeft
  <1>7. ASSUME ~acp PROVE Core' /\ Opening' /\ Follows'
    <2>1. Opening'
      <3>1. thread' = thread /\ call' = call
        BY <1>1 DEF client
      <3>. QED
        BY <1>5, <1>7, <3>1 DEF Inductive, Opening
    <2>2. Follows'
      <3>1. turn' = turn /\ Follows /\ (Believes' <=> Believes)
        BY <1>1, <1>2, <1>7 DEF client, Inductive, Believes
      <3>2. Has("started", turn) => Has("started", turn)'
        BY <1>1 DEF Has, client, pipes
      <3>. QED
        BY <1>1, <1>2, <3>1, <3>2 DEF Follows
    <2>. QED
      BY <1>4, <1>7, <2>1, <2>2
  <1>8. Types'
    BY <1>0, <1>1, <1>2, <1>3, <1>4, <1>5 DEF Types
  <1>9. acp' = acp
    BY <1>1 DEF agent
  <1>. QED
    BY <1>4, <1>6, <1>7, <1>8, <1>9 DEF Inductive

(* The panel learns what was under way to it.                               *)
LEMMA PanelReadsKeeps == ASSUME Inductive, PanelReads PROVE Inductive'
  <1>0. Types /\ TextsAreNew
    BY DEF Inductive
  <1>1. /\ toPanel # <<>> /\ toPanel' = Tail(toPanel) /\ toHost' = toHost /\ hostUp' = hostUp
        /\ panel' = Shows(Head(toPanel)) /\ used' = used /\ UNCHANGED <<client, agent, pipes>>
    BY DEF PanelReads, UI
  <1>2. PICK e : e = Head(toPanel)
    OBVIOUS
  <1>3. /\ e \in Showing /\ toPanel' \in Seq(Showing)
        /\ \A K : Some(toPanel, K) <=> Some(toPanel', K) \/ e.kind \in K
    BY <1>0, <1>1, <1>2, PipeTake DEF Types, Showing
  <1>4. e.kind \in {"started", "delta", "completed", "ready", "error", "violation", "closed"}
        /\ e.turn \in 0 .. MaxTurns
    BY <1>3, MsgIs DEF Showing
  <1>5. panel' \in PanelRecord
    <2> DEFINE a == IF e.kind = "started" THEN TRUE
                    ELSE IF e.kind \in {"ready", "completed", "closed"} THEN FALSE ELSE panel.active
               b == IF e.kind = "started" THEN TRUE
                    ELSE IF e.kind \in {"ready", "completed", "closed"} THEN FALSE
                    ELSE IF e.kind = "error" THEN panel.active ELSE panel.busy
               s == IF e.kind = "started" THEN "thinking"
                    ELSE IF e.kind \in {"ready", "completed"} THEN "ready"
                    ELSE IF e.kind = "closed" THEN "disconnected"
                    ELSE IF e.kind = "error" THEN "unavailable" ELSE panel.shown
               d == IF e.kind = "started" THEN e.turn
                    ELSE IF e.kind = "completed" THEN 0
                    ELSE IF e.kind = "delta" /\ panel.card = 0 THEN e.turn ELSE panel.card
    <2>1. panel \in PanelRecord
      BY <1>0 DEF Types
    <2>2. a \in BOOLEAN /\ b \in BOOLEAN
      BY <2>1 DEF PanelRecord
    <2>3. s \in {"connecting", "ready", "thinking", "stopped", "unavailable", "disconnected"}
      BY <2>1 DEF PanelRecord
    <2>4. d \in 0 .. MaxTurns
      BY <1>4, <2>1, ConstantsAssumption DEF PanelRecord
    <2>5. panel' = [panel EXCEPT !.active = a, !.busy = b, !.shown = s, !.card = d]
      BY <1>1, <1>2, <2>1 DEF Shows, PanelRecord
    <2> HIDE DEF a, b, s, d
    <2>. QED
      BY <2>1, <2>2, <2>3, <2>4, <2>5 DEF PanelRecord
  <1>6. /\ panel'.active = (IF e.kind = "started" THEN TRUE
                            ELSE IF e.kind \in {"ready", "completed", "closed"} THEN FALSE
                            ELSE panel.active)
        /\ panel'.shown = "disconnected" => e.kind = "closed" \/ panel.shown = "disconnected"
    BY <1>0, <1>1, <1>2, <1>4 DEF Shows, Types, PanelRecord
  <1>7. /\ ClientTypes' /\ LineTypes' /\ InboxTypes' /\ NoPhantomTurn'
        /\ ~acp => Core'
        /\ \A t \in Turn : Known(t)' => Known(t)
        /\ \A t : Has("started", t)' <=> Has("started", t)
    BY <1>0, <1>1, ClientRests DEF Types, ClientTypes
  <1>8. TextsAreNew'
    BY <1>0, <1>1, <1>7, TextsLeft DEF TextsAreNew
  <1>9. Believes' <=> Believes
    <2>1. panel.active \in BOOLEAN /\ panel'.active \in BOOLEAN
      BY <1>0, <1>5 DEF Types, PanelRecord
    <2>2. panel'.active <=> IF e.kind \in Tells THEN e.kind = "started" ELSE panel.active
      BY <1>6, <2>1 DEF Tells
    <2>3. LastTells(Tail(toPanel), panel'.active) <=> LastTells(toPanel, panel.active)
      BY <1>0, <1>1, <1>2, <2>1, <2>2, LastTellsTake DEF Types
    <2>. QED
      BY <1>1, <2>3 DEF Believes
  <1>10. ASSUME ~acp PROVE Core' /\ Opening' /\ Follows'
    <2>1. Opening'
      BY <1>1, <1>10 DEF Inductive, Opening, client
    <2>2. Follows'
      <3>1. turn' = turn /\ Follows
        BY <1>1, <1>10 DEF client, Inductive
      <3>2. Has("started", turn) => Has("started", turn)'
        BY <1>1 DEF Has, client, pipes
      <3>3. hostUp => e.kind # "closed"
        BY <1>3, <3>1 DEF Follows
      <3>. QED
        BY <1>1, <1>3, <1>6, <1>9, <3>1, <3>2, <3>3 DEF Follows
    <2>. QED
      BY <1>7, <1>10, <2>1, <2>2
  <1>11. Types'
    BY <1>0, <1>1, <1>3, <1>5, <1>7 DEF Types
  <1>12. acp' = acp
    BY <1>1 DEF agent
  <1>. QED
    BY <1>7, <1>8, <1>10, <1>11, <1>12 DEF Inductive

LEMMA HostDiesKeeps == ASSUME Inductive, HostDies PROVE Inductive'
  <1>0. Types /\ TextsAreNew
    BY DEF Inductive
  <1>1. /\ hostUp' = FALSE /\ toPanel' = Append(toPanel, Msg("closed", 0))
        /\ panel' = panel /\ used' = used /\ toHost' = toHost /\ UNCHANGED <<client, agent, pipes>>
    BY DEF HostDies, Emit
  <1>2. /\ ClientTypes' /\ LineTypes' /\ InboxTypes' /\ NoPhantomTurn'
        /\ ~acp => Core'
        /\ \A t \in Turn : Known(t)' => Known(t)
    BY <1>1, ClientRests
  <1>3. toPanel' \in Seq(Showing)
    <2>1. /\ toPanel \in Seq(Showing) /\ panel \in PanelRecord /\ 0 \in 0 .. MaxTurns
          /\ "closed" \in {"started", "delta", "completed", "ready", "error", "violation", "closed"}
      BY <1>0, ConstantsAssumption DEF Types
    <2>. QED
      BY <1>1, <2>1, EventSent
  <1>4. TextsAreNew'
    BY <1>0, <1>1, <1>2, TextsLeft DEF TextsAreNew
  <1>5. Types'
    BY <1>0, <1>1, <1>2, <1>3 DEF Types
  <1>6. ~acp => Opening' /\ Follows'
    BY <1>1 DEF Inductive, Opening, client, Follows
  <1>7. acp' = acp
    BY <1>1 DEF agent
  <1>. QED
    BY <1>2, <1>4, <1>5, <1>6, <1>7 DEF Inductive

(* A message the client refuses is taken, and becomes an error event.       *)
LEMMA RefuseKeeps == ASSUME Inductive, Refuse PROVE Inductive'
  <1>0. Types /\ TextsAreNew
    BY DEF Inductive
  <1>1. /\ toHost # <<>> /\ toHost' = Tail(toHost) /\ toPanel' = Append(toPanel, Msg("error", 0))
        /\ panel' = panel /\ used' = used /\ hostUp' = hostUp /\ UNCHANGED <<client, agent, pipes>>
    BY DEF Refuse, Handling, Taken, Emit, pipes
  <1>2. /\ ClientTypes' /\ LineTypes' /\ InboxTypes' /\ NoPhantomTurn'
        /\ ~acp => Core'
        /\ \A t \in Turn : Known(t)' => Known(t)
        /\ \A t : Has("started", t)' <=> Has("started", t)
    BY <1>0, <1>1, ClientRests DEF Types, ClientTypes
  <1>3. toPanel' \in Seq(Showing) /\ (Follows => Follows')
    <2>1. turn' = turn /\ hostUp' \in BOOLEAN /\ 0 \in 0 .. MaxTurns
      BY <1>0, <1>1, ConstantsAssumption DEF client, Types, ClientTypes
    <2>. QED
      BY <1>0, <1>1, <1>2, <2>1, NothingTold
  <1>4. /\ toHost' \in Seq(Clicking) /\ TextsOrdered(toHost')
        /\ \A u : Holds(toHost', "start", u) => Holds(toHost, "start", u)
        /\ \A K : Some(toHost', K) => Some(toHost, K)
        /\ \A K : Once(toHost, K) => Once(toHost', K)
    BY <1>0, <1>1, HostTakes DEF Types, TextsAreNew
  <1>5. TextsAreNew'
    BY <1>0, <1>1, <1>2, <1>4, TextsLeft
  <1>6. ~acp => Opening' /\ Follows'
    <2>1. thread' = thread /\ call' = call
      BY <1>1 DEF client
    <2>. QED
      BY <1>3, <1>4, <2>1 DEF Inductive, Opening
  <1>7. Types'
    BY <1>0, <1>1, <1>2, <1>3, <1>4 DEF Types
  <1>8. acp' = acp
    BY <1>1 DEF agent
  <1>. QED
    BY <1>2, <1>5, <1>6, <1>7, <1>8 DEF Inductive

LEMMA SomeMore == \A s, K, L : Some(s, K) /\ K \subseteq L => Some(s, L)
  BY DEF Some

(* Between requests nothing is unanswered.                                  *)
LEMMA IdleIsQuiet ==
  ASSUME Core, ~exited, call = "idle"
  PROVE  ~Pending(Request) /\ ~Heard(Answer) /\ owes = {} /\ answered = 0
  BY DEF Core, OneAnswer

(* A request that is asked when nothing is unanswered.                      *)
LEMMA RequestKeeps ==
  ASSUME Types, Core, ~exited, exited' = exited, ~acp,
         thread' = thread, turn' = turn, answered' = answered, waiters' = waiters,
         stored' = stored, ended' = ended, running' = running, owes' = owes,
         ~Pending(Request), ~Some(lines', Answer), Once(lines', Answer), Ordered(lines'),
         owes = {}, answered = 0,
         \A k \in {"response", "started", "completed"}, t \in Turn :
            Holds(lines', k, t) <=> Holds(lines, k, t),
         NEW kind \in Request, NEW n \in 0 .. MaxTurns, inbox' = Append(inbox, Msg(kind, n)),
         call' \notin {"idle"}, call' = "start" <=> kind = "prompt",
         kind = "prompt" => thread /\ n \in Turn /\ n \notin ended /\ n \notin waiters,
         turn = 0 => NoLive, kind = "prompt" => turn = 0,
         call' \in {"init", "resume", "new"} => ~thread
  PROVE  Core'
  <1>1. /\ \A j, u : Holds(inbox', j, u) <=> Holds(inbox, j, u) \/ (j = kind /\ u = n)
        /\ \A K : Some(inbox', K) <=> Some(inbox, K) \/ kind \in K
        /\ Once(inbox, Request) /\ ~Some(inbox, Request) => Once(inbox', Request)
    <2>1. InboxTypes /\ kind \in Request \cup {"cancel", "declined"} /\ (kind = "prompt" => n # 0)
      BY DEF Types, Turn
    <2>. QED
      BY <2>1, Asks
  <1>2. ~Some(inbox, Request) /\ ~Some(inbox, {"prompt"}) /\ ~Some(inbox, Request \ {"prompt"})
        /\ \A t : ~Holds(inbox, "prompt", t)
    <2>1. ~Some(inbox, Request)
      BY DEF Pending
    <2>2. {"prompt"} \subseteq Request /\ Request \ {"prompt"} \subseteq Request
      BY DEF Request
    <2>3. \A t : ~Holds(inbox, "prompt", t)
      BY <2>1 DEF Some, Holds, Request, Msg
    <2>. QED
      BY <2>1, <2>2, <2>3, SomeMore
  <1>3. ~Some(lines', {"response"}) /\ ~Some(lines', {"refused"})
    BY SomeMore DEF Answer
  <1>4. OneAnswer'
    <2>1. Once(inbox', Request)
      BY <1>1, <1>2 DEF Core, OneAnswer
    <2>2. Some(inbox', {"prompt"}) <=> kind = "prompt"
      BY <1>1, <1>2
    <2>3. Some(inbox', Request \ {"prompt"}) => kind # "prompt"
      BY <1>1, <1>2
    <2>. QED
      BY <1>3, <2>1, <2>2, <2>3 DEF OneAnswer, Pending, Heard
  <1>5. \A t \in Turn : (Live(t)' <=> Live(t)) /\ (Owed(t)' <=> Owed(t))
    BY DEF Live, Owed, Has
  <1>6. Phases'
    <2>1. turn = 0 => NoLive'
      BY <1>5 DEF NoLive
    <2>2. \A t \in Turn : Holds(inbox', "prompt", t) => t \notin ended /\ t \notin waiters
      BY <1>1, <1>2
    <2>3. call' = "start" => turn = 0
      OBVIOUS
    <2>. QED
      BY <2>1, <2>2, <2>3 DEF Phases
  <1>7. OneLive'
    BY <1>5 DEF Core, OneLive
  <1>8. Over'
    BY DEF Core, Over, Has, Types, ClientTypes
  <1>9. OwedTurn'
    BY <1>5 DEF Core, OwedTurn, Has
  <1>10. Unopened'
    BY <1>5 DEF Core, Unopened, NoLive
  <1>. QED
    BY <1>4, <1>6, <1>7, <1>8, <1>9, <1>10 DEF Core

LEMMA OpenKeeps == ASSUME Inductive, Open PROVE Inductive'
  <1>0. Types /\ TextsAreNew
    BY DEF Inductive
  <1>1. /\ hostUp /\ call = "idle" /\ ~exited /\ toHost # <<>> /\ Head(toHost).kind = "open"
        /\ toHost' = Tail(toHost) /\ toPanel' = toPanel /\ panel' = panel /\ used' = used
        /\ hostUp' = hostUp /\ acp' = acp /\ agentUp' = agentUp /\ exited' = exited
        /\ inbox' = Append(inbox, Msg("init", 0)) /\ lines' = lines /\ call' = "init"
        /\ thread' = thread /\ turn' = turn /\ answered' = answered /\ waiters' = waiters
        /\ stored' = stored /\ prompts' = prompts /\ ended' = ended
        /\ running' = running /\ owes' = owes
    BY DEF Open, Handling, Taken, Ask, agent
  <1>2. /\ "init" \in Request /\ 0 \in 0 .. MaxTurns
    BY ConstantsAssumption DEF Request
  <1>3. InboxTypes' /\ \A t : Holds(inbox', "prompt", t) <=> Holds(inbox, "prompt", t)
    BY <1>0, <1>1, <1>2, Asks DEF Types
  <1>4. PICK n : n = Head(toHost).turn
    OBVIOUS
  <1>5. /\ toHost' \in Seq(Clicking) /\ TextsOrdered(toHost')
        /\ \A u : Holds(toHost', "start", u) => Holds(toHost, "start", u)
        /\ Once(toHost, {"open"}) => Once(toHost', {"open"}) /\ ~Some(toHost', {"open"})
        /\ Some(toHost, {"open"})
    BY <1>0, <1>1, <1>4, HostTakes DEF Types, TextsAreNew
  <1>6. ClientTypes' /\ LineTypes'
    BY <1>0, <1>1 DEF Types, ClientTypes, LineTypes, Has, Heard
  <1>7. TextsAreNew'
    <2>1. \A t \in Turn : Known(t)' => Known(t)
      BY <1>1, <1>3 DEF Known, Has
    <2>. QED
      BY <1>0, <1>1, <1>5, <2>1, TextsLeft
  <1>8. NoPhantomTurn'
    BY <1>1 DEF Inductive, NoPhantomTurn
  <1>9. ASSUME ~acp PROVE Core' /\ Opening' /\ Follows'
    <2>1. Core /\ Opening /\ Follows
      BY <1>9 DEF Inductive
    <2>2. ~Pending(Request) /\ ~Heard(Answer) /\ owes = {} /\ answered = 0
      BY <1>1, <2>1, IdleIsQuiet
    <2>3. ~thread
      BY <1>5, <2>1 DEF Opening
    <2>4. turn = 0 => NoLive
      BY <1>1, <2>1 DEF Core, Phases
    <2>5. Once(lines', Answer) /\ Ordered(lines') /\ ~Some(lines', Answer)
      BY <1>1, <2>1, <2>2 DEF Core, OneAnswer, Heard
    <2>6. Core'
      BY <1>0, <1>1, <1>2, <1>9, <2>1, <2>2, <2>3, <2>4, <2>5, RequestKeeps
    <2>7. Opening'
      BY <1>5, <2>1 DEF Opening
    <2>8. Follows'
      BY <1>1, <2>1 DEF Follows, Believes, Has
    <2>. QED
      BY <2>6, <2>7, <2>8
  <1>10. Types'
    BY <1>0, <1>1, <1>3, <1>5, <1>6 DEF Types
  <1>. QED
    BY <1>1, <1>7, <1>8, <1>9, <1>10 DEF Inductive

(* The host takes a text only when the last turn is over and forgotten.     *)
LEMMA StartTurnKeeps == ASSUME Inductive, StartTurn PROVE Inductive'
  <1>0. Types /\ TextsAreNew
    BY DEF Inductive
  <1>1. PICK n : n = Head(toHost).turn
    OBVIOUS
  <1>2. /\ ~acp /\ hostUp /\ call = "idle" /\ ~exited /\ toHost # <<>> /\ Head(toHost).kind = "start"
        /\ thread /\ turn = 0
        /\ toHost' = Tail(toHost) /\ toPanel' = toPanel /\ panel' = panel /\ used' = used
        /\ hostUp' = hostUp /\ acp' = acp /\ agentUp' = agentUp /\ exited' = exited
        /\ inbox' = Append(inbox, Msg("prompt", n)) /\ lines' = lines /\ call' = "start"
        /\ thread' = thread /\ turn' = turn /\ answered' = answered /\ waiters' = waiters
        /\ stored' = stored /\ prompts' = prompts /\ ended' = ended
        /\ running' = running /\ owes' = owes
    BY <1>1 DEF StartTurn, Handling, Taken, Ask, agent
  <1>3. n \in Turn /\ ~Known(n)
    BY <1>0, <1>1, <1>2, TextIsNew
  <1>4. "prompt" \in Request /\ n \in 0 .. MaxTurns /\ n # 0
    BY <1>3, ConstantsAssumption DEF Request, Turn
  <1>5. /\ InboxTypes'
        /\ \A t : Holds(inbox', "prompt", t) <=> Holds(inbox, "prompt", t) \/ t = n
    BY <1>0, <1>2, <1>4, Asks DEF Types
  <1>6. /\ toHost' \in Seq(Clicking)
        /\ Once(toHost, {"open"}) => Once(toHost', {"open"})
        /\ Some(toHost', {"open"}) => Some(toHost, {"open"})
    BY <1>0, <1>1, <1>2, HostTakes DEF Types, TextsAreNew
  <1>7. ClientTypes' /\ LineTypes'
    BY <1>0, <1>2 DEF Types, ClientTypes, LineTypes, Has, Heard
  <1>8. TextsAreNew'
    <2>1. \A t \in Turn : Known(t)' => Known(t) \/ t = n
      BY <1>2, <1>5 DEF Known, Has
    <2>. QED
      BY <1>0, <1>1, <1>2, <2>1, TextIsTaken
  <1>9. NoPhantomTurn'
    BY <1>2 DEF Inductive, NoPhantomTurn
  <1>10. Core' /\ Opening' /\ Follows'
    <2>1. Core /\ Opening /\ Follows
      BY <1>2 DEF Inductive
    <2>2. ~Pending(Request) /\ ~Heard(Answer) /\ owes = {} /\ answered = 0
      BY <1>2, <2>1, IdleIsQuiet
    <2>3. n \notin ended /\ n \notin waiters
      BY <1>3 DEF Known
    <2>4. turn = 0 => NoLive
      BY <1>2, <2>1 DEF Core, Phases
    <2>5. Once(lines', Answer) /\ Ordered(lines') /\ ~Some(lines', Answer)
      BY <1>2, <2>1, <2>2 DEF Core, OneAnswer, Heard
    <2>6. Core'
      BY <1>0, <1>2, <1>3, <1>4, <2>1, <2>2, <2>3, <2>4, <2>5, RequestKeeps
    <2>7. Opening'
      BY <1>2, <1>6, <2>1 DEF Opening
    <2>8. Follows'
      BY <1>2, <2>1 DEF Follows, Believes, Has
    <2>. QED
      BY <2>6, <2>7, <2>8
  <1>11. Types'
    BY <1>0, <1>2, <1>5, <1>6, <1>7 DEF Types
  <1>. QED
    BY <1>8, <1>9, <1>10, <1>11 DEF Inductive

LEMMA InterruptTurnKeeps == ASSUME Inductive, InterruptTurn PROVE Inductive'
  <1>0. Types /\ TextsAreNew
    BY DEF Inductive
  <1>1. PICK n : n = turn
    OBVIOUS
  <1>2. /\ ~acp /\ hostUp /\ call = "idle" /\ ~exited /\ toHost # <<>> /\ Head(toHost).kind = "interrupt"
        /\ thread /\ turn # 0
        /\ toHost' = Tail(toHost) /\ toPanel' = toPanel /\ panel' = panel /\ used' = used
        /\ hostUp' = hostUp /\ acp' = acp /\ agentUp' = agentUp /\ exited' = exited
        /\ inbox' = Append(inbox, Msg("interrupt", n)) /\ lines' = lines /\ call' = "interrupt"
        /\ thread' = thread /\ turn' = turn /\ answered' = answered /\ waiters' = waiters
        /\ stored' = stored /\ prompts' = prompts /\ ended' = ended
        /\ running' = running /\ owes' = owes
    BY <1>1 DEF InterruptTurn, Handling, Taken, Ask, agent
  <1>3. "interrupt" \in Request /\ n \in 0 .. MaxTurns
    BY <1>0, <1>1 DEF Request, Types, ClientTypes
  <1>4. InboxTypes' /\ \A t : Holds(inbox', "prompt", t) <=> Holds(inbox, "prompt", t)
    BY <1>0, <1>2, <1>3, Asks DEF Types
  <1>5. PICK m : m = Head(toHost).turn
    OBVIOUS
  <1>6. /\ toHost' \in Seq(Clicking) /\ TextsOrdered(toHost')
        /\ \A u : Holds(toHost', "start", u) => Holds(toHost, "start", u)
        /\ Once(toHost, {"open"}) => Once(toHost', {"open"})
        /\ Some(toHost', {"open"}) => Some(toHost, {"open"})
    BY <1>0, <1>2, <1>5, HostTakes DEF Types, TextsAreNew
  <1>7. ClientTypes' /\ LineTypes'
    BY <1>0, <1>2 DEF Types, ClientTypes, LineTypes, Has, Heard
  <1>8. TextsAreNew'
    <2>1. \A t \in Turn : Known(t)' => Known(t)
      BY <1>2, <1>4 DEF Known, Has
    <2>. QED
      BY <1>0, <1>2, <1>6, <2>1, TextsLeft
  <1>9. NoPhantomTurn'
    BY <1>2 DEF Inductive, NoPhantomTurn
  <1>10. Core' /\ Opening' /\ Follows'
    <2>1. Core /\ Opening /\ Follows
      BY <1>2 DEF Inductive
    <2>2. ~Pending(Request) /\ ~Heard(Answer) /\ owes = {} /\ answered = 0
      BY <1>2, <2>1, IdleIsQuiet
    <2>3. Once(lines', Answer) /\ Ordered(lines') /\ ~Some(lines', Answer)
      BY <1>2, <2>1, <2>2 DEF Core, OneAnswer, Heard
    <2>4. Core'
      BY <1>0, <1>2, <1>3, <2>1, <2>2, <2>3, RequestKeeps
    <2>5. Opening'
      BY <1>2, <1>6, <2>1 DEF Opening
    <2>6. Follows'
      BY <1>2, <2>1 DEF Follows, Believes, Has
    <2>. QED
      BY <2>4, <2>5, <2>6
  <1>11. Types'
    BY <1>0, <1>2, <1>4, <1>6, <1>7 DEF Types
  <1>. QED
    BY <1>8, <1>9, <1>10, <1>11 DEF Inductive

(* A line that neither starts nor ends a turn, nor answers a request.       *)
InboxSame ==
  /\ Once(inbox, Request) => Once(inbox', Request)
  /\ \A K \in {Request, {"prompt"}, Request \ {"prompt"}} : Some(inbox', K) <=> Some(inbox, K)
  /\ \A t : Holds(inbox', "prompt", t) <=> Holds(inbox, "prompt", t)

LEMMA InboxRests == inbox' = inbox => InboxSame
  BY DEF InboxSame

LEMMA LineDrops ==
  ASSUME Types, Core, InboxSame, lines # <<>>, lines' = Tail(lines),
         acp' = acp, exited' = exited, call' = call, thread' = thread, turn' = turn,
         answered' = answered, waiters' = waiters, stored' = stored, ended' = ended,
         running' = running, owes' = owes,
         NEW kind, Head(lines).kind = kind,
         kind \notin {"started", "completed"}, kind \in Answer => exited
  PROVE  Core'
  <1>1. PICK n : n = Head(lines).turn
    OBVIOUS
  <1>2. /\ \A j, u : Holds(lines, j, u) <=> Holds(lines', j, u) \/ (j = kind /\ u = n)
        /\ \A K : Some(lines, K) <=> Some(lines', K) \/ kind \in K
        /\ Once(lines, Answer) => Once(lines', Answer)
        /\ Ordered(lines')
    BY <1>1, LineRead DEF Types, Core
  <1>3. \A t : /\ Holds(lines', "started", t) <=> Holds(lines, "started", t)
               /\ Holds(lines', "completed", t) <=> Holds(lines, "completed", t)
               /\ Holds(lines', "response", t) => Holds(lines, "response", t)
    BY <1>2
  <1>4. \A t : (Live(t)' => Live(t)) /\ (Owed(t)' => Owed(t))
    BY <1>3 DEF Live, Owed, Has
  <1>5. ASSUME ~exited PROVE OneAnswer' /\ Phases'
    <2>1. OneAnswer /\ Phases /\ kind \notin Answer
      BY <1>5 DEF Core
    <2>2. (Some(lines', Answer) <=> Some(lines, Answer))
          /\ (Some(lines', {"response"}) <=> Some(lines, {"response"}))
          /\ (Some(lines', {"refused"}) <=> Some(lines, {"refused"}))
      BY <1>2, <2>1 DEF Answer
    <2>3. OneAnswer'
      BY <1>2, <2>1, <2>2 DEF OneAnswer, Pending, Heard, InboxSame
    <2>4. NoLive => NoLive'
      BY <1>4 DEF NoLive
    <2>5. Phases'
      BY <2>1, <2>2, <2>4 DEF Phases, Pending, Heard, InboxSame
    <2>. QED
      BY <2>3, <2>5
  <1>6. OneLive'
    BY <1>4 DEF Core, OneLive
  <1>7. Over'
    BY <1>3 DEF Core, Over, Has, Types, ClientTypes
  <1>8. OwedTurn'
    BY <1>3, <1>4 DEF Core, OwedTurn, Has
  <1>9. Unopened'
    BY <1>4 DEF Core, Unopened, NoLive
  <1>. QED
    BY <1>2, <1>5, <1>6, <1>7, <1>8, <1>9 DEF Core

(* A line read leaves no more turns known.                                  *)
LEMMA LineForgets ==
  ASSUME Types, TextsAreNew, lines # <<>>, lines' = Tail(lines), acp' = acp,
         used'.turns = used.turns, toHost' = toHost,
         \A t : Holds(inbox', "prompt", t) => Holds(inbox, "prompt", t),
         \A t \in Turn : t \in ended' \cup running' \cup owes' \cup stored' \cup waiters' \cup prompts'
                              \cup {turn', answered'} => Known(t)
  PROVE  TextsAreNew'
  <1>1. PICK k, n : k = Head(lines).kind /\ n = Head(lines).turn
    OBVIOUS
  <1>2. \A j, u : Holds(lines', j, u) => Holds(lines, j, u)
    BY <1>1, LineRead DEF Types
  <1>3. \A t \in Turn : Known(t)' => Known(t)
    BY <1>2 DEF Known, Has
  <1>. QED
    BY <1>3, TextsLeft DEF TextsAreNew

LEMMA DeltaKeeps == ASSUME Inductive, Delta PROVE Inductive'
  <1>0. Types /\ TextsAreNew
    BY DEF Inductive
  <1>1. PICK n : n = Head(lines).turn
    OBVIOUS
  <1>2. /\ hostUp /\ lines # <<>> /\ Head(lines).kind = "delta" /\ lines' = Tail(lines)
        /\ panel' = panel /\ used' = used /\ toHost' = toHost /\ hostUp' = hostUp
        /\ acp' = acp /\ agentUp' = agentUp /\ exited' = exited /\ inbox' = inbox
        /\ call' = call /\ thread' = thread /\ turn' = turn /\ answered' = answered
        /\ waiters' = waiters /\ stored' = stored /\ prompts' = prompts /\ ended' = ended
        /\ running' = running /\ owes' = owes
        /\ \E t \in {turn, n} : toPanel' = toPanel \/ toPanel' = Append(toPanel, Msg("delta", t))
    BY <1>1 DEF Delta, Line, Read, Emit, agent, client
  <1>3. /\ LineTypes' /\ n \in 0 .. MaxTurns
        /\ \A j, u : Holds(lines, j, u) <=> Holds(lines', j, u) \/ (j = "delta" /\ u = n)
    BY <1>0, <1>1, <1>2, LineRead DEF Types
  <1>4. PICK t \in {turn, n} : toPanel' = toPanel \/ toPanel' = Append(toPanel, Msg("delta", t))
    BY <1>2
  <1>5. t \in 0 .. MaxTurns
    BY <1>0, <1>3, <1>4 DEF Types, ClientTypes
  <1>6. toPanel' \in Seq(Showing) /\ (Follows => Follows')
    <2>1. \A u \in Turn : Has("started", u) => Has("started", u)'
      BY <1>3 DEF Has
    <2>2. hostUp' \in BOOLEAN
      BY <1>0, <1>2 DEF Types, ClientTypes
    <2>. QED
      BY <1>0, <1>2, <1>4, <1>5, <2>1, <2>2, NothingTold
  <1>7. ClientTypes' /\ InboxTypes'
    BY <1>0, <1>2 DEF Types, ClientTypes, InboxTypes
  <1>8. TextsAreNew'
    <2>1. \A u \in Turn : u \in ended' \cup running' \cup owes' \cup stored' \cup waiters' \cup prompts'
                              \cup {turn', answered'} => Known(u)
      BY <1>2 DEF Known
    <2>. QED
      BY <1>0, <1>2, <2>1, LineForgets
  <1>9. NoPhantomTurn'
    BY <1>2 DEF Inductive, NoPhantomTurn
  <1>10. ASSUME ~acp PROVE Core' /\ Opening' /\ Follows'
    <2>1. Core /\ Opening /\ Follows
      BY <1>10 DEF Inductive
    <2>2. "delta" \notin Answer
      BY DEF Answer
    <2>3. Core'
      BY <1>0, <1>2, <2>1, <2>2, LineDrops, InboxRests
    <2>4. Opening'
      BY <1>2, <2>1 DEF Opening
    <2>. QED
      BY <1>6, <2>1, <2>3, <2>4
  <1>11. Types'
    BY <1>0, <1>2, <1>3, <1>6, <1>7 DEF Types
  <1>. QED
    BY <1>2, <1>8, <1>9, <1>10, <1>11 DEF Inductive

LEMMA UnmatchedKeeps == ASSUME Inductive, Unmatched PROVE Inductive'
  <1>0. Types /\ TextsAreNew
    BY DEF Inductive
  <1>1. PICK k, n : k = Head(lines).kind /\ n = Head(lines).turn
    OBVIOUS
  <1>2. /\ hostUp /\ lines # <<>> /\ lines' = Tail(lines) /\ exited
        /\ k \in {"ok", "refused", "response", "failed"} \/ acp
        /\ panel' = panel /\ used' = used /\ toHost' = toHost /\ hostUp' = hostUp
        /\ acp' = acp /\ agentUp' = agentUp /\ exited' = exited /\ inbox' = inbox
        /\ call' = call /\ thread' = thread /\ turn' = turn /\ answered' = answered
        /\ waiters' = waiters /\ stored' = stored /\ prompts' = prompts /\ ended' = ended
        /\ running' = running /\ owes' = owes /\ toPanel' = toPanel
    BY <1>1 DEF Unmatched, Line, Read, agent, client
  <1>3. /\ LineTypes'
        /\ \A j, u : Holds(lines, j, u) <=> Holds(lines', j, u) \/ (j = k /\ u = n)
    BY <1>0, <1>1, <1>2, LineRead DEF Types
  <1>4. ClientTypes' /\ InboxTypes'
    BY <1>0, <1>2 DEF Types, ClientTypes, InboxTypes
  <1>5. TextsAreNew'
    <2>1. \A u \in Turn : u \in ended' \cup running' \cup owes' \cup stored' \cup waiters' \cup prompts'
                              \cup {turn', answered'} => Known(u)
      BY <1>2 DEF Known
    <2>. QED
      BY <1>0, <1>2, <2>1, LineForgets
  <1>6. NoPhantomTurn'
    BY <1>2 DEF Inductive, NoPhantomTurn
  <1>7. ASSUME ~acp PROVE Core' /\ Opening' /\ Follows'
    <2>1. Core /\ Opening /\ Follows
      BY <1>7 DEF Inductive
    <2>2. k \notin {"started", "completed"}
      BY <1>2, <1>7
    <2>3. Core'
      BY <1>0, <1>1, <1>2, <2>1, <2>2, LineDrops, InboxRests
    <2>4. Opening'
      BY <1>2, <2>1 DEF Opening
    <2>5. Follows'
      BY <1>2, <1>3, <2>1, <2>2 DEF Follows, Believes, Has
    <2>. QED
      BY <2>1, <2>3, <2>4, <2>5
  <1>8. Types'
    BY <1>0, <1>2, <1>3, <1>4 DEF Types
  <1>. QED
    BY <1>2, <1>5, <1>6, <1>7, <1>8 DEF Inductive

LEMMA ServerRequestKeeps == ASSUME Inductive, ServerRequest PROVE Inductive'
  <1>0. Types /\ TextsAreNew
    BY DEF Inductive
  <1>1. PICK n : n = Head(lines).turn
    OBVIOUS
  <1>2. /\ hostUp /\ lines # <<>> /\ lines' = Tail(lines) /\ Head(lines).kind = "ask"
        /\ panel' = panel /\ used' = used /\ toHost' = toHost
        /\ acp' = acp /\ agentUp' = agentUp /\ exited' = exited
        /\ call' = call /\ thread' = thread /\ turn' = turn /\ answered' = answered
        /\ waiters' = waiters /\ stored' = stored /\ prompts' = prompts /\ ended' = ended
        /\ running' = running /\ owes' = owes
        /\ \/ inbox' = inbox /\ hostUp' = FALSE
              /\ toPanel' = toPanel \o <<Msg("violation", 0), Msg("closed", 0)>>
           \/ inbox' = Append(inbox, Msg("declined", 0)) /\ hostUp' = hostUp
              /\ toPanel' = Append(toPanel, Msg("violation", 0))
    BY DEF ServerRequest, Line, Ask, Emit, agent, client
  <1>3. /\ LineTypes'
        /\ \A j, u : Holds(lines, j, u) <=> Holds(lines', j, u) \/ (j = "ask" /\ u = n)
    BY <1>0, <1>1, <1>2, LineRead DEF Types
  <1>4. InboxTypes' /\ InboxSame
    <2>1. CASE inbox' = inbox
      BY <1>0, <2>1, InboxRests DEF Types, InboxTypes
    <2>2. CASE inbox' = Append(inbox, Msg("declined", 0))
      <3>1. "declined" \notin Request /\ 0 \in 0 .. MaxTurns
        BY ConstantsAssumption DEF Request
      <3>2. /\ InboxTypes'
            /\ \A j, u : Holds(inbox', j, u) <=> Holds(inbox, j, u) \/ (j = "declined" /\ u = 0)
            /\ \A K : Some(inbox', K) <=> Some(inbox, K) \/ "declined" \in K
            /\ Once(inbox, Request) => Once(inbox', Request)
        BY <1>0, <2>2, <3>1, Asks DEF Types
      <3>. QED
        BY <3>1, <3>2 DEF InboxSame
    <2>. QED
      BY <1>2, <2>1, <2>2
  <1>5. /\ toPanel' \in Seq(Showing)
        /\ ~acp /\ Follows => Follows'
    <2>1. toPanel \in Seq(Showing) /\ panel \in PanelRecord /\ 0 \in 0 .. MaxTurns
      BY <1>0, ConstantsAssumption DEF Types
    <2>2. CASE toPanel' = Append(toPanel, Msg("violation", 0)) /\ hostUp' = hostUp
      <3>1. \A u \in Turn : Has("started", u) => Has("started", u)'
        BY <1>3 DEF Has
      <3>2. hostUp' \in BOOLEAN
        BY <1>0, <2>2 DEF Types, ClientTypes
      <3>. QED
        BY <1>0, <1>2, <2>1, <2>2, <3>1, <3>2, NothingTold
    <2>3. CASE hostUp' = FALSE /\ toPanel' = toPanel \o <<Msg("violation", 0), Msg("closed", 0)>>
      <3>1. Msg("violation", 0) \in Showing /\ Msg("closed", 0) \in Showing
        BY <2>1, MsgIs DEF Showing
      <3>. QED
        BY <2>1, <2>3, <3>1 DEF Follows
    <2>. QED
      BY <1>2, <2>2, <2>3
  <1>6. ClientTypes'
    BY <1>0, <1>2 DEF Types, ClientTypes
  <1>7. TextsAreNew'
    <2>1. \A u \in Turn : u \in ended' \cup running' \cup owes' \cup stored' \cup waiters' \cup prompts'
                              \cup {turn', answered'} => Known(u)
      BY <1>2 DEF Known
    <2>. QED
      BY <1>0, <1>2, <1>4, <2>1, LineForgets DEF InboxSame
  <1>8. NoPhantomTurn'
    BY <1>2 DEF Inductive, NoPhantomTurn
  <1>9. ASSUME ~acp PROVE Core' /\ Opening' /\ Follows'
    <2>1. Core /\ Opening /\ Follows
      BY <1>9 DEF Inductive
    <2>2. "ask" \notin Answer
      BY DEF Answer
    <2>3. Core'
      BY <1>0, <1>2, <1>4, <2>1, <2>2, LineDrops
    <2>4. Opening'
      BY <1>2, <2>1 DEF Opening
    <2>. QED
      BY <1>5, <1>9, <2>1, <2>3, <2>4
  <1>10. Types'
    BY <1>0, <1>2, <1>3, <1>4, <1>5, <1>6 DEF Types
  <1>. QED
    BY <1>2, <1>7, <1>8, <1>9, <1>10 DEF Inductive

(* An answer is read while its request is under way: nothing else is.       *)
LEMMA AnswerRead ==
  ASSUME Types, Core, ~exited, lines # <<>>, lines' = Tail(lines), acp' = acp,
         NEW kind \in Answer, NEW n, Head(lines).kind = kind, Head(lines).turn = n
  PROVE  /\ ~Pending(Request) /\ Once(inbox, Request)
         /\ ~Some(lines', Answer) /\ Once(lines', Answer) /\ Ordered(lines')
         /\ owes = {} /\ answered = 0 /\ call # "idle"
         /\ kind = "response" => call = "start" /\ n \in Turn
         /\ kind = "refused" => Heard({"refused"})
         /\ \A t : /\ Holds(lines', "started", t) <=> Holds(lines, "started", t)
                   /\ Holds(lines', "completed", t) <=> Holds(lines, "completed", t)
                   /\ Holds(lines, "response", t) <=>
                        Holds(lines', "response", t) \/ ("response" = kind /\ t = n)
  <1>1. OneAnswer /\ Ordered(lines)
    BY DEF Core
  <1>2. /\ \A j, u : Holds(lines, j, u) <=> Holds(lines', j, u) \/ (j = kind /\ u = n)
        /\ \A K : Some(lines, K) <=> Some(lines', K) \/ kind \in K
        /\ Once(lines', Answer) /\ ~Some(lines', Answer) /\ Ordered(lines')
        /\ kind \in OfTurn => n \in Turn
    BY <1>1, LineRead DEF Types, OneAnswer
  <1>3. Heard(Answer) /\ (kind = "response" => Heard({"response"}))
        /\ (kind = "refused" => Heard({"refused"}))
    BY <1>2 DEF Heard
  <1>4. ~Pending(Request) /\ Once(inbox, Request) /\ owes = {} /\ answered = 0 /\ call # "idle"
        /\ (kind = "response" => call = "start")
    BY <1>1, <1>3 DEF OneAnswer
  <1>5. "started" # kind /\ "completed" # kind /\ (kind = "response" => kind \in OfTurn)
    BY DEF Answer, OfTurn
  <1>6. \A t : /\ Holds(lines', "started", t) <=> Holds(lines, "started", t)
               /\ Holds(lines', "completed", t) <=> Holds(lines, "completed", t)
               /\ Holds(lines, "response", t) <=>
                    Holds(lines', "response", t) \/ ("response" = kind /\ t = n)
    BY <1>2, <1>5
  <1>. QED
    BY <1>2, <1>3, <1>4, <1>5, <1>6

(* What the client and the agent still have to do with a turn is the same.  *)
LEMMA TurnsSame ==
  ASSUME Types, Core, Ordered(lines'), turn' = turn, waiters' = waiters, stored' = stored,
         ended' = ended, running' = running, ~thread' => ~thread /\ call' # "start",
         \A t \in Turn : (Live(t)' <=> Live(t)) /\ (Owed(t)' <=> Owed(t)),
         \A t \in Turn : /\ Holds(lines', "started", t) <=> Holds(lines, "started", t)
                         /\ Holds(lines', "completed", t) <=> Holds(lines, "completed", t)
  PROVE  OneLive' /\ Ordered(lines)' /\ Over' /\ OwedTurn' /\ Unopened' /\ (NoLive => NoLive')
  <1>1. ended \subseteq Turn
    BY DEF Types, ClientTypes
  <1>2. OneLive'
    BY DEF Core, OneLive
  <1>3. Over'
    BY <1>1 DEF Core, Over, Has
  <1>4. OwedTurn'
    BY DEF Core, OwedTurn, Has
  <1>5. NoLive => NoLive'
    BY DEF NoLive
  <1>6. Unopened'
    BY <1>5 DEF Core, Unopened
  <1>. QED
    BY <1>2, <1>3, <1>4, <1>5, <1>6

(* The answered handler returns.                                            *)
LEMMA ReturnKeeps ==
  ASSUME Types, Core, ~exited, exited' = exited, inbox' = inbox, Once(inbox, Request), ~Pending(Request),
         ~Some(lines', Answer), Once(lines', Answer), Ordered(lines'), owes = {}, answered = 0,
         turn' = turn, answered' = answered, waiters' = waiters, stored' = stored,
         ended' = ended, running' = running, owes' = owes, thread => thread', call' = "idle",
         thread \in BOOLEAN,
         \A t : /\ Holds(lines', "started", t) <=> Holds(lines, "started", t)
                /\ Holds(lines', "completed", t) <=> Holds(lines, "completed", t)
                /\ Holds(lines', "response", t) <=> Holds(lines, "response", t),
         turn = 0 => NoLive
  PROVE  Core'
  <1>1. \A t \in Turn : (Live(t)' <=> Live(t)) /\ (Owed(t)' <=> Owed(t))
    BY DEF Live, Owed, Has
  <1>2. OneLive' /\ Ordered(lines)' /\ Over' /\ OwedTurn' /\ Unopened' /\ (NoLive => NoLive')
    BY <1>1, TurnsSame
  <1>3. OneAnswer'
    <2>1. ~Some(lines', {"response"})
      BY SomeMore DEF Answer
    <2>2. ~Some(inbox, Request) /\ ~Some(inbox, {"prompt"}) /\ ~Some(inbox, Request \ {"prompt"})
      BY SomeMore DEF Pending, Request
    <2>. QED
      BY <2>1, <2>2 DEF OneAnswer, Pending, Heard
  <1>4. Phases'
    <2>1. \A t : ~Holds(inbox, "prompt", t)
      BY DEF Pending, Some, Holds, Request, Msg
    <2>. QED
      BY <1>2, <2>1 DEF Phases
  <1>. QED
    BY <1>2, <1>3, <1>4 DEF Core

LEMMA RefusedKeeps == ASSUME Inductive, Refused PROVE Inductive'
  <1>0. Types /\ TextsAreNew
    BY DEF Inductive
  <1>1. PICK n : n = Head(lines).turn
    OBVIOUS
  <1>2. /\ hostUp /\ ~exited /\ lines # <<>> /\ lines' = Tail(lines) /\ Head(lines).kind = "refused"
        /\ panel' = panel /\ used' = used /\ toHost' = toHost /\ hostUp' = hostUp
        /\ acp' = acp /\ agentUp' = agentUp /\ exited' = exited
        /\ thread' = thread /\ turn' = turn /\ answered' = answered
        /\ waiters' = waiters /\ stored' = stored /\ prompts' = prompts /\ ended' = ended
        /\ running' = running /\ owes' = owes
        /\ \/ acp /\ call' = "new" /\ inbox' = Append(inbox, Msg("new", 0)) /\ toPanel' = toPanel
           \/ call' = "idle" /\ inbox' = inbox /\ toPanel' = Append(toPanel, Msg("error", 0))
    BY DEF Refused, Line, Read, Ask, Emit, agent
  <1>3. /\ LineTypes' /\ n \in 0 .. MaxTurns
        /\ \A j, u : Holds(lines, j, u) <=> Holds(lines', j, u) \/ (j = "refused" /\ u = n)
    BY <1>0, <1>1, <1>2, LineRead DEF Types
  <1>4. InboxTypes' /\ \A t : Holds(inbox', "prompt", t) <=> Holds(inbox, "prompt", t)
    <2>1. CASE inbox' = inbox
      BY <1>0, <2>1 DEF Types, InboxTypes
    <2>2. CASE inbox' = Append(inbox, Msg("new", 0))
      <3>1. "new" \in Request /\ 0 \in 0 .. MaxTurns
        BY ConstantsAssumption DEF Request
      <3>. QED
        BY <1>0, <2>2, <3>1, Asks DEF Types
    <2>. QED
      BY <1>2, <2>1, <2>2
  <1>5. toPanel' \in Seq(Showing) /\ (Follows => Follows')
    <2>1. \A u \in Turn : Has("started", u) => Has("started", u)'
      BY <1>3 DEF Has
    <2>2. hostUp' \in BOOLEAN /\ 0 \in 0 .. MaxTurns
      BY <1>0, <1>2, ConstantsAssumption DEF Types, ClientTypes
    <2>3. toPanel' = toPanel \/ toPanel' = Append(toPanel, Msg("error", 0))
      BY <1>2
    <2>. QED
      BY <1>0, <1>2, <2>1, <2>2, <2>3, NothingTold
  <1>6. ASSUME ~acp PROVE Core' /\ Opening' /\ Follows'
    <2>1. Core /\ Opening /\ Follows
      BY <1>6 DEF Inductive
    <2>2. "refused" \in Answer
      BY DEF Answer
    <2>3. /\ ~Pending(Request) /\ Once(inbox, Request)
          /\ ~Some(lines', Answer) /\ Once(lines', Answer) /\ Ordered(lines')
          /\ owes = {} /\ answered = 0 /\ call # "idle" /\ Heard({"refused"})
          /\ \A t : /\ Holds(lines', "started", t) <=> Holds(lines, "started", t)
                    /\ Holds(lines', "completed", t) <=> Holds(lines, "completed", t)
                    /\ Holds(lines', "response", t) <=> Holds(lines, "response", t)
      BY <1>0, <1>1, <1>2, <2>1, <2>2, AnswerRead
    <2>4. turn = 0 => NoLive
      BY <1>2, <2>1, <2>3 DEF Core, Phases
    <2>5. thread \in BOOLEAN
      BY <1>0 DEF Types, ClientTypes
    <2>6. Core'
      BY <1>0, <1>2, <1>6, <2>1, <2>3, <2>4, <2>5, ReturnKeeps
    <2>7. Opening'
      BY <1>2, <2>1, <2>3 DEF Opening
    <2>. QED
      BY <1>5, <2>1, <2>6, <2>7
  <1>7. ClientTypes'
    <2>1. answered # 0 => ~acp
      BY <1>0 DEF Types, ClientTypes
    <2>2. answered = 0
      <3>1. CASE acp
        BY <2>1, <3>1
      <3>2. CASE ~acp
        <4>1. Core /\ "refused" \in Answer
          BY <3>2 DEF Inductive, Answer
        <4>. QED
          BY <1>0, <1>1, <1>2, <4>1, AnswerRead
      <3>. QED
        BY <3>1, <3>2
    <2>. QED
      BY <1>0, <1>2, <2>2 DEF Types, ClientTypes
  <1>8. TextsAreNew'
    <2>1. \A u \in Turn : u \in ended' \cup running' \cup owes' \cup stored' \cup waiters' \cup prompts'
                              \cup {turn', answered'} => Known(u)
      BY <1>2 DEF Known
    <2>. QED
      BY <1>0, <1>2, <1>4, <2>1, LineForgets
  <1>9. NoPhantomTurn'
    BY <1>2 DEF Inductive, NoPhantomTurn
  <1>10. Types'
    BY <1>0, <1>2, <1>3, <1>4, <1>5, <1>7 DEF Types
  <1>. QED
    BY <1>2, <1>6, <1>8, <1>9, <1>10 DEF Inductive

(* The answer to turn/start moves from the pipe to the promise.             *)
LEMMA ResponseKeeps == ASSUME Inductive, Response PROVE Inductive'
  <1>0. Types /\ TextsAreNew
    BY DEF Inductive
  <1>1. PICK n : n = Head(lines).turn
    OBVIOUS
  <1>2. /\ hostUp /\ ~exited /\ lines # <<>> /\ lines' = Tail(lines) /\ Head(lines).kind = "response"
        /\ panel' = panel /\ used' = used /\ toHost' = toHost /\ hostUp' = hostUp /\ toPanel' = toPanel
        /\ acp' = acp /\ agentUp' = agentUp /\ exited' = exited /\ inbox' = inbox /\ call' = call
        /\ thread' = thread /\ turn' = turn /\ answered' = n
        /\ waiters' = waiters /\ stored' = stored /\ prompts' = prompts /\ ended' = ended
        /\ running' = running /\ owes' = owes
    BY <1>1 DEF Response, Line, Read, agent
  <1>3. /\ LineTypes' /\ n \in 0 .. MaxTurns /\ ~acp
        /\ \A j, u : Holds(lines, j, u) <=> Holds(lines', j, u) \/ (j = "response" /\ u = n)
        /\ \A K : Some(lines, K) <=> Some(lines', K) \/ "response" \in K
    BY <1>0, <1>1, <1>2, LineRead DEF Types
  <1>4. Core /\ Opening /\ Follows /\ "response" \in Answer
    BY <1>3 DEF Inductive, Answer
  <1>5. /\ ~Pending(Request) /\ Once(inbox, Request)
        /\ ~Some(lines', Answer) /\ Once(lines', Answer) /\ Ordered(lines')
        /\ owes = {} /\ answered = 0 /\ call = "start" /\ n \in Turn
        /\ \A t : /\ Holds(lines', "started", t) <=> Holds(lines, "started", t)
                  /\ Holds(lines', "completed", t) <=> Holds(lines, "completed", t)
                  /\ Holds(lines, "response", t) <=> Holds(lines', "response", t) \/ t = n
    BY <1>0, <1>1, <1>2, <1>4, AnswerRead
  <1>6. n # 0
    BY <1>5 DEF Turn
  <1>7. Core'
    <2>1. \A t \in Turn : (Live(t)' <=> Live(t)) /\ (Owed(t)' <=> Owed(t))
      <3>1. \A t \in Turn : answered # t
        BY <1>5 DEF Turn
      <3>2. \A t \in Turn : Owed(t)' <=> Owed(t)
        BY <1>2, <1>5, <3>1 DEF Owed, Has
      <3>. QED
        BY <1>2, <1>5, <3>2 DEF Live, Has
    <2>2. ~thread' => ~thread /\ call' # "start"
      BY <1>2, <1>4 DEF Core, Unopened
    <2>3. OneLive' /\ Ordered(lines)' /\ Over' /\ OwedTurn' /\ Unopened'
      BY <1>0, <1>2, <1>4, <1>5, <2>1, <2>2, TurnsSame
    <2>4. OneAnswer'
      <3>1. ~Some(inbox, Request) /\ ~Some(inbox, {"prompt"}) /\ ~Some(inbox, Request \ {"prompt"})
        BY <1>5, SomeMore DEF Pending, Request
      <3>. QED
        BY <1>2, <1>5, <3>1 DEF OneAnswer, Pending, Heard
    <2>5. Phases'
      <3>1. ~Some(lines', {"refused"}) /\ ~Some(inbox, {"prompt"})
        BY <1>5, SomeMore DEF Pending, Request, Answer
      <3>. QED
        BY <1>2, <1>4, <1>5, <3>1 DEF Core, Phases, Pending, Heard
    <2>. QED
      BY <2>3, <2>4, <2>5 DEF Core
  <1>8. Opening' /\ Follows'
    BY <1>2, <1>4, <1>5 DEF Opening, Follows, Believes, Has
  <1>9. ClientTypes' /\ InboxTypes'
    BY <1>0, <1>2, <1>3, <1>5 DEF Types, ClientTypes, InboxTypes
  <1>10. TextsAreNew'
    <2>1. Known(n)
      BY <1>5 DEF Known, Has, OfTurn
    <2>2. \A u \in Turn : u \in ended' \cup running' \cup owes' \cup stored' \cup waiters' \cup prompts'
                              \cup {turn', answered'} => Known(u)
      BY <1>2, <2>1 DEF Known
    <2>. QED
      BY <1>0, <1>2, <2>2, LineForgets
  <1>11. NoPhantomTurn'
    BY <1>2 DEF Inductive, NoPhantomTurn
  <1>12. Types'
    BY <1>0, <1>2, <1>3, <1>9 DEF Types
  <1>. QED
    BY <1>7, <1>8, <1>10, <1>11, <1>12 DEF Inductive

(* start and openSession go on: initialize, then one of resume and new.     *)
LEMMA AnsweredKeeps == ASSUME Inductive, Answered PROVE Inductive'
  <1>0. Types /\ TextsAreNew
    BY DEF Inductive
  <1>1. PICK n : n = Head(lines).turn
    OBVIOUS
  <1>2. /\ hostUp /\ ~exited /\ lines # <<>> /\ lines' = Tail(lines) /\ Head(lines).kind = "ok"
        /\ panel' = panel /\ used' = used /\ toHost' = toHost /\ hostUp' = hostUp
        /\ acp' = acp /\ agentUp' = agentUp /\ exited' = exited
        /\ turn' = turn /\ answered' = answered
        /\ waiters' = waiters /\ stored' = stored /\ prompts' = prompts /\ ended' = ended
        /\ running' = running /\ owes' = owes
        /\ \/ /\ call = "init" /\ thread' = thread /\ toPanel' = toPanel
              /\ \E c \in {"resume", "new"} : call' = c /\ inbox' = Append(inbox, Msg(c, 0))
           \/ /\ call \in {"resume", "new"} /\ thread' = TRUE /\ call' = "idle"
              /\ inbox' = inbox /\ toPanel' = Append(toPanel, Msg("ready", 0))
           \/ call = "interrupt" /\ call' = "idle" /\ thread' = thread
              /\ inbox' = inbox /\ toPanel' = toPanel
    BY DEF Answered, Line, Read, Ask, Emit, agent
  <1>3. /\ LineTypes' /\ n \in 0 .. MaxTurns
        /\ \A j, u : Holds(lines, j, u) <=> Holds(lines', j, u) \/ (j = "ok" /\ u = n)
    BY <1>0, <1>1, <1>2, LineRead DEF Types
  <1>4. InboxTypes' /\ \A t : Holds(inbox', "prompt", t) <=> Holds(inbox, "prompt", t)
    <2>1. CASE inbox' = inbox
      BY <1>0, <2>1 DEF Types, InboxTypes
    <2>2. ASSUME NEW c \in {"resume", "new"}, inbox' = Append(inbox, Msg(c, 0))
          PROVE  InboxTypes' /\ \A t : Holds(inbox', "prompt", t) <=> Holds(inbox, "prompt", t)
      <3>1. c \in Request /\ 0 \in 0 .. MaxTurns /\ c # "prompt"
        BY ConstantsAssumption DEF Request
      <3>. QED
        BY <1>0, <2>2, <3>1, Asks DEF Types
    <2>. QED
      BY <1>2, <2>1, <2>2
  <1>5. toPanel' \in Seq(Showing)
    <2>1. /\ toPanel \in Seq(Showing) /\ panel \in PanelRecord /\ 0 \in 0 .. MaxTurns
          /\ "ready" \in {"started", "delta", "completed", "ready", "error", "violation", "closed"}
      BY <1>0, ConstantsAssumption DEF Types
    <2>2. CASE toPanel' = Append(toPanel, Msg("ready", 0))
      BY <2>1, <2>2, EventSent
    <2>. QED
      BY <1>2, <2>1, <2>2
  <1>6. answered = 0
    <2>1. CASE call = "start"
      BY <1>2, <2>1
    <2>2. CASE call # "start"
      BY <1>0, <2>2 DEF Types, ClientTypes
    <2>. QED
      BY <2>1, <2>2
  <1>7. ClientTypes'
    BY <1>0, <1>2, <1>6 DEF Types, ClientTypes
  <1>8. TextsAreNew'
    <2>1. \A u \in Turn : u \in ended' \cup running' \cup owes' \cup stored' \cup waiters' \cup prompts'
                              \cup {turn', answered'} => Known(u)
      BY <1>2 DEF Known
    <2>. QED
      BY <1>0, <1>2, <1>4, <2>1, LineForgets
  <1>9. NoPhantomTurn'
    BY <1>2 DEF Inductive, NoPhantomTurn
  <1>10. ASSUME ~acp PROVE Core' /\ Opening' /\ Follows'
    <2>1. Core /\ Opening /\ Follows /\ "ok" \in Answer
      BY <1>10 DEF Inductive, Answer
    <2>2. /\ ~Pending(Request) /\ Once(inbox, Request)
          /\ ~Some(lines', Answer) /\ Once(lines', Answer) /\ Ordered(lines')
          /\ owes = {} /\ call # "idle"
          /\ \A t : /\ Holds(lines', "started", t) <=> Holds(lines, "started", t)
                    /\ Holds(lines', "completed", t) <=> Holds(lines, "completed", t)
                    /\ Holds(lines', "response", t) <=> Holds(lines, "response", t)
      BY <1>0, <1>1, <1>2, <2>1, AnswerRead
    <2>3. turn = 0 => NoLive
      BY <1>2, <2>1 DEF Core, Phases
    <2>4. ~Some(toHost, {"open"})
      BY <2>1, <2>2 DEF Opening
    <2>5. Opening'
      BY <1>2, <2>1, <2>4 DEF Opening
    <2>6. CASE call = "init" /\ thread' = thread /\ toPanel' = toPanel
               /\ \E c \in {"resume", "new"} : call' = c /\ inbox' = Append(inbox, Msg(c, 0))
      <3>1. PICK c \in {"resume", "new"} : call' = c /\ inbox' = Append(inbox, Msg(c, 0))
        BY <2>6
      <3>2. c \in Request /\ 0 \in 0 .. MaxTurns /\ c # "prompt"
        BY ConstantsAssumption DEF Request
      <3>3. ~thread
        BY <1>2, <2>1, <2>6 DEF Core, Phases
      <3>4. \A k \in {"response", "started", "completed"}, t \in Turn :
               Holds(lines', k, t) <=> Holds(lines, k, t)
        BY <2>2
      <3>5. Core'
        BY <1>0, <1>2, <1>6, <1>10, <2>1, <2>2, <2>3, <2>6, <3>1, <3>2, <3>3, <3>4, RequestKeeps
      <3>6. Follows'
        BY <1>2, <2>1, <2>2, <2>6 DEF Follows, Believes, Has
      <3>. QED
        BY <2>5, <3>5, <3>6
    <2>7. CASE call \in {"resume", "new"} /\ thread' = TRUE /\ call' = "idle"
               /\ inbox' = inbox /\ toPanel' = Append(toPanel, Msg("ready", 0))
      <3>1. thread \in BOOLEAN /\ ~thread /\ turn = 0
        BY <1>0, <1>2, <2>1, <2>7 DEF Core, Phases, Unopened, Types, ClientTypes
      <3>2. Core'
        BY <1>0, <1>2, <1>6, <2>1, <2>2, <2>3, <2>7, <3>1, ReturnKeeps
      <3>3. PICK s : s = toPanel'
        OBVIOUS
      <3>4. /\ \A K : Some(s, K) <=> Some(toPanel, K) \/ "ready" \in K
            /\ LastTells(s, panel.active) <=> FALSE
        <4>1. /\ toPanel \in Seq(Showing) /\ panel \in PanelRecord /\ 0 \in 0 .. MaxTurns
              /\ "ready" \in {"started", "delta", "completed", "ready", "error", "violation", "closed"}
              /\ s = Append(toPanel, Msg("ready", 0))
          BY <1>0, <2>7, <3>3, ConstantsAssumption DEF Types
        <4>2. "ready" \in Tells
          BY DEF Tells
        <4>. QED
          BY <4>1, <4>2, EventSent
      <3>5. ~Believes'
        BY <1>2, <3>3, <3>4 DEF Believes
      <3>6. Some(toPanel', {"closed"}) <=> Some(toPanel, {"closed"})
        BY <3>3, <3>4
      <3>7. Follows'
        BY <1>2, <2>1, <3>1, <3>5, <3>6 DEF Follows
      <3>. QED
        BY <2>5, <3>2, <3>7
    <2>8. CASE call = "interrupt" /\ call' = "idle" /\ thread' = thread
               /\ inbox' = inbox /\ toPanel' = toPanel
      <3>1. thread \in BOOLEAN
        BY <1>0 DEF Types, ClientTypes
      <3>2. Core'
        BY <1>0, <1>2, <1>6, <2>1, <2>2, <2>3, <2>8, <3>1, ReturnKeeps
      <3>3. Follows'
        BY <1>2, <2>1, <2>2, <2>8 DEF Follows, Believes, Has
      <3>. QED
        BY <2>5, <3>2, <3>3
    <2>. QED
      BY <1>2, <2>6, <2>7, <2>8
  <1>11. Types'
    BY <1>0, <1>2, <1>3, <1>4, <1>5, <1>7 DEF Types
  <1>. QED
    BY <1>2, <1>8, <1>9, <1>10, <1>11 DEF Inductive

(* startTurn resumes: the turn it was told of has ended meanwhile, or is    *)
(* the one turn there is.                                                   *)
LEMMA ResumeStartKeeps == ASSUME Inductive, ResumeStart PROVE Inductive'
  <1>0. Types /\ TextsAreNew
    BY DEF Inductive
  <1>1. PICK a : a = answered
    OBVIOUS
  <1>2. /\ hostUp /\ a # 0 /\ call' = "idle" /\ answered' = 0
        /\ \/ a \in stored /\ turn' = 0 /\ stored' = stored \ {a} /\ waiters' = waiters
           \/ a \notin stored /\ turn' = a /\ stored' = stored /\ waiters' = waiters \cup {a}
        /\ panel' = panel /\ used' = used /\ toHost' = toHost /\ hostUp' = hostUp /\ toPanel' = toPanel
        /\ acp' = acp /\ agentUp' = agentUp /\ exited' = exited /\ inbox' = inbox /\ lines' = lines
        /\ thread' = thread /\ prompts' = prompts /\ ended' = ended
        /\ running' = running /\ owes' = owes
    BY <1>1 DEF ResumeStart, agent, pipes
  <1>3. a \in Turn /\ call = "start" /\ ~acp /\ ~exited
    BY <1>0, <1>1, <1>2, ConstantsAssumption DEF Types, ClientTypes, Turn
  <1>4. Core /\ Opening /\ Follows /\ NoPhantomTurn
    BY <1>3 DEF Inductive
  <1>5. ~Pending(Request) /\ ~Heard(Answer) /\ owes = {}
    BY <1>1, <1>2, <1>3, <1>4 DEF Core, OneAnswer
  <1>6. /\ ~Some(inbox, {"prompt"}) /\ ~Some(inbox, Request \ {"prompt"})
        /\ ~Some(lines, {"response"}) /\ ~Some(lines, {"refused"})
    BY <1>5, SomeMore DEF Pending, Request, Heard, Answer
  <1>7. /\ \A t : ~Holds(inbox, "prompt", t)
        /\ \A t : ~Holds(lines, "response", t)
    BY <1>6 DEF Some, Holds, Msg
  <1>8. Owed(a) /\ \A t \in Turn : Live(t) => t = a
    BY <1>1, <1>3, <1>4 DEF Core, OneLive, Live, Owed
  <1>9. turn \in {0, a}
    <2>1. turn = 0 \/ turn \in Turn
      BY <1>0, ConstantsAssumption DEF Types, ClientTypes, Turn
    <2>. QED
      BY <1>8, <2>1 DEF Live
  <1>10. \A t \in Turn : ~Owed(t)'
    BY <1>2, <1>5, <1>7 DEF Owed, Has, Turn
  <1>11. thread
    BY <1>3, <1>4 DEF Core, Unopened
  <1>12. OneAnswer'
    BY <1>2, <1>4, <1>5, <1>6, <1>3 DEF Core, OneAnswer, Pending, Heard
  <1>13. Opening'
    BY <1>2, <1>3, <1>4 DEF Opening
  <1>14. ClientTypes' /\ LineTypes' /\ InboxTypes'
    <2>1. LineTypes' /\ InboxTypes'
      BY <1>0, <1>2 DEF Types, LineTypes, InboxTypes, Has, Heard
    <2>2. a \in 0 .. MaxTurns /\ 0 \in 0 .. MaxTurns
      BY <1>3, ConstantsAssumption DEF Turn
    <2>3. turn' \in 0 .. MaxTurns /\ waiters' \subseteq Turn /\ stored' \subseteq Turn
      BY <1>0, <1>2, <1>3, <2>2 DEF Types, ClientTypes
    <2>4. ClientTypes'
      BY <1>0, <1>2, <1>3, <2>2, <2>3 DEF Types, ClientTypes
    <2>. QED
      BY <2>1, <2>4
  <1>15. TextsAreNew'
    <2>1. Known(a)
      BY <1>1 DEF Known
    <2>2. \A t \in Turn : Known(t)' => Known(t)
      BY <1>2, <2>1 DEF Known, Has, Turn
    <2>. QED
      BY <1>0, <1>2, <2>2, TextsLeft DEF TextsAreNew
  <1>16. NoPhantomTurn' /\ Core' /\ Follows'
    <2>1. CASE a \in stored /\ turn' = 0 /\ stored' = stored \ {a} /\ waiters' = waiters
      <3>1. a \in ended /\ a \notin running /\ ~Has("started", a) /\ ~Has("completed", a)
        BY <1>4, <2>1 DEF Core, Over
      <3>2. turn = 0
        BY <1>4, <1>9, <3>1 DEF NoPhantomTurn
      <3>3. NoPhantomTurn'
        BY <1>2, <1>4, <2>1, <3>2 DEF NoPhantomTurn
      <3>4. \A t \in Turn : ~Live(t)'
        <4>1. \A t \in Turn : t \in running \/ Has("started", t) \/ Has("completed", t) => t = a
          BY <1>8 DEF Live
        <4>. QED
          BY <1>2, <1>10, <2>1, <3>1, <4>1 DEF Live, Has, Turn
      <3>5. Phases'
        BY <1>2, <1>7, <3>4 DEF Phases, NoLive
      <3>6. OneLive' /\ Over' /\ OwedTurn' /\ Unopened'
        BY <1>2, <1>4, <1>10, <1>11, <2>1, <3>4 DEF Core, OneLive, Over, OwedTurn, Unopened, Has
      <3>7. Follows'
        BY <1>2, <1>4, <2>1, <3>2 DEF Follows, Believes, Has
      <3>. QED
        BY <1>2, <1>4, <1>12, <3>3, <3>5, <3>6, <3>7 DEF Core
    <2>2. CASE a \notin stored /\ turn' = a /\ stored' = stored /\ waiters' = waiters \cup {a}
      <3>1. a \notin ended /\ (turn = a \/ Has("started", a))
        BY <1>3, <1>4, <1>8, <2>2 DEF Core, OwedTurn
      <3>2. NoPhantomTurn'
        BY <1>2, <2>2, <3>1 DEF NoPhantomTurn
      <3>3. \A t \in Turn : Live(t)' => t = a
        <4>1. \A t \in Turn : t \in running \/ Has("started", t) \/ Has("completed", t) => t = a
          BY <1>8 DEF Live
        <4>. QED
          BY <1>2, <1>10, <2>2, <4>1 DEF Live, Has
      <3>4. OneLive'
        BY <3>3 DEF OneLive
      <3>5. Phases'
        BY <1>2, <1>7, <2>2 DEF Phases
      <3>6. Over' /\ OwedTurn' /\ Unopened'
        BY <1>2, <1>4, <1>10, <1>11, <2>2 DEF Core, Over, OwedTurn, Unopened, Has
      <3>7. Follows'
        BY <1>2, <1>4, <2>2, <3>1 DEF Follows, Believes, Has
      <3>. QED
        BY <1>2, <1>4, <1>12, <3>2, <3>4, <3>5, <3>6, <3>7 DEF Core
    <2>. QED
      BY <1>2, <2>1, <2>2
  <1>17. Types'
    BY <1>0, <1>2, <1>14 DEF Types
  <1>. QED
    BY <1>13, <1>15, <1>16, <1>17 DEF Inductive

(* Nothing of the requests changes while other lines are read.              *)
LEMMA AnswersRest ==
  ASSUME OneAnswer, inbox' = inbox, call' = call, owes' = owes, answered' = answered,
         NEW kind, kind \notin Answer, Once(lines', Answer),
         \A K : Some(lines, K) <=> Some(lines', K) \/ kind \in K
  PROVE  OneAnswer' /\ (Some(lines', {"refused"}) <=> Some(lines, {"refused"}))
  <1>1. (Some(lines', Answer) <=> Some(lines, Answer))
        /\ (Some(lines', {"response"}) <=> Some(lines, {"response"}))
        /\ (Some(lines', {"refused"}) <=> Some(lines, {"refused"}))
    BY DEF Answer
  <1>. QED
    BY <1>1 DEF OneAnswer, Pending, Heard

(* The turn that starts is the one there is.                                *)
LEMMA StartedKeeps == ASSUME Inductive, Started PROVE Inductive'
  <1>0. Types /\ TextsAreNew
    BY DEF Inductive
  <1>1. PICK n : n = Head(lines).turn
    OBVIOUS
  <1>2. /\ hostUp /\ lines # <<>> /\ lines' = Tail(lines) /\ Head(lines).kind = "started"
        /\ turn' = n /\ toPanel' = Append(toPanel, Msg("started", n))
        /\ panel' = panel /\ used' = used /\ toHost' = toHost /\ hostUp' = hostUp
        /\ acp' = acp /\ agentUp' = agentUp /\ exited' = exited /\ inbox' = inbox
        /\ call' = call /\ thread' = thread /\ answered' = answered
        /\ waiters' = waiters /\ stored' = stored /\ prompts' = prompts /\ ended' = ended
        /\ running' = running /\ owes' = owes
    <2>1. Started /\ turn' = n
      BY <1>1 DEF Started
    <2>. QED
      BY <2>1 DEF Started, Line, Read, Emit, agent
  <1>3. /\ LineTypes' /\ n \in Turn /\ n \in 0 .. MaxTurns /\ ~acp
        /\ \A j, u : Holds(lines, j, u) <=> Holds(lines', j, u) \/ (j = "started" /\ u = n)
        /\ \A K : Some(lines, K) <=> Some(lines', K) \/ "started" \in K
        /\ Once(lines, Answer) => Once(lines', Answer)
        /\ Ordered(lines) => Ordered(lines')
    BY <1>0, <1>1, <1>2, LineRead DEF Types, OfTurn
  <1>4. /\ Core /\ Opening /\ Follows /\ "started" \notin Answer
        /\ OneLive /\ Ordered(lines) /\ Over /\ OwedTurn /\ Unopened
    BY <1>3 DEF Inductive, Core, Answer
  <1>5. Has("started", n) /\ Live(n) /\ \A t \in Turn : Live(t) => t = n
    BY <1>3, <1>4 DEF OneLive, Live, Has
  <1>6. \A t : /\ Holds(lines', "started", t) => Holds(lines, "started", t)
               /\ Holds(lines', "completed", t) <=> Holds(lines, "completed", t)
               /\ Holds(lines', "response", t) <=> Holds(lines, "response", t)
               /\ t # n => (Holds(lines', "started", t) <=> Holds(lines, "started", t))
    BY <1>3
  <1>7. \A t \in Turn : Live(t)' => t = n
    BY <1>2, <1>5, <1>6 DEF Live, Owed, Has
  <1>8. n \notin ended /\ thread /\ ~NoLive /\ n # 0
    BY <1>3, <1>4, <1>5 DEF Over, Unopened, NoLive, Turn
  <1>9. OneLive' /\ Ordered(lines)' /\ Unopened'
    BY <1>2, <1>3, <1>4, <1>7, <1>8 DEF OneLive, Unopened
  <1>10. Over'
    <2>1. ended \subseteq Turn
      BY <1>0 DEF Types, ClientTypes
    <2>. QED
      BY <1>2, <1>4, <1>6, <2>1 DEF Over, Has
  <1>11. OwedTurn'
    <2>1. \A t \in Turn : Owed(t)' => Owed(t) /\ t = n
      BY <1>2, <1>6, <1>7 DEF Owed, Live, Has
    <2>. QED
      BY <1>2, <1>4, <2>1 DEF OwedTurn
  <1>12. ASSUME ~exited PROVE OneAnswer' /\ Phases'
    <2>1. OneAnswer /\ Phases
      BY <1>4, <1>12 DEF Core
    <2>2. OneAnswer' /\ (Some(lines', {"refused"}) <=> Some(lines, {"refused"}))
      BY <1>2, <1>3, <1>4, <2>1, AnswersRest DEF OneAnswer
    <2>3. Phases'
      BY <1>2, <1>8, <2>1, <2>2 DEF Phases, Pending, Heard
    <2>. QED
      BY <2>2, <2>3
  <1>13. Core' /\ Opening'
    BY <1>2, <1>4, <1>9, <1>10, <1>11, <1>12 DEF Core, Opening
  <1>14. toPanel' \in Seq(Showing) /\ Follows'
    <2>1. PICK s : s = toPanel'
      OBVIOUS
    <2>2. /\ toPanel \in Seq(Showing) /\ panel \in PanelRecord
          /\ "started" \in {"started", "delta", "completed", "ready", "error", "violation", "closed"}
          /\ s = Append(toPanel, Msg("started", n))
      BY <1>0, <1>2, <2>1 DEF Types
    <2>3. /\ s \in Seq(Showing)
          /\ \A K : Some(s, K) <=> Some(toPanel, K) \/ "started" \in K
          /\ LastTells(s, panel.active)
      <3>1. "started" \in Tells
        BY DEF Tells
      <3>2. PICK kind \in {"started", "delta", "completed", "ready", "error", "violation", "closed"} :
              kind = "started"
        OBVIOUS
      <3>3. /\ s \in Seq(Showing)
            /\ \A K : Some(s, K) <=> Some(toPanel, K) \/ kind \in K
            /\ LastTells(s, panel.active) <=> IF kind \in Tells THEN kind = "started" ELSE Believes
        <4>1. /\ toPanel \in Seq(Showing) /\ panel \in PanelRecord /\ n \in 0 .. MaxTurns
              /\ s = Append(toPanel, Msg(kind, n))
          BY <1>3, <2>2, <3>2
        <4>. QED
          BY <4>1, EventSent
      <3>. QED
        BY <3>1, <3>2, <3>3
    <2>4. Believes'
      BY <1>2, <2>1, <2>3 DEF Believes
    <2>5. toPanel' \in Seq(Showing) /\ (Some(toPanel', {"closed"}) <=> Some(toPanel, {"closed"}))
      BY <2>1, <2>3
    <2>. QED
      BY <1>2, <1>4, <1>8, <2>4, <2>5 DEF Follows
  <1>15. ClientTypes' /\ InboxTypes'
    BY <1>0, <1>2, <1>3 DEF Types, ClientTypes, InboxTypes
  <1>16. TextsAreNew'
    <2>1. Known(n)
      BY <1>5 DEF Known, OfTurn
    <2>2. \A u \in Turn : u \in ended' \cup running' \cup owes' \cup stored' \cup waiters' \cup prompts'
                              \cup {turn', answered'} => Known(u)
      BY <1>2, <2>1 DEF Known
    <2>. QED
      BY <1>0, <1>2, <2>2, LineForgets
  <1>17. NoPhantomTurn'
    BY <1>2, <1>8 DEF NoPhantomTurn
  <1>18. Types'
    BY <1>0, <1>2, <1>3, <1>14, <1>15 DEF Types
  <1>. QED
    BY <1>13, <1>14, <1>16, <1>17, <1>18 DEF Inductive

(* ... and so is the turn that completes.                                   *)
LEMMA CompletedKeeps == ASSUME Inductive, Completed PROVE Inductive'
  <1>0. Types /\ TextsAreNew
    BY DEF Inductive
  <1>1. PICK n : n = Head(lines).turn
    OBVIOUS
  <1>2. /\ hostUp /\ lines # <<>> /\ lines' = Tail(lines) /\ Head(lines).kind = "completed"
        /\ waiters' = waiters \ {n} /\ turn' = (IF n = turn THEN 0 ELSE turn)
        /\ stored' = (IF n \in waiters THEN stored ELSE stored \cup {n})
        /\ ended' = ended \cup {n} /\ prompts' = prompts \ {n}
        /\ toPanel' = Append(toPanel, Msg("completed", n))
        /\ panel' = panel /\ used' = used /\ toHost' = toHost /\ hostUp' = hostUp
        /\ acp' = acp /\ agentUp' = agentUp /\ exited' = exited /\ inbox' = inbox
        /\ call' = call /\ thread' = thread /\ answered' = answered
        /\ running' = running /\ owes' = owes
    BY <1>1 DEF Completed, CompleteTurn, Line, Read, Emit, agent
  <1>3. /\ LineTypes' /\ n \in Turn /\ n \in 0 .. MaxTurns
        /\ \A j, u : Holds(lines, j, u) <=> Holds(lines', j, u) \/ (j = "completed" /\ u = n)
        /\ \A K : Some(lines, K) <=> Some(lines', K) \/ "completed" \in K
        /\ Once(lines, Answer) => Once(lines', Answer)
        /\ Ordered(lines) => /\ Ordered(lines') /\ ~Holds(lines', "started", n)
                             /\ ~Holds(lines', "completed", n)
    BY <1>0, <1>1, <1>2, LineRead DEF Types, OfTurn
  <1>4. toPanel' \in Seq(Showing) /\ ~Believes'
        /\ (Some(toPanel', {"closed"}) <=> Some(toPanel, {"closed"}))
    <2>1. PICK s : s = toPanel'
      OBVIOUS
    <2>2. /\ toPanel \in Seq(Showing) /\ panel \in PanelRecord
          /\ "completed" \in {"started", "delta", "completed", "ready", "error", "violation", "closed"}
          /\ s = Append(toPanel, Msg("completed", n))
      BY <1>0, <1>2, <2>1 DEF Types
    <2>3. /\ s \in Seq(Showing)
          /\ \A K : Some(s, K) <=> Some(toPanel, K) \/ "completed" \in K
          /\ LastTells(s, panel.active) <=> FALSE
      <3>1. "completed" \in Tells
        BY DEF Tells
      <3>. QED
        BY <1>3, <2>2, <3>1, EventSent
    <2>4. ~Believes'
      BY <1>2, <2>1, <2>3 DEF Believes
    <2>. QED
      BY <2>1, <2>3, <2>4
  <1>5. ClientTypes' /\ InboxTypes'
    <2>1. /\ turn' \in 0 .. MaxTurns /\ waiters' \subseteq Turn /\ stored' \subseteq Turn
          /\ ended' \subseteq Turn /\ prompts' \subseteq Turn /\ (prompts = {} => prompts' = {})
      BY <1>0, <1>2, <1>3, ConstantsAssumption DEF Types, ClientTypes
    <2>. QED
      BY <1>0, <1>2, <2>1 DEF Types, ClientTypes, InboxTypes
  <1>6. TextsAreNew'
    <2>1. Known(n)
      BY <1>3 DEF Known, Has, OfTurn
    <2>2. \A u \in Turn : u \in ended' \cup running' \cup owes' \cup stored' \cup waiters' \cup prompts'
                              \cup {turn', answered'} => Known(u)
      BY <1>2, <2>1 DEF Known, Turn
    <2>. QED
      BY <1>0, <1>2, <2>2, LineForgets
  <1>7. NoPhantomTurn'
    <2>1. 0 \notin ended'
      BY <1>5 DEF ClientTypes, Turn
    <2>. QED
      BY <1>2, <2>1 DEF Inductive, NoPhantomTurn
  <1>8. ASSUME ~acp PROVE Core' /\ Opening' /\ Follows'
    <2>1. /\ Core /\ Opening /\ Follows /\ "completed" \notin Answer
          /\ OneLive /\ Ordered(lines) /\ Over /\ OwedTurn /\ Unopened
      BY <1>8 DEF Inductive, Core, Answer
    <2>2. Has("completed", n) /\ Live(n) /\ \A t \in Turn : Live(t) => t = n
      BY <1>3, <2>1 DEF OneLive, Live, Has
    <2>3. turn' = 0 /\ n # 0
      <3>1. turn = 0 \/ turn \in Turn
        BY <1>0, ConstantsAssumption DEF Types, ClientTypes, Turn
      <3>2. turn \in Turn => Live(turn)
        BY DEF Live
      <3>. QED
        BY <1>2, <1>3, <2>2, <3>1, <3>2 DEF Turn
    <2>4. thread /\ ~NoLive /\ n \notin running
      BY <1>3, <2>1, <2>2 DEF Over, Unopened, NoLive
    <2>5. \A t : /\ Holds(lines', "started", t) <=> Holds(lines, "started", t) /\ t # n
                 /\ Holds(lines', "completed", t) <=> Holds(lines, "completed", t) /\ t # n
                 /\ Holds(lines', "response", t) <=> Holds(lines, "response", t)
      <3>1. Ordered(lines') /\ ~Holds(lines', "started", n) /\ ~Holds(lines', "completed", n)
        BY <1>3, <2>1
      <3>2. ~Holds(lines, "started", n)
        BY <1>3, <3>1
      <3>. QED
        BY <1>3, <3>1, <3>2
    <2>6. \A t \in Turn : (Owed(t)' <=> Owed(t)) /\ (Live(t)' => t = n /\ Owed(n))
      <3>1. \A t \in Turn : Owed(t)' <=> Owed(t)
        BY <1>2, <2>5 DEF Owed, Has
      <3>2. \A t \in Turn : t \in running \/ Has("started", t) \/ Has("completed", t) \/ Owed(t) => t = n
        BY <2>2 DEF Live
      <3>. QED
        BY <1>2, <2>3, <2>4, <2>5, <3>1, <3>2 DEF Live, Has, Turn
    <2>7. OneLive' /\ Ordered(lines)' /\ Unopened'
      BY <1>2, <1>3, <2>1, <2>4, <2>6 DEF OneLive, Unopened
    <2>8. Over'
      BY <1>2, <2>1, <2>4, <2>5 DEF Over, Has
    <2>9. OwedTurn'
      <3>1. \A t \in Turn : Owed(t)' => Owed(t) /\ t = n
        BY <2>6, <2>2 DEF Live
      <3>2. Owed(n) => n \notin waiters
        BY <1>3, <2>1 DEF OwedTurn
      <3>. QED
        BY <1>2, <3>1, <3>2 DEF OwedTurn
    <2>10. ASSUME ~exited PROVE OneAnswer' /\ Phases'
      <3>1. OneAnswer /\ Phases
        BY <2>1, <2>10 DEF Core
      <3>2. OneAnswer' /\ (Some(lines', {"refused"}) <=> Some(lines, {"refused"}))
        BY <1>2, <1>3, <2>1, <3>1, AnswersRest DEF OneAnswer
      <3>3. call # "start" => NoLive'
        <4>1. Owed(n) => call = "start"
          <5>1. Has("response", n) => Heard({"response"})
            BY DEF Has, Holds, Heard, Some, Msg
          <5>. QED
            BY <2>3, <3>1, <5>1 DEF OneAnswer, Owed
        <4>. QED
          BY <2>6, <4>1 DEF NoLive
      <3>4. call = "start" => ~Pending({"prompt"}) /\ ~Heard({"refused"})
        BY <2>4, <3>1 DEF Phases
      <3>5. \A t : ~Holds(inbox, "prompt", t)
        <4>1. ~Pending({"prompt"})
          BY <3>1, <3>4 DEF OneAnswer
        <4>. QED
          BY <4>1 DEF Pending, Some, Holds, Msg
      <3>6. Phases'
        BY <1>2, <3>1, <3>2, <3>3, <3>4, <3>5 DEF Phases, Pending, Heard
      <3>. QED
        BY <3>2, <3>6
    <2>11. Core' /\ Opening'
      BY <1>2, <2>1, <2>7, <2>8, <2>9, <2>10 DEF Core, Opening
    <2>12. Follows'
      BY <1>2, <1>4, <2>1, <2>3 DEF Follows
    <2>. QED
      BY <2>11, <2>12
  <1>9. Types'
    BY <1>0, <1>2, <1>3, <1>4, <1>5 DEF Types
  <1>. QED
    BY <1>2, <1>6, <1>7, <1>8, <1>9 DEF Inductive

(* A prompt only fails with the ACP client.                                 *)
LEMMA PromptFailedKeeps == ASSUME Inductive, PromptFailed PROVE Inductive'
  <1>0. Types /\ TextsAreNew
    BY DEF Inductive
  <1>1. PICK n : n = Head(lines).turn
    OBVIOUS
  <1>2. /\ lines # <<>> /\ lines' = Tail(lines) /\ Head(lines).kind = "failed"
        /\ waiters' = waiters \ {n} /\ turn' = (IF n = turn THEN 0 ELSE turn)
        /\ stored' = stored /\ ended' = ended \cup {n} /\ prompts' = prompts \ {n}
        /\ panel' = panel /\ used' = used /\ toHost' = toHost
        /\ acp' = acp /\ agentUp' = agentUp /\ exited' = exited /\ inbox' = inbox
        /\ call' = call /\ thread' = thread /\ answered' = answered
        /\ running' = running /\ owes' = owes
        /\ \/ hostUp' = FALSE /\ toPanel' = Append(toPanel, Msg("closed", 0))
           \/ hostUp' = hostUp /\ toPanel' = toPanel
    BY <1>1 DEF PromptFailed, Line, Emit, agent
  <1>3. LineTypes' /\ n \in Turn /\ n \in 0 .. MaxTurns /\ acp
        /\ \A j, u : Holds(lines, j, u) <=> Holds(lines', j, u) \/ (j = "failed" /\ u = n)
    BY <1>0, <1>1, <1>2, LineRead DEF Types, OfTurn
  <1>4. toPanel' \in Seq(Showing)
    <2>1. /\ toPanel \in Seq(Showing) /\ panel \in PanelRecord /\ 0 \in 0 .. MaxTurns
          /\ "closed" \in {"started", "delta", "completed", "ready", "error", "violation", "closed"}
      BY <1>0, ConstantsAssumption DEF Types
    <2>2. CASE toPanel' = Append(toPanel, Msg("closed", 0))
      BY <2>1, <2>2, EventSent
    <2>. QED
      BY <1>2, <2>1, <2>2
  <1>5. ClientTypes' /\ InboxTypes'
    <2>1. /\ turn' \in 0 .. MaxTurns /\ waiters' \subseteq Turn /\ hostUp' \in BOOLEAN
          /\ ended' \subseteq Turn /\ prompts' \subseteq Turn
      BY <1>0, <1>2, <1>3, ConstantsAssumption DEF Types, ClientTypes
    <2>. QED
      BY <1>0, <1>2, <1>3, <2>1 DEF Types, ClientTypes, InboxTypes
  <1>6. TextsAreNew'
    <2>1. Known(n)
      BY <1>3 DEF Known, Has, OfTurn
    <2>2. \A u \in Turn : u \in ended' \cup running' \cup owes' \cup stored' \cup waiters' \cup prompts'
                              \cup {turn', answered'} => Known(u)
      BY <1>2, <2>1 DEF Known, Turn
    <2>. QED
      BY <1>0, <1>2, <2>2, LineForgets
  <1>7. NoPhantomTurn'
    <2>1. 0 \notin ended'
      BY <1>5 DEF ClientTypes, Turn
    <2>. QED
      BY <1>2, <2>1 DEF Inductive, NoPhantomTurn
  <1>8. Types'
    BY <1>0, <1>2, <1>3, <1>4, <1>5 DEF Types
  <1>. QED
    BY <1>2, <1>3, <1>6, <1>7, <1>8 DEF Inductive

(* An error event says nothing of the turn.                                 *)
LEMMA ErrorAdded ==
  ASSUME NEW p \in Seq(Showing), NEW active \in BOOLEAN, NEW s, s = p \o <<Msg("error", 0)>>
  PROVE  /\ s \in Seq(Showing) /\ (Some(s, {"closed"}) <=> Some(p, {"closed"}))
         /\ LastTells(s, active) <=> LastTells(p, active)
  <1>1. PICK m : m = Msg("error", 0)
    OBVIOUS
  <1>2. m \in Showing /\ m.kind = "error"
    <2>1. 0 \in 0 .. MaxTurns
      BY ConstantsAssumption
    <2>. QED
      BY <1>1, <2>1, MsgIs DEF Showing
  <1>3. /\ Append(p, m) \in Seq(Showing) /\ p \o <<m>> = Append(p, m)
        /\ \A K : Some(Append(p, m), K) <=> Some(p, K) \/ "error" \in K
    BY <1>2, PipeAdd DEF Showing
  <1>4. LastTells(Append(p, m), active) <=> LastTells(p, active)
    <2>1. m.kind \notin Tells
      BY <1>2 DEF Tells
    <2>. QED
      BY <1>2, <2>1, LastTellsAdd
  <1>. QED
    BY <1>1, <1>3, <1>4

(* The exit rejects what is pending, and ends the host if a turn waits.     *)
LEMMA FailAllKeeps == ASSUME Inductive, FailAll PROVE Inductive'
  <1>0. Types /\ TextsAreNew
    BY DEF Inductive
  <1>1. /\ hostUp /\ ~agentUp /\ ~exited /\ answered = 0 /\ exited' = TRUE /\ call' = "idle"
        /\ prompts' = {} /\ waiters' = {} /\ turn' = (IF turn \in prompts THEN 0 ELSE turn)
        /\ hostUp' = (waiters = {})
        /\ panel' = panel /\ used' = used /\ toHost' = toHost /\ thread' = thread
        /\ answered' = answered /\ stored' = stored /\ ended' = ended
        /\ acp' = acp /\ agentUp' = agentUp /\ inbox' = inbox /\ lines' = lines
        /\ running' = running /\ owes' = owes
    BY DEF FailAll, agent
  <1>2. PICK p, q, s : /\ p = toPanel \o <<Msg("error", 0)>>
                       /\ q = p \o (IF call = "idle" THEN <<>> ELSE <<Msg("error", 0)>>)
                       /\ s = q \o (IF waiters = {} THEN <<>> ELSE <<Msg("closed", 0)>>)
    OBVIOUS
  <1>3. toPanel' = s
    BY <1>2 DEF FailAll
  <1>4. toPanel \in Seq(Showing) /\ panel.active \in BOOLEAN /\ 0 \in 0 .. MaxTurns
    BY <1>0, ConstantsAssumption DEF Types, PanelRecord
  <1>5. /\ p \in Seq(Showing) /\ (Some(p, {"closed"}) <=> Some(toPanel, {"closed"}))
        /\ LastTells(p, panel.active) <=> LastTells(toPanel, panel.active)
    BY <1>2, <1>4, ErrorAdded
  <1>6. /\ q \in Seq(Showing) /\ (Some(q, {"closed"}) <=> Some(p, {"closed"}))
        /\ LastTells(q, panel.active) <=> LastTells(p, panel.active)
    <2>1. CASE call = "idle"
      <3>1. q = p
        BY <1>2, <1>5, <2>1
      <3>. QED
        BY <1>5, <3>1
    <2>2. CASE call # "idle"
      <3>1. q = p \o <<Msg("error", 0)>>
        BY <1>2, <2>2
      <3>. QED
        BY <1>4, <1>5, <3>1, ErrorAdded
    <2>. QED
      BY <2>1, <2>2
  <1>7. s \in Seq(Showing) /\ (waiters = {} => s = q)
    <2>1. CASE waiters = {}
      <3>1. s = q
        BY <1>2, <1>6, <2>1
      <3>. QED
        BY <1>6, <3>1
    <2>2. CASE waiters # {}
      <3>1. s = q \o <<Msg("closed", 0)>>
        BY <1>2, <2>2
      <3>2. PICK m : m = Msg("closed", 0)
        OBVIOUS
      <3>3. m \in Showing
        BY <1>4, <3>2, MsgIs DEF Showing
      <3>. QED
        BY <1>6, <2>2, <3>1, <3>2, <3>3
    <2>. QED
      BY <2>1, <2>2
  <1>8. waiters = {} => (Believes' <=> Believes)
                        /\ (Some(toPanel', {"closed"}) <=> Some(toPanel, {"closed"}))
    BY <1>1, <1>3, <1>5, <1>6, <1>7 DEF Believes
  <1>9. ClientTypes' /\ LineTypes' /\ InboxTypes'
    BY <1>0, <1>1, <1>4 DEF Types, ClientTypes, LineTypes, InboxTypes, Has, Heard
  <1>10. TextsAreNew'
    <2>1. \A t \in Turn : Known(t)' => Known(t)
      BY <1>1 DEF Known, Has, Turn
    <2>. QED
      BY <1>0, <1>1, <2>1, TextsLeft DEF TextsAreNew
  <1>11. NoPhantomTurn'
    <2>1. 0 \notin ended
      BY <1>0 DEF Types, ClientTypes, Turn
    <2>. QED
      BY <1>1, <2>1 DEF Inductive, NoPhantomTurn
  <1>12. ASSUME ~acp PROVE Core' /\ Opening' /\ Follows'
    <2>1. Core /\ Opening /\ Follows /\ turn' = turn
      BY <1>0, <1>1, <1>12 DEF Inductive, Types, ClientTypes
    <2>2. \A t \in Turn : (Live(t)' <=> Live(t)) /\ (Owed(t)' <=> Owed(t))
      BY <1>1, <2>1 DEF Live, Owed, Has
    <2>3. OneLive' /\ Ordered(lines)' /\ Unopened'
      BY <1>1, <2>1, <2>2 DEF Core, OneLive, Unopened, NoLive
    <2>4. Over'
      BY <1>1, <2>1 DEF Core, Over, Has
    <2>5. OwedTurn'
      BY <1>1, <2>1, <2>2 DEF Core, OwedTurn, Has
    <2>6. Core' /\ Opening'
      BY <1>1, <2>1, <2>3, <2>4, <2>5 DEF Core, Opening
    <2>7. Follows'
      BY <1>1, <1>8, <2>1 DEF Follows, Has
    <2>. QED
      BY <2>6, <2>7
  <1>13. Types'
    BY <1>0, <1>1, <1>3, <1>7, <1>9 DEF Types
  <1>. QED
    BY <1>1, <1>10, <1>11, <1>12, <1>13 DEF Inductive

(* The ACP client numbers its turns itself, and ends them itself.           *)
LEMMA StartAcpTurnKeeps == ASSUME Inductive, StartAcpTurn PROVE Inductive'
  <1>0. Types /\ TextsAreNew
    BY DEF Inductive
  <1>1. PICK n : n = Head(toHost).turn
    OBVIOUS
  <1>2. /\ acp /\ toHost # <<>> /\ Head(toHost).kind = "start" /\ toHost' = Tail(toHost)
        /\ turn' = n /\ waiters' = waiters \cup {n}
        /\ panel' = panel /\ used' = used /\ hostUp' = hostUp
        /\ acp' = acp /\ agentUp' = agentUp /\ exited' = exited /\ lines' = lines
        /\ call' = call /\ thread' = thread /\ answered' = answered
        /\ stored' = stored /\ ended' = ended /\ running' = running /\ owes' = owes
        /\ \/ /\ toPanel' = toPanel \o <<Msg("started", n), Msg("error", 0)>>
              /\ inbox' = inbox /\ prompts' = prompts
           \/ /\ toPanel' = Append(toPanel, Msg("started", n))
              /\ inbox' = Append(inbox, Msg("prompt", n)) /\ prompts' = prompts \cup {n}
    BY <1>1 DEF StartAcpTurn, Handling, Taken, Ask, Emit, agent
  <1>3. n \in Turn /\ ~Known(n)
    BY <1>0, <1>1, <1>2, TextIsNew
  <1>4. "prompt" \in Request /\ n \in 0 .. MaxTurns /\ 0 \in 0 .. MaxTurns /\ n # 0
    BY <1>3, ConstantsAssumption DEF Request, Turn
  <1>5. InboxTypes' /\ \A t : Holds(inbox', "prompt", t) => Holds(inbox, "prompt", t) \/ t = n
    <2>1. CASE inbox' = inbox
      BY <1>0, <2>1 DEF Types, InboxTypes
    <2>2. CASE inbox' = Append(inbox, Msg("prompt", n))
      BY <1>0, <1>4, <2>2, Asks DEF Types
    <2>. QED
      BY <1>2, <2>1, <2>2
  <1>6. toPanel' \in Seq(Showing)
    <2>1. PICK a, b : a = Msg("started", n) /\ b = Msg("error", 0)
      OBVIOUS
    <2>2. a \in Showing /\ b \in Showing /\ toPanel \in Seq(Showing)
      BY <1>0, <1>4, <2>1, MsgIs DEF Types, Showing
    <2>3. toPanel' = toPanel \o <<a, b>> \/ toPanel' = Append(toPanel, a)
      BY <1>2, <2>1
    <2>4. Append(toPanel, a) \in Seq(Showing)
      BY <2>2
    <2>5. toPanel \o <<a, b>> = Append(Append(toPanel, a), b)
      BY <2>2
    <2>6. toPanel \o <<a, b>> \in Seq(Showing)
      BY <2>2, <2>4, <2>5
    <2>. QED
      BY <2>3, <2>4, <2>6
  <1>7. toHost' \in Seq(Clicking)
    BY <1>0, <1>1, <1>2, HostTakes DEF Types, TextsAreNew
  <1>8. ClientTypes' /\ LineTypes'
    <2>1. turn' \in 0 .. MaxTurns /\ waiters' \subseteq Turn /\ prompts' \subseteq Turn
      BY <1>0, <1>2, <1>3, <1>4 DEF Types, ClientTypes
    <2>. QED
      BY <1>0, <1>2, <2>1 DEF Types, ClientTypes, LineTypes, Has, Heard
  <1>9. TextsAreNew'
    <2>1. \A t \in Turn : Known(t)' => Known(t) \/ t = n
      BY <1>2, <1>5 DEF Known, Has
    <2>. QED
      BY <1>0, <1>1, <1>2, <2>1, TextIsTaken
  <1>10. NoPhantomTurn'
    BY <1>2, <1>3 DEF NoPhantomTurn, Known
  <1>11. Types'
    BY <1>0, <1>2, <1>5, <1>6, <1>7, <1>8 DEF Types
  <1>. QED
    BY <1>2, <1>9, <1>10, <1>11 DEF Inductive

LEMMA InterruptAcpTurnKeeps == ASSUME Inductive, InterruptAcpTurn PROVE Inductive'
  <1>0. Types /\ TextsAreNew
    BY DEF Inductive
  <1>1. PICK n, m : n = turn /\ m = Head(toHost).turn
    OBVIOUS
  <1>2. /\ acp /\ toHost # <<>> /\ Head(toHost).kind = "interrupt" /\ toHost' = Tail(toHost) /\ n # 0
        /\ turn' = 0 /\ waiters' = waiters \ {n} /\ ended' = ended \cup {n}
        /\ stored' = (IF n \in waiters THEN stored ELSE stored \cup {n})
        /\ toPanel' = Append(toPanel, Msg("completed", n)) /\ inbox' = Append(inbox, Msg("cancel", 0))
        /\ panel' = panel /\ used' = used /\ hostUp' = hostUp
        /\ acp' = acp /\ agentUp' = agentUp /\ exited' = exited /\ lines' = lines
        /\ call' = call /\ thread' = thread /\ answered' = answered
        /\ prompts' = prompts /\ running' = running /\ owes' = owes
    BY <1>1 DEF InterruptAcpTurn, CompleteTurn, Handling, Taken, Ask, Emit, agent
  <1>3. n \in 0 .. MaxTurns /\ n \in Turn /\ 0 \in 0 .. MaxTurns /\ Known(n)
    BY <1>0, <1>1, <1>2, ConstantsAssumption DEF Types, ClientTypes, Turn, Known
  <1>4. InboxTypes' /\ \A t : Holds(inbox', "prompt", t) => Holds(inbox, "prompt", t)
    <2>1. "cancel" \in Request \cup {"cancel", "declined"} /\ "cancel" # "prompt"
      OBVIOUS
    <2>. QED
      BY <1>0, <1>2, <1>3, <2>1, Asks DEF Types
  <1>5. toPanel' \in Seq(Showing)
    <2>1. Msg("completed", n) \in Showing /\ toPanel \in Seq(Showing)
      BY <1>0, <1>3, MsgIs DEF Types, Showing
    <2>. QED
      BY <1>2, <2>1
  <1>6. /\ toHost' \in Seq(Clicking) /\ TextsOrdered(toHost')
        /\ \A u : Holds(toHost', "start", u) => Holds(toHost, "start", u)
    BY <1>0, <1>1, <1>2, HostTakes DEF Types, TextsAreNew
  <1>7. ClientTypes' /\ LineTypes'
    <2>1. turn' \in 0 .. MaxTurns /\ waiters' \subseteq Turn /\ stored' \subseteq Turn
          /\ ended' \subseteq Turn
      BY <1>0, <1>2, <1>3 DEF Types, ClientTypes
    <2>. QED
      BY <1>0, <1>2, <2>1 DEF Types, ClientTypes, LineTypes, Has, Heard
  <1>8. TextsAreNew'
    <2>1. \A t \in Turn : Known(t)' => Known(t)
      BY <1>2, <1>3, <1>4 DEF Known, Has, Turn
    <2>. QED
      BY <1>0, <1>2, <1>6, <2>1, TextsLeft
  <1>9. NoPhantomTurn'
    BY <1>2, <1>7 DEF NoPhantomTurn, ClientTypes, Turn
  <1>10. Types'
    BY <1>0, <1>2, <1>4, <1>5, <1>6, <1>7 DEF Types
  <1>. QED
    BY <1>2, <1>8, <1>9, <1>10 DEF Inductive

(* What the agent does is seen by the rest of the system through the pipes. *)
LEMMA AgentMoves ==
  ASSUME Inductive, agentUp,
         panel' = panel, toHost' = toHost, toPanel' = toPanel, hostUp' = hostUp,
         used' \in UsedRecord, used'.turns = used.turns,
         call' = call, thread' = thread, turn' = turn, answered' = answered,
         waiters' = waiters, stored' = stored, prompts' = prompts, ended' = ended,
         acp' = acp, exited' = exited, agentUp' = agentUp,
         running' \subseteq Turn, owes' \subseteq Turn, acp => owes' = {},
         InboxTypes', LineTypes',
         \A t \in Turn : t \in running' \/ t \in owes' \/ Holds(inbox', "prompt", t) => Known(t),
         \A t \in Turn, k \in OfTurn : Holds(lines', k, t) => Known(t),
         \A t : Holds(lines, "started", t) => Holds(lines', "started", t),
         ~acp => Core'
  PROVE  Inductive'
  <1>0. Types /\ TextsAreNew
    BY DEF Inductive
  <1>1. ClientTypes'
    BY <1>0 DEF Types, ClientTypes
  <1>2. TextsAreNew'
    <2>1. \A t \in Turn : Known(t)' => Known(t)
      BY DEF Known, Has
    <2>. QED
      BY <1>0, <2>1, TextsLeft DEF TextsAreNew
  <1>3. NoPhantomTurn'
    BY DEF Inductive, NoPhantomTurn
  <1>4. ~acp => Opening' /\ Follows'
    BY DEF Inductive, Opening, Follows, Believes, Has
  <1>5. Types'
    BY <1>0, <1>1 DEF Types
  <1>. QED
    BY <1>2, <1>3, <1>4, <1>5 DEF Inductive

(* The agent reads a request: it is the one that is unanswered.             *)
LEMMA RequestRead ==
  ASSUME Types, Core, ~exited, inbox # <<>>, inbox' = Tail(inbox),
         NEW k \in Request, NEW n, Head(inbox).kind = k, Head(inbox).turn = n
  PROVE  /\ ~Some(inbox', Request) /\ ~Some(inbox', {"prompt"}) /\ ~Some(inbox', Request \ {"prompt"})
         /\ Once(inbox', Request) /\ \A t : ~Holds(inbox', "prompt", t)
         /\ Once(lines, Answer) /\ ~Some(lines, Answer) /\ owes = {} /\ answered = 0 /\ call # "idle"
         /\ k = "prompt" => /\ call = "start" /\ NoLive /\ n \in Turn /\ n \notin ended
                            /\ n \notin waiters /\ turn = 0 /\ thread
         /\ k # "prompt" => call # "start"
  <1>1. /\ \A j, u : Holds(inbox, j, u) <=> Holds(inbox', j, u) \/ (j = k /\ u = n)
        /\ \A K : Some(inbox, K) <=> Some(inbox', K) \/ k \in K
        /\ Once(inbox, Request) => Once(inbox', Request) /\ ~Some(inbox', Request)
        /\ k = "prompt" => n \in Turn
    BY InboxRead DEF Types
  <1>2. OneAnswer /\ Phases
    BY DEF Core
  <1>3. Once(inbox', Request) /\ ~Some(inbox', Request)
    BY <1>1, <1>2 DEF OneAnswer
  <1>4. ~Some(inbox', {"prompt"}) /\ ~Some(inbox', Request \ {"prompt"})
    BY <1>3, SomeMore DEF Request
  <1>5. \A t : ~Holds(inbox', "prompt", t)
    BY <1>4 DEF Some, Holds, Msg
  <1>6. Pending(Request) /\ (k = "prompt" => Pending({"prompt"}))
        /\ (k # "prompt" => Pending(Request \ {"prompt"}))
    BY <1>1 DEF Pending
  <1>7. /\ Once(lines, Answer) /\ ~Some(lines, Answer) /\ owes = {} /\ answered = 0 /\ call # "idle"
        /\ k = "prompt" => call = "start"
        /\ k # "prompt" => call # "start"
    BY <1>2, <1>6 DEF OneAnswer, Heard
  <1>8. ASSUME k = "prompt"
        PROVE  NoLive /\ n \in Turn /\ n \notin ended /\ n \notin waiters /\ turn = 0 /\ thread
    <2>1. NoLive
      BY <1>2, <1>6, <1>7, <1>8 DEF Phases
    <2>2. n \in Turn /\ n \notin ended /\ n \notin waiters
      BY <1>1, <1>2, <1>8 DEF Phases
    <2>3. turn = 0
      <3>1. turn = 0 \/ turn \in Turn
        BY ConstantsAssumption DEF Types, ClientTypes, Turn
      <3>. QED
        BY <2>1, <3>1 DEF NoLive, Live
    <2>4. thread
      BY <1>7, <1>8 DEF Core, Unopened
    <2>. QED
      BY <2>1, <2>2, <2>3, <2>4
  <1>. QED
    BY <1>3, <1>4, <1>5, <1>7, <1>8

(* ... and is answered at once.                                             *)
LEMMA AnswerSaid ==
  ASSUME Types, Core, ~exited, exited' = exited, inbox # <<>>, inbox' = Tail(inbox),
         NEW k \in Request, NEW n, Head(inbox).kind = k, Head(inbox).turn = n,
         NEW r \in {"ok", "refused"}, k = "prompt" => r = "refused",
         lines' = lines \o <<Msg(r, 0)>>, acp' = acp,
         call' = call, thread' = thread, turn' = turn, answered' = answered,
         waiters' = waiters, stored' = stored, ended' = ended,
         running' = running, owes' = owes
  PROVE  Core'
  <1>1. /\ ~Some(inbox', Request) /\ ~Some(inbox', {"prompt"}) /\ ~Some(inbox', Request \ {"prompt"})
        /\ Once(inbox', Request) /\ \A t : ~Holds(inbox', "prompt", t)
        /\ Once(lines, Answer) /\ ~Some(lines, Answer) /\ owes = {} /\ answered = 0 /\ call # "idle"
        /\ k = "prompt" => call = "start" /\ NoLive
        /\ k # "prompt" => call # "start"
    BY RequestRead
  <1>2. /\ \A j, u : Holds(lines', j, u) <=> Holds(lines, j, u) \/ (j = r /\ u = 0)
        /\ \A K : Some(lines', K) <=> Some(lines, K) \/ r \in K
        /\ Once(lines', Answer) /\ Ordered(lines')
    <2>1. /\ r \in Answer \cup OfTurn \cup {"ask"} /\ r \notin OfTurn /\ 0 \in 0 .. MaxTurns
          /\ r \notin {"response", "started", "completed", "failed"} /\ LineTypes /\ Ordered(lines)
      BY ConstantsAssumption DEF Answer, OfTurn, Types, Core
    <2>. QED
      BY <1>1, <2>1, LineSaid
  <1>3. \A t : /\ Holds(lines', "started", t) <=> Holds(lines, "started", t)
               /\ Holds(lines', "completed", t) <=> Holds(lines, "completed", t)
               /\ Holds(lines', "response", t) <=> Holds(lines, "response", t)
    BY <1>2
  <1>4. \A t \in Turn : (Live(t)' <=> Live(t)) /\ (Owed(t)' <=> Owed(t))
    BY <1>3 DEF Live, Owed, Has
  <1>5. ~thread' => ~thread /\ call' # "start"
    BY DEF Core, Unopened
  <1>6. OneLive' /\ Ordered(lines)' /\ Over' /\ OwedTurn' /\ Unopened' /\ (NoLive => NoLive')
    BY <1>2, <1>3, <1>4, <1>5, TurnsSame
  <1>7. OneAnswer'
    <2>1. ~Some(lines', {"response"})
      <3>1. ~Some(lines, {"response"})
        BY <1>1, SomeMore DEF Answer
      <3>. QED
        BY <1>2, <3>1
    <2>. QED
      BY <1>1, <1>2, <2>1 DEF OneAnswer, Pending, Heard
  <1>8. Phases'
    <2>1. call = "start" => NoLive'
      BY <1>1, <1>6
    <2>2. call # "start" /\ turn = 0 => NoLive'
      BY <1>6 DEF Core, Phases
    <2>. QED
      BY <1>1, <2>1, <2>2 DEF Core, Phases
  <1>. QED
    BY <1>6, <1>7, <1>8 DEF Core

(* A text is taken up: its turn is now the one there is.                    *)
LEMMA TurnTaken ==
  ASSUME Types, Core, ~exited, exited' = exited, inbox # <<>>, inbox' = Tail(inbox), ~acp, acp' = acp,
         NEW n, Head(inbox).kind = "prompt", Head(inbox).turn = n,
         \/ owes' = owes \cup {n} /\ lines' = lines \o <<Msg("started", n)>>
         \/ owes' = owes /\ lines' = lines \o <<Msg("response", n), Msg("started", n)>>,
         call' = call, thread' = thread, turn' = turn, answered' = answered,
         waiters' = waiters, stored' = stored, ended' = ended, running' = running \cup {n}
  PROVE  /\ Core' /\ LineTypes' /\ n \in Turn
         /\ \A j, u : Holds(lines', j, u) => Holds(lines, j, u) \/ u = n
         /\ \A j, u : Holds(lines, j, u) => Holds(lines', j, u)
  <1>1. /\ ~Some(inbox', Request) /\ ~Some(inbox', {"prompt"}) /\ ~Some(inbox', Request \ {"prompt"})
        /\ Once(inbox', Request) /\ \A t : ~Holds(inbox', "prompt", t)
        /\ Once(lines, Answer) /\ ~Some(lines, Answer) /\ owes = {} /\ answered = 0 /\ call # "idle"
        /\ call = "start" /\ NoLive /\ n \in Turn /\ n \notin ended
        /\ n \notin waiters /\ turn = 0 /\ thread
    <2>1. "prompt" \in Request
      BY DEF Request
    <2>. QED
      BY <2>1, RequestRead
  <1>2. \A t \in Turn : /\ ~Has("started", t) /\ ~Has("completed", t) /\ ~Owed(t) /\ t \notin running
                        /\ ~Holds(lines, "response", t)
    BY <1>1 DEF NoLive, Live, Owed, Has
  <1>3. /\ LineTypes /\ n \in 0 .. MaxTurns /\ n # 0 /\ Ordered(lines)
        /\ "started" \in Answer \cup OfTurn \cup {"ask"} /\ "started" \notin Answer
        /\ "response" \in Answer \cup OfTurn \cup {"ask"}
        /\ ~Holds(lines, "started", n) /\ ~Holds(lines, "completed", n)
    BY <1>1, <1>2 DEF Types, Core, Turn, Answer, OfTurn, Has
  <1>4. /\ LineTypes'
        /\ \A t : Holds(lines', "started", t) <=> Holds(lines, "started", t) \/ t = n
        /\ \A t : Holds(lines', "completed", t) <=> Holds(lines, "completed", t)
        /\ \A t : Holds(lines', "response", t) => Holds(lines, "response", t) \/ t = n
        /\ \A j, u : Holds(lines', j, u) => Holds(lines, j, u) \/ u = n
        /\ \A j, u : Holds(lines, j, u) => Holds(lines', j, u)
        /\ Some(lines', {"refused"}) <=> Some(lines, {"refused"})
        /\ Once(lines', Answer) /\ Ordered(lines')
        /\ Some(lines', Answer) \/ Some(lines', {"response"}) => owes' = {}
    <2>1. CASE owes' = owes \cup {n} /\ lines' = lines \o <<Msg("started", n)>>
      <3>1. /\ LineTypes'
            /\ \A j, u : Holds(lines', j, u) <=> Holds(lines, j, u) \/ (j = "started" /\ u = n)
            /\ \A K : Some(lines', K) <=> Some(lines, K) \/ "started" \in K
            /\ Once(lines', Answer) /\ Ordered(lines')
        BY <1>1, <1>3, <2>1, LineSaid
      <3>2. ~Some(lines, {"response"})
        BY <1>1, SomeMore DEF Answer
      <3>. QED
        BY <1>1, <1>3, <3>1, <3>2
    <2>2. CASE owes' = owes /\ lines' = lines \o <<Msg("response", n), Msg("started", n)>>
      <3>1. /\ LineTypes'
            /\ \A j, v : Holds(lines', j, v) <=>
                 Holds(lines, j, v) \/ (j = "response" /\ v = n) \/ (j = "started" /\ v = n)
            /\ \A K : Some(lines', K) <=> Some(lines, K) \/ "response" \in K \/ "started" \in K
            /\ Once(lines', Answer) /\ Ordered(lines')
        <4>1. PICK s : LineAdded(lines, s, "response", n) /\ LineAdded(s, lines', "started", n)
          <5>1. lines \in Seq(Saying)
            BY <1>3 DEF LineTypes
          <5>. QED
            BY <1>3, <2>2, <5>1, LinesSaid
        <4>2. /\ \A j, v : Holds(s, j, v) <=> Holds(lines, j, v) \/ (j = "response" /\ v = n)
              /\ \A K : Some(s, K) <=> Some(lines, K) \/ "response" \in K
              /\ Once(s, Answer) /\ Ordered(s)
          BY <1>1, <1>3, <4>1 DEF LineAdded
        <4>3. /\ \A j, v : Holds(lines', j, v) <=> Holds(s, j, v) \/ (j = "started" /\ v = n)
              /\ \A K : Some(lines', K) <=> Some(s, K) \/ "started" \in K
              /\ lines' \in Seq(Saying)
          BY <4>1 DEF LineAdded
        <4>4. ~Holds(s, "started", n) /\ ~Holds(s, "completed", n)
          BY <1>3, <4>2
        <4>5. Once(lines', Answer) /\ Ordered(lines')
          BY <1>3, <4>1, <4>2, <4>4 DEF LineAdded
        <4>6. /\ \A j, v : Holds(lines', j, v) <=>
                 Holds(lines, j, v) \/ (j = "response" /\ v = n) \/ (j = "started" /\ v = n)
              /\ \A K : Some(lines', K) <=> Some(lines, K) \/ "response" \in K \/ "started" \in K
          BY <4>2, <4>3
        <4>7. LineTypes'
          BY <1>3, <4>3, <4>6 DEF LineTypes, Has, Heard
        <4>. QED
          BY <4>5, <4>6, <4>7
      <3>2. Some(lines', {"refused"}) <=> Some(lines, {"refused"})
        BY <3>1
      <3>3. owes' = {}
        BY <1>1, <2>2
      <3>4. /\ \A t : Holds(lines', "started", t) <=> Holds(lines, "started", t) \/ t = n
            /\ \A t : Holds(lines', "completed", t) <=> Holds(lines, "completed", t)
            /\ \A t : Holds(lines', "response", t) => Holds(lines, "response", t) \/ t = n
        BY <3>1
      <3>5. /\ \A j, u : Holds(lines', j, u) => Holds(lines, j, u) \/ u = n
            /\ \A j, u : Holds(lines, j, u) => Holds(lines', j, u)
        BY <3>1
      <3>. QED
        BY <3>1, <3>2, <3>3, <3>4, <3>5
    <2>. QED
      BY <2>1, <2>2
  <1>5. \A t \in Turn : (Live(t)' => t = n) /\ (Owed(t)' => t = n)
    BY <1>1, <1>2, <1>4 DEF Live, Owed, Has, Turn
  <1>6. OneAnswer'
    <2>1. owes' # {} => ~Some(lines', Answer) /\ ~Some(lines', {"response"})
      BY <1>4
    <2>. QED
      BY <1>1, <1>4, <2>1 DEF OneAnswer, Pending, Heard
  <1>7. Phases'
    <2>1. ~Some(lines', {"refused"})
      BY <1>1, <1>4, SomeMore DEF Answer
    <2>. QED
      BY <1>1, <2>1 DEF Phases, Pending, Heard
  <1>8. OneLive' /\ Unopened'
    BY <1>1, <1>5 DEF OneLive, Unopened
  <1>9. Over'
    <2>1. ended \subseteq Turn
      BY DEF Types, ClientTypes
    <2>2. \A t \in Turn : ~Holds(lines', "completed", t)
      BY <1>2, <1>4 DEF Has
    <2>. QED
      BY <1>1, <1>2, <1>4, <2>1, <2>2 DEF Core, Over, Has
  <1>10. OwedTurn'
    BY <1>1, <1>4, <1>5 DEF OwedTurn, Has
  <1>. QED
    BY <1>1, <1>4, <1>6, <1>7, <1>8, <1>9, <1>10 DEF Core

(* The one turn there is ends, by itself or because it was interrupted.     *)
LEMMA TurnEnds ==
  ASSUME Types, Core, ~acp, exited' = exited, NEW n \in running,
         call' = call, thread' = thread, turn' = turn, answered' = answered,
         waiters' = waiters, stored' = stored, ended' = ended, running' = running \ {n},
         owes' = owes, Ordered(lines'), ~exited => OneAnswer',
         Some(inbox', {"prompt"}) => Some(inbox, {"prompt"}),
         \A t : Holds(inbox', "prompt", t) => Holds(inbox, "prompt", t),
         Some(lines', {"refused"}) => Some(lines, {"refused"}),
         \A t : Holds(lines', "completed", t) <=> Holds(lines, "completed", t) \/ t = n,
         \A t : /\ Holds(lines', "started", t) <=> Holds(lines, "started", t)
                /\ Holds(lines', "response", t) <=> Holds(lines, "response", t)
  PROVE  Core'
  <1>1. n \in Turn /\ Live(n)
    BY DEF Types, ClientTypes, Live
  <1>2. n \notin ended /\ thread /\ ~NoLive
    BY <1>1 DEF Core, Over, Unopened, NoLive
  <1>3. \A t \in Turn : (Owed(t)' <=> Owed(t)) /\ (Live(t)' => Live(t))
    BY <1>1 DEF Owed, Live, Has
  <1>4. OneLive' /\ Unopened'
    BY <1>2, <1>3 DEF Core, OneLive, Unopened
  <1>5. Over'
    BY <1>2 DEF Core, Over, Has
  <1>6. OwedTurn'
    BY <1>3 DEF Core, OwedTurn, Has
  <1>7. ASSUME ~exited PROVE Phases'
    BY <1>2, <1>7 DEF Core, Phases, Pending, Heard
  <1>. QED
    BY <1>4, <1>5, <1>6, <1>7 DEF Core

LEMMA AgentReadsKeeps == ASSUME Inductive, AgentReads PROVE Inductive'
  <1>0. Types /\ TextsAreNew
    BY DEF Inductive
  <1>1. PICK k, n : k = Head(inbox).kind /\ n = Head(inbox).turn
    OBVIOUS
  <1>2. /\ agentUp /\ inbox # <<>> /\ inbox' = Tail(inbox)
        /\ panel' = panel /\ used' = used /\ toHost' = toHost /\ toPanel' = toPanel /\ hostUp' = hostUp
        /\ call' = call /\ thread' = thread /\ turn' = turn /\ answered' = answered
        /\ waiters' = waiters /\ stored' = stored /\ prompts' = prompts /\ ended' = ended
        /\ acp' = acp /\ agentUp' = agentUp /\ exited' = exited
    BY DEF AgentReads, Working, client
  <1>3. /\ InboxTypes' /\ k \in Request \cup {"cancel", "declined"} /\ n \in 0 .. MaxTurns
        /\ k = "prompt" => n \in Turn
        /\ \A j, u : Holds(inbox, j, u) <=> Holds(inbox', j, u) \/ (j = k /\ u = n)
        /\ \A K : Some(inbox, K) <=> Some(inbox', K) \/ k \in K
        /\ Once(inbox, Request) => Once(inbox', Request)
    BY <1>0, <1>1, <1>2, InboxRead DEF Types
  <1>4. /\ ~exited /\ running \subseteq Turn /\ owes \subseteq Turn /\ used' \in UsedRecord
        /\ used'.turns = used.turns /\ (acp => owes = {}) /\ LineTypes /\ lines \in Seq(Saying)
        /\ 0 \in 0 .. MaxTurns
    BY <1>0, <1>2, ConstantsAssumption DEF Types, ClientTypes, LineTypes
  <1>5. \A u : /\ u \in running \/ u \in owes \/ Holds(inbox', "prompt", u) => Known(u)
               /\ \A j \in OfTurn : Holds(lines, j, u) => Known(u)
    BY <1>3 DEF Known, Has
  <1>6. k = "prompt" => Known(n)
    BY <1>3 DEF Known
  <1>7. CASE \E r \in {"ok", "refused"} : /\ k \in Request /\ (k = "prompt" => r = "refused")
                                          /\ lines' = lines \o <<Msg(r, 0)>>
                                          /\ running' = running /\ owes' = owes
    <2>1. PICK r \in {"ok", "refused"} : /\ k \in Request /\ (k = "prompt" => r = "refused")
                                         /\ lines' = lines \o <<Msg(r, 0)>>
                                         /\ running' = running /\ owes' = owes
      BY <1>7
    <2>2. LineTypes' /\ \A j, u : Holds(lines', j, u) <=> Holds(lines, j, u) \/ (j = r /\ u = 0)
      <3>1. r \in Answer \cup OfTurn \cup {"ask"} /\ r \notin OfTurn
            /\ r \notin {"response", "started", "failed"}
        BY DEF Answer, OfTurn
      <3>. QED
        BY <1>2, <1>4, <2>1, <3>1, LineSaid
    <2>3. ~acp => Core'
      <3>1. ~acp => Core
        BY DEF Inductive
      <3>. QED
        BY <1>0, <1>1, <1>2, <1>4, <2>1, <3>1, AnswerSaid
    <2>4. \A u \in Turn, j \in OfTurn : Holds(lines', j, u) => Known(u)
      BY <1>5, <2>2 DEF OfTurn
    <2>. QED
      BY <1>2, <1>3, <1>4, <1>5, <2>1, <2>2, <2>3, <2>4, AgentMoves
  <1>8. CASE k = "prompt" /\ acp /\ owes' = owes /\ running' = running \cup {n} /\ lines' = lines
    <2>1. running' \subseteq Turn
      BY <1>3, <1>4, <1>8
    <2>2. \A u \in Turn : u \in running' => Known(u)
      BY <1>5, <1>6, <1>8
    <2>3. LineTypes'
      BY <1>2, <1>4, <1>8 DEF LineTypes, Has, Heard
    <2>. QED
      BY <1>2, <1>3, <1>4, <1>5, <1>8, <2>1, <2>2, <2>3, AgentMoves
  <1>9. CASE k = "prompt" /\ acp /\ owes' = owes /\ running' = running /\ lines' = lines \o <<Msg("failed", n)>>
    <2>1. LineTypes' /\ \A j, u : Holds(lines', j, u) <=> Holds(lines, j, u) \/ (j = "failed" /\ u = n)
      <3>1. "failed" \in Answer \cup OfTurn \cup {"ask"} /\ n # 0
        BY <1>3, <1>9 DEF OfTurn, Turn
      <3>. QED
        BY <1>2, <1>3, <1>4, <1>9, <3>1, LineSaid
    <2>2. \A u \in Turn, j \in OfTurn : Holds(lines', j, u) => Known(u)
      BY <1>5, <1>6, <1>9, <2>1
    <2>. QED
      BY <1>2, <1>3, <1>4, <1>5, <1>9, <2>1, <2>2, AgentMoves
  <1>10. CASE /\ k = "prompt" /\ ~acp /\ running' = running \cup {n}
              /\ \/ owes' = owes \cup {n} /\ lines' = lines \o <<Msg("started", n)>>
                 \/ owes' = owes /\ lines' = lines \o <<Msg("response", n), Msg("started", n)>>
    <2>1. Core
      BY <1>10 DEF Inductive
    <2>2. /\ Core' /\ LineTypes' /\ n \in Turn
          /\ \A j, u : Holds(lines', j, u) => Holds(lines, j, u) \/ u = n
          /\ \A j, u : Holds(lines, j, u) => Holds(lines', j, u)
      BY <1>0, <1>1, <1>2, <1>4, <1>10, <2>1, TurnTaken
    <2>3. running' \subseteq Turn /\ owes' \subseteq Turn
      BY <1>4, <1>10, <2>2
    <2>4. \A u \in Turn : u \in running' \/ u \in owes' => Known(u)
      BY <1>5, <1>6, <1>10
    <2>5. \A u \in Turn, j \in OfTurn : Holds(lines', j, u) => Known(u)
      BY <1>5, <1>6, <1>10, <2>2
    <2>. QED
      BY <1>2, <1>3, <1>4, <1>5, <1>10, <2>2, <2>3, <2>4, <2>5, AgentMoves
  <1>11. CASE /\ k = "interrupt" /\ owes' = owes /\ n \in running /\ running' = running \ {n}
              /\ \/ lines' = lines \o <<Msg("ok", 0), Msg("completed", n)>>
                 \/ lines' = lines \o <<Msg("completed", n), Msg("ok", 0)>>
    <2>1. /\ n \in Turn /\ n # 0
          /\ "ok" \in Answer \cup OfTurn \cup {"ask"} /\ "completed" \in Answer \cup OfTurn \cup {"ask"}
          /\ "ok" \in Answer /\ "completed" \notin Answer
      BY <1>4, <1>11 DEF Turn, Answer, OfTurn
    <2>2. PICK s : \/ LineAdded(lines, s, "ok", 0) /\ LineAdded(s, lines', "completed", n)
                   \/ LineAdded(lines, s, "completed", n) /\ LineAdded(s, lines', "ok", 0)
      <3>1. CASE lines' = lines \o <<Msg("ok", 0), Msg("completed", n)>>
        BY <1>3, <1>4, <2>1, <3>1, LinesSaid
      <3>2. CASE lines' = lines \o <<Msg("completed", n), Msg("ok", 0)>>
        BY <1>3, <1>4, <2>1, <3>2, LinesSaid
      <3>. QED
        BY <1>11, <3>1, <3>2
    <2>3. /\ lines' \in Seq(Saying)
          /\ \A j, u : Holds(lines', j, u) <=>
               Holds(lines, j, u) \/ (j = "ok" /\ u = 0) \/ (j = "completed" /\ u = n)
          /\ \A K : Some(lines', K) <=> Some(lines, K) \/ "ok" \in K \/ "completed" \in K
      <3>1. CASE LineAdded(lines, s, "ok", 0) /\ LineAdded(s, lines', "completed", n)
        BY <3>1 DEF LineAdded
      <3>2. CASE LineAdded(lines, s, "completed", n) /\ LineAdded(s, lines', "ok", 0)
        BY <3>2 DEF LineAdded
      <3>. QED
        BY <2>2, <3>1, <3>2
    <2>4. LineTypes'
      BY <1>2, <1>4, <2>1, <2>3 DEF LineTypes, Has, Heard, OfTurn
    <2>5. ASSUME ~acp PROVE Core'
      <3>1. Core /\ OneAnswer /\ Over /\ Ordered(lines) /\ "interrupt" \in Request
        BY <1>4, <2>5 DEF Inductive, Core, Request
      <3>2. /\ ~Some(inbox', Request) /\ ~Some(inbox', {"prompt"}) /\ ~Some(inbox', Request \ {"prompt"})
            /\ Once(inbox', Request) /\ \A t : ~Holds(inbox', "prompt", t)
            /\ Once(lines, Answer) /\ ~Some(lines, Answer) /\ owes = {} /\ answered = 0 /\ call # "idle"
            /\ call # "start"
        BY <1>0, <1>1, <1>2, <1>4, <1>11, <3>1, RequestRead
      <3>3. ~Holds(lines, "completed", n)
        BY <1>11, <2>1, <3>1 DEF Over, Has
      <3>4. Once(lines', Answer) /\ Ordered(lines')
        <4>1. CASE LineAdded(lines, s, "ok", 0) /\ LineAdded(s, lines', "completed", n)
          BY <2>1, <3>1, <3>2, <3>3, <4>1 DEF LineAdded
        <4>2. CASE LineAdded(lines, s, "completed", n) /\ LineAdded(s, lines', "ok", 0)
          BY <2>1, <3>1, <3>2, <3>3, <4>2 DEF LineAdded
        <4>. QED
          BY <2>2, <4>1, <4>2
      <3>5. OneAnswer'
        <4>1. ~Some(lines', {"response"})
          <5>1. ~Some(lines, {"response"})
            BY <3>2, SomeMore DEF Answer
          <5>. QED
            BY <2>3, <5>1
        <4>. QED
          BY <1>2, <1>11, <3>2, <3>4, <4>1 DEF OneAnswer, Pending, Heard
      <3>6. Some(lines', {"refused"}) => Some(lines, {"refused"})
        BY <2>3
      <3>7. \A t : /\ Holds(lines', "completed", t) <=> Holds(lines, "completed", t) \/ t = n
                   /\ Holds(lines', "started", t) <=> Holds(lines, "started", t)
                   /\ Holds(lines', "response", t) <=> Holds(lines, "response", t)
        BY <2>3
      <3>. QED
        BY <1>0, <1>2, <1>11, <2>5, <3>1, <3>2, <3>4, <3>5, <3>6, <3>7, TurnEnds
    <2>6. \A u \in Turn, j \in OfTurn : Holds(lines', j, u) => Known(u)
      <3>1. Known(n) /\ "ok" \notin OfTurn
        BY <1>5, <1>11 DEF OfTurn
      <3>. QED
        BY <1>5, <2>3, <3>1
    <2>7. running' \subseteq Turn /\ \A u \in Turn : u \in running' => Known(u)
      BY <1>4, <1>5, <1>11
    <2>8. \A u : Holds(lines, "started", u) => Holds(lines', "started", u)
      BY <2>3
    <2>. QED
      BY <1>2, <1>3, <1>4, <1>5, <1>11, <2>4, <2>5, <2>6, <2>7, <2>8, AgentMoves
  <1>12. CASE k \in {"cancel", "declined"} /\ lines' = lines /\ running' = running /\ owes' = owes
    <2>1. LineTypes'
      BY <1>2, <1>4, <1>12 DEF LineTypes, Has, Heard
    <2>2. ASSUME ~acp PROVE Core'
      <3>1. Core
        BY <2>2 DEF Inductive
      <3>2. k \notin Request
        BY <1>12 DEF Request
      <3>3. /\ Some(inbox', Request) <=> Some(inbox, Request)
            /\ Some(inbox', {"prompt"}) <=> Some(inbox, {"prompt"})
            /\ Some(inbox', Request \ {"prompt"}) <=> Some(inbox, Request \ {"prompt"})
            /\ \A t : Holds(inbox', "prompt", t) <=> Holds(inbox, "prompt", t)
        BY <1>3, <1>12, <3>2
      <3>4. \A t : (Live(t)' <=> Live(t)) /\ (Owed(t)' <=> Owed(t))
        BY <1>2, <1>12 DEF Live, Owed, Has
      <3>5. OneAnswer => OneAnswer'
        BY <1>2, <1>3, <1>12, <3>3 DEF OneAnswer, Pending, Heard
      <3>6. Phases => Phases'
        BY <1>2, <1>12, <3>3, <3>4 DEF Phases, NoLive, Pending, Heard
      <3>7. OneLive' /\ Ordered(lines)' /\ Unopened'
        BY <1>2, <1>12, <3>1, <3>4 DEF Core, OneLive, Unopened, NoLive
      <3>8. Over' /\ OwedTurn'
        BY <1>2, <1>12, <3>1, <3>4 DEF Core, Over, OwedTurn, Has
      <3>. QED
        BY <1>2, <3>1, <3>5, <3>6, <3>7, <3>8 DEF Core
    <2>. QED
      BY <1>2, <1>3, <1>4, <1>5, <1>12, <2>1, <2>2, AgentMoves
  <1>13. \/ k \in {"init", "resume", "new"} /\ running' = running /\ owes' = owes
              /\ \E r \in {"ok", "refused"} : lines' = lines \o <<Msg(r, 0)>>
         \/ /\ k = "prompt" /\ acp /\ owes' = owes
            /\ \/ running' = running \cup {n} /\ lines' = lines
               \/ running' = running /\ lines' = lines \o <<Msg("failed", n)>>
         \/ /\ k = "prompt" /\ ~acp
            /\ \/ running' = running \cup {n} /\ owes' = owes \cup {n} /\ lines' = lines \o <<Msg("started", n)>>
               \/ running' = running \cup {n} /\ owes' = owes
                    /\ lines' = lines \o <<Msg("response", n), Msg("started", n)>>
               \/ running' = running /\ owes' = owes /\ lines' = lines \o <<Msg("refused", 0)>>
         \/ /\ k = "interrupt" /\ owes' = owes
            /\ \/ /\ n \in running /\ running' = running \ {n}
                  /\ \/ lines' = lines \o <<Msg("ok", 0), Msg("completed", n)>>
                     \/ lines' = lines \o <<Msg("completed", n), Msg("ok", 0)>>
               \/ running' = running /\ lines' = lines \o <<Msg("refused", 0)>>
         \/ k \in {"cancel", "declined"} /\ lines' = lines /\ running' = running /\ owes' = owes
    BY <1>1 DEF AgentReads, Say
  <1>14. /\ "prompt" \in Request /\ "interrupt" \in Request
         /\ \A j \in {"init", "resume", "new"} : j \in Request /\ j # "prompt"
    BY DEF Request
  <1>. QED
    BY <1>7, <1>8, <1>9, <1>10, <1>11, <1>12, <1>13, <1>14

(* The answer to turn/start that was still owed.                            *)
LEMMA AgentRespondsKeeps ==
  ASSUME Inductive, NEW t \in Turn, AgentResponds(t) PROVE Inductive'
  <1>0. Types /\ TextsAreNew
    BY DEF Inductive
  <1>1. /\ agentUp /\ t \in owes /\ owes' = owes \ {t} /\ lines' = lines \o <<Msg("response", t)>>
        /\ inbox' = inbox /\ running' = running
        /\ panel' = panel /\ used' = used /\ toHost' = toHost /\ toPanel' = toPanel /\ hostUp' = hostUp
        /\ call' = call /\ thread' = thread /\ turn' = turn /\ answered' = answered
        /\ waiters' = waiters /\ stored' = stored /\ prompts' = prompts /\ ended' = ended
        /\ acp' = acp /\ agentUp' = agentUp /\ exited' = exited
    BY DEF AgentResponds, Working, Say, client
  <1>2. /\ ~exited /\ ~acp /\ running \subseteq Turn /\ owes' \subseteq Turn /\ used' \in UsedRecord
        /\ used'.turns = used.turns /\ LineTypes /\ InboxTypes' /\ t \in 0 .. MaxTurns /\ t # 0
    BY <1>0, <1>1, ConstantsAssumption DEF Types, ClientTypes, InboxTypes, Turn
  <1>3. Core /\ OneAnswer /\ Ordered(lines) /\ "response" \in Answer
        /\ "response" \in Answer \cup OfTurn \cup {"ask"}
    BY <1>2 DEF Inductive, Core, Answer
  <1>4. /\ ~Pending(Request) /\ ~Some(lines, Answer) /\ Once(lines, Answer) /\ Once(inbox, Request)
        /\ answered = 0 /\ call = "start"
    BY <1>1, <1>3 DEF OneAnswer, Heard
  <1>5. /\ LineTypes' /\ Once(lines', Answer) /\ Ordered(lines')
        /\ \A j, u : Holds(lines', j, u) <=> Holds(lines, j, u) \/ (j = "response" /\ u = t)
        /\ \A K : Some(lines', K) <=> Some(lines, K) \/ "response" \in K
    BY <1>1, <1>2, <1>3, <1>4, LineSaid
  <1>6. owes' = {}
    <2>1. \A u \in Turn : u \in owes => u = t
      BY <1>1, <1>3 DEF Core, OneLive, Live, Owed
    <2>. QED
      BY <1>1, <1>2, <2>1
  <1>7. \A u \in Turn : (Live(u)' <=> Live(u)) /\ (Owed(u)' <=> Owed(u))
    <2>1. \A u \in Turn : Owed(u)' <=> Owed(u)
      BY <1>1, <1>5 DEF Owed, Has
    <2>. QED
      BY <1>1, <1>5, <2>1 DEF Live, Has
  <1>8. Core'
    <2>1. \A u \in Turn : /\ Holds(lines', "started", u) <=> Holds(lines, "started", u)
                          /\ Holds(lines', "completed", u) <=> Holds(lines, "completed", u)
      BY <1>5
    <2>2. ~thread' => ~thread /\ call' # "start"
      BY <1>1, <1>3 DEF Core, Unopened
    <2>3. OneLive' /\ Ordered(lines)' /\ Over' /\ OwedTurn' /\ Unopened' /\ (NoLive => NoLive')
      BY <1>0, <1>1, <1>3, <1>5, <1>7, <2>1, <2>2, TurnsSame
    <2>4. ~Some(inbox, {"prompt"}) /\ ~Some(inbox, Request \ {"prompt"}) /\ ~Some(lines, {"refused"})
      BY <1>4, SomeMore DEF Pending, Request, Answer
    <2>5. ~Some(lines', {"refused"})
      BY <1>5, <2>4
    <2>6. OneAnswer'
      BY <1>1, <1>4, <1>5, <1>6, <2>4 DEF OneAnswer, Pending, Heard
    <2>7. Phases'
      BY <1>1, <1>2, <1>3, <1>4, <2>4, <2>5 DEF Core, Phases, Pending, Heard
    <2>. QED
      BY <2>3, <2>6, <2>7 DEF Core
  <1>9. \A u \in Turn : u \in running' \/ u \in owes' \/ Holds(inbox', "prompt", u) => Known(u)
    BY <1>1 DEF Known
  <1>10. \A u \in Turn, j \in OfTurn : Holds(lines', j, u) => Known(u)
    BY <1>1, <1>5 DEF Known, Has
  <1>11. \A u : Holds(lines, "started", u) => Holds(lines', "started", u)
    BY <1>5
  <1>. QED
    BY <1>1, <1>2, <1>5, <1>8, <1>9, <1>10, <1>11, AgentMoves

(* A line that neither starts nor ends a turn, nor answers anything.        *)
LEMMA OtherSaid ==
  ASSUME Types, Core, exited' = exited, inbox' = inbox, acp' = acp,
         call' = call, thread' = thread, turn' = turn, answered' = answered,
         waiters' = waiters, stored' = stored, ended' = ended, running' = running, owes' = owes,
         NEW kind \in {"delta", "ask"}, NEW n \in 0 .. MaxTurns, kind = "delta" => n # 0,
         lines' = lines \o <<Msg(kind, n)>>
  PROVE  Core'
  <1>1. /\ kind \in Answer \cup OfTurn \cup {"ask"} /\ kind \notin Answer
        /\ kind \in OfTurn => n # 0
        /\ kind \notin {"started", "completed", "response", "failed", "refused"}
        /\ LineTypes /\ Ordered(lines)
    BY DEF Answer, OfTurn, Types, Core
  <1>2. /\ \A j, u : Holds(lines', j, u) <=> Holds(lines, j, u) \/ (j = kind /\ u = n)
        /\ \A K : Some(lines', K) <=> Some(lines, K) \/ kind \in K
        /\ Once(lines, Answer) => Once(lines', Answer)
        /\ Ordered(lines')
    BY <1>1, LineSaid
  <1>3. \A t : /\ Holds(lines', "started", t) <=> Holds(lines, "started", t)
               /\ Holds(lines', "completed", t) <=> Holds(lines, "completed", t)
               /\ Holds(lines', "response", t) <=> Holds(lines, "response", t)
    BY <1>1, <1>2
  <1>4. \A t \in Turn : (Live(t)' <=> Live(t)) /\ (Owed(t)' <=> Owed(t))
    BY <1>3 DEF Live, Owed, Has
  <1>5. ~thread' => ~thread /\ call' # "start"
    <2>1. thread \/ call # "start"
      BY DEF Core, Unopened
    <2>. QED
      BY <2>1
  <1>6. Core'
    <2>1. OneLive' /\ Over' /\ OwedTurn' /\ (NoLive => NoLive')
      BY <1>3, <1>4 DEF Core, OneLive, Over, OwedTurn, NoLive, Has, Types, ClientTypes
    <2>2. Unopened'
      BY <2>1 DEF Core, Unopened
    <2>3. (Some(lines', Answer) <=> Some(lines, Answer))
          /\ (Some(lines', {"response"}) <=> Some(lines, {"response"}))
          /\ (Some(lines', {"refused"}) <=> Some(lines, {"refused"}))
      BY <1>1, <1>2
    <2>4. OneAnswer => OneAnswer'
      BY <1>2, <2>3 DEF OneAnswer, Pending, Heard
    <2>5. Phases => Phases'
      BY <2>1, <2>3 DEF Phases, Pending, Heard
    <2>. QED
      BY <1>2, <2>1, <2>2, <2>4, <2>5 DEF Core
  <1>. QED
    BY <1>6

LEMMA AgentStreamsKeeps ==
  ASSUME Inductive, NEW t \in Turn, AgentStreams(t) PROVE Inductive'
  <1>0. Types /\ TextsAreNew
    BY DEF Inductive
  <1>1. /\ agentUp /\ t \in running /\ lines' = lines \o <<Msg("delta", t)>>
        /\ inbox' = inbox /\ running' = running /\ owes' = owes
        /\ panel' = panel /\ used' = used /\ toHost' = toHost /\ toPanel' = toPanel /\ hostUp' = hostUp
        /\ call' = call /\ thread' = thread /\ turn' = turn /\ answered' = answered
        /\ waiters' = waiters /\ stored' = stored /\ prompts' = prompts /\ ended' = ended
        /\ acp' = acp /\ agentUp' = agentUp /\ exited' = exited
    BY DEF AgentStreams, Working, Say, client
  <1>2. /\ running' \subseteq Turn /\ owes' \subseteq Turn /\ (acp => owes' = {}) /\ used' \in UsedRecord
        /\ used'.turns = used.turns /\ LineTypes /\ InboxTypes' /\ t \in 0 .. MaxTurns /\ t # 0
    BY <1>0, <1>1, ConstantsAssumption DEF Types, ClientTypes, InboxTypes, Turn
  <1>3. LineTypes' /\ \A j, u : Holds(lines', j, u) <=> Holds(lines, j, u) \/ (j = "delta" /\ u = t)
    <2>1. "delta" \in Answer \cup OfTurn \cup {"ask"}
      BY DEF OfTurn
    <2>. QED
      BY <1>1, <1>2, <2>1, LineSaid
  <1>4. ~acp => Core'
    BY <1>0, <1>1, <1>2, OtherSaid DEF Inductive
  <1>5. \A u \in Turn : u \in running' \/ u \in owes' \/ Holds(inbox', "prompt", u) => Known(u)
    BY <1>1 DEF Known
  <1>6. \A u \in Turn, j \in OfTurn : Holds(lines', j, u) => Known(u)
    BY <1>1, <1>3 DEF Known, Has
  <1>7. \A u : Holds(lines, "started", u) => Holds(lines', "started", u)
    BY <1>3
  <1>. QED
    BY <1>1, <1>2, <1>3, <1>4, <1>5, <1>6, <1>7, AgentMoves

LEMMA AgentAsksKeeps == ASSUME Inductive, AgentAsks PROVE Inductive'
  <1>0. Types /\ TextsAreNew
    BY DEF Inductive
  <1>1. /\ agentUp /\ lines' = lines \o <<Msg("ask", 0)>>
        /\ used.asks < MaxAsks /\ used' = [used EXCEPT !.asks = @ + 1]
        /\ inbox' = inbox /\ running' = running /\ owes' = owes
        /\ panel' = panel /\ toHost' = toHost /\ toPanel' = toPanel /\ hostUp' = hostUp
        /\ call' = call /\ thread' = thread /\ turn' = turn /\ answered' = answered
        /\ waiters' = waiters /\ stored' = stored /\ prompts' = prompts /\ ended' = ended
        /\ acp' = acp /\ agentUp' = agentUp /\ exited' = exited
    BY DEF AgentAsks, Say, client, agent
  <1>2. used' \in UsedRecord /\ used'.turns = used.turns
    <2>1. used \in UsedRecord
      BY <1>0 DEF Types
    <2>2. used.asks + 1 \in 0 .. MaxAsks
      BY <1>1, <2>1, ConstantsAssumption DEF UsedRecord
    <2>. QED
      BY <1>1, <2>1, <2>2 DEF UsedRecord
  <1>3. /\ running' \subseteq Turn /\ owes' \subseteq Turn /\ (acp => owes' = {})
        /\ LineTypes /\ InboxTypes' /\ 0 \in 0 .. MaxTurns
    BY <1>0, <1>1, ConstantsAssumption DEF Types, ClientTypes, InboxTypes
  <1>4. LineTypes' /\ \A j, u : Holds(lines', j, u) <=> Holds(lines, j, u) \/ (j = "ask" /\ u = 0)
    <2>1. "ask" \in Answer \cup OfTurn \cup {"ask"} /\ "ask" \notin OfTurn
      BY DEF OfTurn
    <2>. QED
      BY <1>1, <1>3, <2>1, LineSaid
  <1>5. ~acp => Core'
    BY <1>0, <1>1, <1>3, OtherSaid DEF Inductive
  <1>6. \A u \in Turn : u \in running' \/ u \in owes' \/ Holds(inbox', "prompt", u) => Known(u)
    BY <1>1 DEF Known
  <1>7. \A u \in Turn, j \in OfTurn : Holds(lines', j, u) => Known(u)
    BY <1>4 DEF Known, Has, OfTurn
  <1>8. \A u : Holds(lines, "started", u) => Holds(lines', "started", u)
    BY <1>4
  <1>. QED
    BY <1>1, <1>2, <1>3, <1>4, <1>5, <1>6, <1>7, <1>8, AgentMoves

LEMMA AgentFinishesKeeps ==
  ASSUME Inductive, NEW t \in Turn, AgentFinishes(t) PROVE Inductive'
  <1>0. Types /\ TextsAreNew
    BY DEF Inductive
  <1>1. /\ agentUp /\ t \in running /\ lines' = lines \o <<Msg("completed", t)>>
        /\ inbox' = inbox /\ running' = running \ {t} /\ owes' = owes
        /\ panel' = panel /\ used' = used /\ toHost' = toHost /\ toPanel' = toPanel /\ hostUp' = hostUp
        /\ call' = call /\ thread' = thread /\ turn' = turn /\ answered' = answered
        /\ waiters' = waiters /\ stored' = stored /\ prompts' = prompts /\ ended' = ended
        /\ acp' = acp /\ agentUp' = agentUp /\ exited' = exited
    BY DEF AgentFinishes, Working, Say, client
  <1>2. /\ running' \subseteq Turn /\ owes' \subseteq Turn /\ (acp => owes' = {}) /\ used' \in UsedRecord
        /\ used'.turns = used.turns /\ LineTypes /\ InboxTypes' /\ t \in 0 .. MaxTurns /\ t # 0
    BY <1>0, <1>1, ConstantsAssumption DEF Types, ClientTypes, InboxTypes, Turn
  <1>3. "completed" \in Answer \cup OfTurn \cup {"ask"} /\ "completed" \notin Answer
    BY DEF Answer, OfTurn
  <1>4. /\ LineTypes'
        /\ \A j, u : Holds(lines', j, u) <=> Holds(lines, j, u) \/ (j = "completed" /\ u = t)
        /\ \A K : Some(lines', K) <=> Some(lines, K) \/ "completed" \in K
        /\ Once(lines, Answer) => Once(lines', Answer)
        /\ Ordered(lines) /\ ~Holds(lines, "completed", t) => Ordered(lines')
    BY <1>1, <1>2, <1>3, LineSaid
  <1>5. ASSUME ~acp PROVE Core'
    <2>1. Core /\ Over /\ Ordered(lines)
      BY <1>5 DEF Inductive, Core
    <2>2. Ordered(lines')
      BY <1>1, <1>4, <2>1 DEF Over, Has
    <2>3. ~exited => OneAnswer'
      <3>1. (Some(lines', Answer) <=> Some(lines, Answer))
            /\ (Some(lines', {"response"}) <=> Some(lines, {"response"}))
        BY <1>3, <1>4
      <3>. QED
        BY <1>1, <1>4, <2>1, <3>1 DEF Core, OneAnswer, Pending, Heard
    <2>4. Some(lines', {"refused"}) => Some(lines, {"refused"})
      BY <1>4
    <2>5. \A u : /\ Holds(lines', "completed", u) <=> Holds(lines, "completed", u) \/ u = t
                 /\ Holds(lines', "started", u) <=> Holds(lines, "started", u)
                 /\ Holds(lines', "response", u) <=> Holds(lines, "response", u)
      BY <1>4
    <2>. QED
      BY <1>0, <1>1, <1>5, <2>1, <2>2, <2>3, <2>4, <2>5, TurnEnds
  <1>6. \A u \in Turn : u \in running' \/ u \in owes' \/ Holds(inbox', "prompt", u) => Known(u)
    BY <1>1 DEF Known
  <1>7. \A u \in Turn, j \in OfTurn : Holds(lines', j, u) => Known(u)
    BY <1>1, <1>4 DEF Known, Has
  <1>8. \A u : Holds(lines, "started", u) => Holds(lines', "started", u)
    BY <1>4
  <1>. QED
    BY <1>1, <1>2, <1>4, <1>5, <1>6, <1>7, <1>8, AgentMoves

LEMMA AgentDiesKeeps == ASSUME Inductive, AgentDies PROVE Inductive'
  <1>0. Types /\ TextsAreNew
    BY DEF Inductive
  <1>1. /\ agentUp /\ agentUp' = FALSE /\ running' = {} /\ owes' = {}
        /\ inbox' = inbox /\ lines' = lines /\ exited' = exited
        /\ panel' = panel /\ used' = used /\ toHost' = toHost /\ toPanel' = toPanel /\ hostUp' = hostUp
        /\ call' = call /\ thread' = thread /\ turn' = turn /\ answered' = answered
        /\ waiters' = waiters /\ stored' = stored /\ prompts' = prompts /\ ended' = ended
        /\ acp' = acp
    BY DEF AgentDies, client, pipes
  <1>2. ClientTypes' /\ LineTypes' /\ InboxTypes'
    BY <1>0, <1>1 DEF Types, ClientTypes, LineTypes, InboxTypes, Has, Heard
  <1>3. \A t : (Live(t)' => Live(t)) /\ (Owed(t)' => Owed(t)) /\ (Known(t)' => Known(t))
    BY <1>1 DEF Live, Owed, Has, Known
  <1>4. TextsAreNew'
    BY <1>0, <1>1, <1>3, TextsLeft DEF TextsAreNew
  <1>5. NoPhantomTurn'
    BY <1>1 DEF Inductive, NoPhantomTurn
  <1>6. ASSUME ~acp PROVE Core' /\ Opening' /\ Follows'
    <2>1. Core /\ Opening /\ Follows
      BY <1>6 DEF Inductive
    <2>2. OneAnswer => OneAnswer'
      BY <1>1 DEF OneAnswer, Pending, Heard
    <2>3. Phases => Phases'
      BY <1>1, <1>3 DEF Phases, NoLive, Pending, Heard
    <2>4. OneLive' /\ Ordered(lines)' /\ Unopened'
      BY <1>1, <1>3, <2>1 DEF Core, OneLive, Unopened, NoLive
    <2>5. Over' /\ OwedTurn'
      BY <1>1, <1>3, <2>1 DEF Core, Over, OwedTurn, Has
    <2>6. Core'
      BY <1>1, <2>1, <2>2, <2>3, <2>4, <2>5 DEF Core
    <2>7. Opening' /\ Follows'
      BY <1>1, <2>1 DEF Opening, Follows, Believes, Has
    <2>. QED
      BY <2>6, <2>7
  <1>7. Types'
    BY <1>0, <1>1, <1>2 DEF Types
  <1>. QED
    BY <1>1, <1>4, <1>5, <1>6, <1>7 DEF Inductive

-----------------------------------------------------------------------------
LEMMA InductiveInit == Init => Inductive
  <1> SUFFICES ASSUME Init PROVE Inductive
    OBVIOUS
  <1>1. /\ panel = [active |-> FALSE, busy |-> FALSE, shown |-> "connecting", card |-> 0]
        /\ used = [turns |-> 0, stops |-> 0, asks |-> 0]
        /\ toHost = <<Msg("open", 0)>> /\ toPanel = <<>> /\ hostUp = TRUE
        /\ call = "idle" /\ thread = FALSE /\ turn = 0 /\ answered = 0
        /\ waiters = {} /\ stored = {} /\ prompts = {} /\ ended = {}
        /\ inbox = <<>> /\ lines = <<>> /\ agentUp = TRUE /\ exited = FALSE
        /\ running = {} /\ owes = {} /\ acp \in BOOLEAN
    BY DEF Init
  <1>2. 0 \in 0 .. MaxTurns /\ 0 \in 0 .. MaxStops /\ 0 \in 0 .. MaxAsks /\ 0 \notin Turn
    BY ConstantsAssumption DEF Turn
  <1>3. \A K, k, t : /\ ~Some(<<>>, K) /\ Once(<<>>, K) /\ ~Holds(<<>>, k, t) /\ Ordered(<<>>)
                     /\ LastTells(<<>>, FALSE) <=> FALSE
    BY DEF Some, Once, Holds, Items, Ordered, LastTells
  <1>4. /\ toHost \in Seq(Clicking) /\ DOMAIN toHost = {1} /\ toHost[1].kind = "open"
        /\ Items(toHost) = {Msg("open", 0)}
    <2>1. PICK m : m = Msg("open", 0)
      OBVIOUS
    <2>2. m \in Clicking /\ m.kind = "open"
      BY <1>2, <2>1, MsgIs DEF Clicking
    <2>3. toHost = <<m>>
      BY <1>1, <2>1
    <2>4. toHost \in Seq(Clicking) /\ DOMAIN toHost = {1} /\ toHost[1] = m
      BY <2>2, <2>3
    <2>. QED
      BY <2>1, <2>2, <2>4 DEF Items
  <1>5. panel \in PanelRecord /\ used \in UsedRecord
    BY <1>1, <1>2 DEF PanelRecord, UsedRecord
  <1>6. ClientTypes /\ LineTypes /\ InboxTypes /\ toPanel \in Seq(Showing)
    <2>1. ClientTypes
      BY <1>1, <1>2 DEF ClientTypes
    <2>2. lines \in Seq(Saying) /\ inbox \in Seq(Asking) /\ toPanel \in Seq(Showing)
      BY <1>1
    <2>3. LineTypes /\ InboxTypes
      BY <1>1, <1>3, <2>2 DEF LineTypes, InboxTypes, Has, Heard
    <2>. QED
      BY <2>1, <2>2, <2>3
  <1>7. \A t \in Turn : ~Known(t)
    BY <1>1, <1>2, <1>3 DEF Known, Has
  <1>8. TextsAreNew
    <2>1. \A u : ~Holds(toHost, "start", u)
      BY <1>4 DEF Holds, Msg
    <2>. QED
      BY <1>4, <1>7, <2>1 DEF TextsAreNew, TextsOrdered
  <1>9. \A t \in Turn : ~Live(t) /\ ~Owed(t)
    BY <1>1, <1>2, <1>3 DEF Live, Owed, Has
  <1>10. Core
    <2>1. OneAnswer /\ Phases
      BY <1>1, <1>3, <1>9 DEF OneAnswer, Phases, NoLive, Pending, Heard
    <2>2. OneLive /\ Over /\ OwedTurn /\ Unopened
      BY <1>1, <1>3, <1>9 DEF OneLive, Over, OwedTurn, Unopened, NoLive, Has
    <2>. QED
      BY <1>1, <1>3, <2>1, <2>2 DEF Core
  <1>11. Opening
    BY <1>1, <1>4 DEF Opening, Once
  <1>12. Follows
    BY <1>1, <1>3 DEF Follows, Believes
  <1>13. NoPhantomTurn
    BY <1>1 DEF NoPhantomTurn
  <1>. QED
    BY <1>4, <1>5, <1>6, <1>8, <1>10, <1>11, <1>12, <1>13 DEF Inductive, Types

LEMMA StutterKeeps == ASSUME Inductive, UNCHANGED vars PROVE Inductive'
  <1>1. /\ panel' = panel /\ used' = used /\ toHost' = toHost /\ toPanel' = toPanel /\ hostUp' = hostUp
        /\ UNCHANGED <<client, agent, pipes>>
    BY DEF vars
  <1>2. /\ call' = call /\ thread' = thread /\ turn' = turn /\ answered' = answered
        /\ waiters' = waiters /\ stored' = stored /\ prompts' = prompts /\ ended' = ended
        /\ acp' = acp /\ agentUp' = agentUp /\ running' = running /\ owes' = owes
        /\ inbox' = inbox /\ lines' = lines /\ exited' = exited
    BY <1>1 DEF client, agent, pipes
  <1>3. Types /\ TextsAreNew
    BY DEF Inductive
  <1>4. /\ ClientTypes' /\ LineTypes' /\ InboxTypes' /\ NoPhantomTurn'
        /\ ~acp => Core'
        /\ \A t \in Turn : Known(t)' => Known(t)
    BY <1>1, <1>3, ClientRests DEF Types, ClientTypes
  <1>5. TextsAreNew'
    BY <1>1, <1>3, <1>4, TextsLeft DEF TextsAreNew
  <1>6. ~acp => Opening' /\ Follows'
    BY <1>1, <1>2 DEF Inductive, Opening, Follows, Believes, Has
  <1>7. Types'
    BY <1>1, <1>3, <1>4 DEF Types
  <1>. QED
    BY <1>2, <1>4, <1>5, <1>6, <1>7 DEF Inductive

LEMMA InductiveStep == Inductive /\ [Next]_vars => Inductive'
  <1> SUFFICES ASSUME Inductive, [Next]_vars PROVE Inductive'
    OBVIOUS
  <1>1. CASE Handle
    BY <1>1, OpenKeeps, StartTurnKeeps, StartAcpTurnKeeps, InterruptTurnKeeps,
       InterruptAcpTurnKeeps, RefuseKeeps DEF Handle
  <1>2. CASE ReadLine
    BY <1>2, AnsweredKeeps, RefusedKeeps, ResponseKeeps, ResumeStartKeeps, StartedKeeps, DeltaKeeps,
       CompletedKeeps, PromptFailedKeeps, ServerRequestKeeps, UnmatchedKeeps, FailAllKeeps DEF ReadLine
  <1>3. CASE PanelReads \/ Send \/ Stop
    BY <1>3, PanelReadsKeeps, SendKeeps, StopKeeps
  <1>4. CASE AgentReads \/ AgentAsks \/ AgentDies \/ HostDies
    BY <1>4, AgentReadsKeeps, AgentAsksKeeps, AgentDiesKeeps, HostDiesKeeps
  <1>5. CASE \E t \in Turn : AgentStreams(t) \/ AgentResponds(t) \/ AgentFinishes(t)
    BY <1>5, AgentStreamsKeeps, AgentRespondsKeeps, AgentFinishesKeeps
  <1>6. CASE UNCHANGED vars
    BY <1>6, StutterKeeps
  <1>. QED
    BY <1>1, <1>2, <1>3, <1>4, <1>5, <1>6 DEF Next

\* The strengthening of all that follows: one turn is under way at most, it is
\* said of it once that it started and once that it ended, in that order, one
\* request at a time is unanswered, and what the panel has still to read tells
\* it of the turn the client has.
THEOREM TurnsAgree == Spec => []Inductive
  <1>. QED
    BY InductiveInit, InductiveStep, PTL DEF Spec

\* The components of the state keep their types: host.js, app-server-client.js,
\* grok-agent-client.js and the panel's controller.
THEOREM TypeCorrect == Spec => []TypeOK
  <1>1. Inductive => TypeOK
    <2> SUFFICES ASSUME Inductive PROVE TypeOK
      OBVIOUS
    <2>1. Types
      BY DEF Inductive
    <2>2. panel \in [active : BOOLEAN, busy : BOOLEAN, card : 0 .. MaxTurns,
                     shown : {"connecting", "ready", "thinking", "stopped",
                              "unavailable", "disconnected"}]
      BY <2>1 DEF Types, PanelRecord
    <2>3. used \in [turns : 0 .. MaxTurns, stops : 0 .. MaxStops, asks : 0 .. MaxAsks]
      BY <2>1 DEF Types, UsedRecord
    <2>4. toHost \in Seq([kind : {"open", "start", "interrupt"}, turn : 0 .. MaxTurns])
      BY <2>1 DEF Types, Clicking, Messages
    <2>5. ClientTypes
      BY <2>1 DEF Types
    <2>. QED
      BY <2>2, <2>3, <2>4, <2>5 DEF TypeOK, ClientTypes
  <1>. QED
    BY <1>1, TurnsAgree, PTL

\* #turnId never names a turn whose end the client has handled, however the
\* answer to turn/start, the notifications and an interrupt are ordered:
\* startTurn, #completeTurn and the notification handlers of both clients.
THEOREM NoPhantom == Spec => []NoPhantomTurn
  <1>1. Inductive => NoPhantomTurn
    BY DEF Inductive
  <1>. QED
    BY <1>1, TurnsAgree, PTL

\* With the app-server client the panel offers Stop exactly when there is a turn
\* to stop, once nothing is under way: the controller's #handleMessage.
THEOREM PanelAgrees == Spec => []PanelFollows
  <1>1. Inductive => PanelFollows
    <2> SUFFICES ASSUME Inductive, Quiet, ~acp PROVE panel.active <=> turn # 0
      BY DEF PanelFollows
    <2>1. hostUp /\ toPanel = <<>> /\ lines = <<>> /\ Follows
      BY DEF Quiet, Inductive
    <2>2. ~Has("started", turn)
      BY <2>1 DEF Has, Holds, Items
    <2>3. panel.active \in BOOLEAN
      BY DEF Inductive, Types, PanelRecord
    <2>4. Believes <=> panel.active
      BY <2>1, <2>3 DEF Believes, LastTells
    <2>. QED
      BY <2>1, <2>2, <2>4 DEF Follows
  <1>. QED
    BY <1>1, TurnsAgree, PTL

\* #turnId is given up only for the end of that turn or for the exit of the
\* agent, in both clients: a late answer, a notification about another turn or a
\* resumed startTurn never replaces it.
THEOREM OwnEnd == Spec => OwnEndOnly
  <1>1. ASSUME Inductive, Next, turn # 0, turn' # turn PROVE turn \in ended' \/ exited'
    <2>1. CASE Started
      <3>1. PICK n : n = Head(lines).turn
        OBVIOUS
      <3>2. lines # <<>> /\ lines' = Tail(lines) /\ acp' = acp /\ Head(lines).kind = "started" /\ turn' = n
        BY <2>1, <3>1 DEF Started, Line, Read, agent
      <3>3. ~acp /\ Holds(lines, "started", n) /\ n \in Turn
        <4>1. LineTypes /\ "started" \in OfTurn
          BY <1>1 DEF Inductive, Types, OfTurn
        <4>. QED
          BY <3>1, <3>2, <4>1, LineRead
      <3>4. turn \in Turn
        BY <1>1, ConstantsAssumption DEF Inductive, Types, ClientTypes, Turn
      <3>5. Live(turn) /\ Live(n)
        BY <3>3 DEF Live, Has
      <3>. QED
        BY <1>1, <3>2, <3>3, <3>4, <3>5 DEF Inductive, Core, OneLive
    <2>2. CASE ResumeStart
      <3>1. answered \in Turn /\ ~acp /\ turn \in Turn
        BY <1>1, <2>2, ConstantsAssumption DEF ResumeStart, Inductive, Types, ClientTypes, Turn
      <3>2. Core /\ NoPhantomTurn
        BY <1>1, <3>1 DEF Inductive
      <3>3. Live(turn) /\ Live(answered)
        BY DEF Live, Owed
      <3>4. turn = answered
        BY <3>1, <3>2, <3>3 DEF Core, OneLive
      <3>5. answered \in stored
        BY <1>1, <2>2, <3>4 DEF ResumeStart
      <3>. QED
        BY <3>2, <3>4, <3>5 DEF Core, Over, NoPhantomTurn
    <2>3. CASE Completed
      BY <1>1, <2>3 DEF Completed, CompleteTurn
    <2>4. CASE PromptFailed
      BY <1>1, <2>4 DEF PromptFailed
    <2>5. CASE FailAll
      BY <2>5 DEF FailAll
    <2>6. CASE InterruptAcpTurn
      BY <1>1, <2>6 DEF InterruptAcpTurn, CompleteTurn
    <2>7. CASE StartAcpTurn
      BY <1>1, <2>7 DEF StartAcpTurn
    <2>8. CASE Open \/ StartTurn \/ InterruptTurn \/ Refuse
      BY <1>1, <2>8 DEF Open, StartTurn, InterruptTurn, Refuse, client
    <2>9. CASE Answered \/ Refused \/ Response \/ Delta \/ ServerRequest \/ Unmatched
      BY <1>1, <2>9 DEF Answered, Refused, Response, Delta, ServerRequest, Unmatched, client
    <2>10. CASE PanelReads \/ Send \/ Stop \/ HostDies \/ AgentDies \/ AgentAsks
      BY <1>1, <2>10 DEF PanelReads, UI, Send, Stop, HostDies, AgentDies, AgentAsks, client
    <2>11. CASE AgentReads \/ \E t \in Turn : AgentStreams(t) \/ AgentResponds(t) \/ AgentFinishes(t)
      BY <1>1, <2>11 DEF AgentReads, AgentStreams, AgentResponds, AgentFinishes, Working, client
    <2>. QED
      BY <1>1, <2>1, <2>2, <2>3, <2>4, <2>5, <2>6, <2>7, <2>8, <2>9, <2>10, <2>11
         DEF Next, Handle, ReadLine
  <1>2. Inductive /\ [Next]_vars => [(turn # 0 /\ turn' # turn) => turn \in ended' \/ exited']_vars
    BY <1>1
  <1>. QED
    BY <1>2, TurnsAgree, PTL DEF Spec, OwnEndOnly

=============================================================================
