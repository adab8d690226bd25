------------------------ MODULE LifecyclePanelProofs ------------------------
(***************************************************************************)
(* What panel_card checks on three connections, for any number of them:    *)
(* no click the panel let through is lost at the router, nothing of an     *)
(* earlier connection decides anything, and a stopped Chrome review leaves *)
(* no decision to click.  The argument: the turn to move is in one place,  *)
(* a click in the pipe to the host, a command under way at the router, an  *)
(* offer in the pipe to the panel or a card that can be clicked, and where *)
(* it is fixes what the router accepts.                                    *)
(***************************************************************************)
EXTENDS LifecyclePanel, SequenceTheorems, TLAPS

HostMessage  == [kind : Command, rev : {0} \cup Conn]
PanelMessage == [kind : Event, rev : {0} \cup Conn]

(* What a click asks for, and what an event of the router lets the panel    *)
(* click, is still open at the router: nothing is under way there, and its  *)
(* grants are not spent.                                                    *)
Click == {"start", "accept", "reject"}
Offer == {"available", "eligible"}
Open(c, kind) ==
  /\ router[c].busy = "no" /\ router[c].bound
  /\ kind \in {"start", "available"} => router[c].state = "available"
  /\ kind \in {"accept", "reject", "eligible"} =>
       router[c].state = "eligible" /\ router[c].grant /\ router[c].rejection
Clickable == panel.state = "available" \/ (panel.state = "eligible" /\ panel.decision)
NoClick(c) == \A k \in DOMAIN toHost[c] : toHost[c][k].kind \notin Click
NoOffer(c) == \A k \in DOMAIN toPanel[c] : toPanel[c][k].kind \notin Offer

(* The connection attempts and the port belong to the current generation.   *)
OneConnection ==
  /\ panel.port \in {0, panel.gen} /\ panel.connecting \in {0, panel.gen}
  /\ \A a \in attempts : a <= panel.gen
  /\ panel.gen \in attempts => panel.connecting = panel.gen
  /\ panel.connecting # 0 => panel.port = 0
  /\ panel.port = 0 => /\ panel.state = "idle" /\ panel.review = 0 /\ ~panel.decision
                       /\ chrome.owner = 0
PanelAgrees ==
  /\ OneConnection /\ OnlyThisConnection /\ StopWithdraws
  /\ chrome.revoked => chrome.owner # 0

(* What is in the pipes of a connection agrees with its router; there is    *)
(* one click or one offer at a time.                                        *)
ClicksAreOpen(c) ==
  \A k \in DOMAIN toHost[c] :
    toHost[c][k].kind \in Click => toHost[c][k].rev = c /\ Open(c, toHost[c][k].kind)
OffersAreOpen(c) ==
  \A k \in DOMAIN toPanel[c] :
    toPanel[c][k].kind \in Offer => toPanel[c][k].rev = c /\ Open(c, toPanel[c][k].kind)
FailuresAreTrue(c) ==
  \A k \in DOMAIN toPanel[c] :
    toPanel[c][k].kind \in {"failed", "rolledBack"} => router[c].state = "failed"
OneClick(c) ==
  \A k, l \in DOMAIN toHost[c] :
    toHost[c][k].kind \in Click /\ toHost[c][l].kind \in Click => k = l
OneOffer(c) ==
  \A k, l \in DOMAIN toPanel[c] :
    toPanel[c][k].kind \in Offer /\ toPanel[c][l].kind \in Offer => k = l
ClickOrOffer(c) == NoClick(c) \/ NoOffer(c)
BusyState(c) ==
  /\ router[c].busy = "status"   => router[c].state = "idle"
  /\ router[c].busy = "start"    => router[c].state = "reviewing" /\ router[c].bound
  /\ router[c].busy = "accept"   => router[c].state = "activating" /\ router[c].bound
  /\ router[c].busy = "reject"   => router[c].state = "rejected" /\ router[c].bound
  /\ router[c].busy = "navigate" => router[c].state = "failed"
PipesAgree(c) ==
  /\ ClicksAreOpen(c) /\ OffersAreOpen(c) /\ FailuresAreTrue(c)
  /\ OneClick(c) /\ OneOffer(c) /\ ClickOrOffer(c) /\ BusyState(c)

(* A card that can be clicked says what the router accepts, and nothing     *)
(* else in the pipes does.                                                  *)
CardAgrees ==
  panel.port # 0 =>
    /\ Clickable => /\ panel.review = panel.port /\ Open(panel.port, panel.state)
                    /\ NoClick(panel.port) /\ NoOffer(panel.port)
    /\ panel.state = "failed" => router[panel.port].state = "failed"

Inductive == TypeOK /\ PanelAgrees /\ CardAgrees /\ \A c \in Conn : PipesAgree(c)

-----------------------------------------------------------------------------
(* What of a pipe is left: no message of a kind in K is new, and none has   *)
(* changed its place among the others.                                      *)
Left(t, s, K) ==
  \E d \in {0, 1} : \A k \in DOMAIN t :
    t[k].kind \in K => k + d \in DOMAIN s /\ t[k] = s[k + d]

LEMMA LeftSame == ASSUME NEW s, DOMAIN s \subseteq Nat, NEW K PROVE Left(s, s, K)
  <1>1. \A k \in DOMAIN s : k + 0 = k
    OBVIOUS
  <1>. QED
    BY <1>1 DEF Left

LEMMA LeftAppend ==
  ASSUME NEW S, NEW s \in Seq(S), NEW m, NEW K, m.kind \notin K, m \in S
  PROVE  Left(Append(s, m), s, K)
  <1>1. \A k \in DOMAIN Append(s, m) : Append(s, m)[k].kind \in K =>
          k + 0 \in DOMAIN s /\ Append(s, m)[k] = s[k + 0]
    OBVIOUS
  <1>. QED
    BY <1>1 DEF Left

LEMMA LeftTail ==
  ASSUME NEW S, NEW s \in Seq(S), s # <<>>, NEW K
  PROVE  Left(Tail(s), s, K)
  <1>1. \A k \in DOMAIN Tail(s) : k + 1 \in DOMAIN s /\ Tail(s)[k] = s[k + 1]
    OBVIOUS
  <1>. QED
    BY <1>1 DEF Left

LEMMA LeftNone ==
  ASSUME NEW t, NEW s, NEW K, \A k \in DOMAIN t : t[k].kind \notin K
  PROVE  Left(t, s, K)
  BY DEF Left

(* A connection whose router rests keeps its agreement with what is left of *)
(* its pipes, and so does the card.                                         *)
Said == {"failed", "rolledBack"}
LEMMA PipesLeft ==
  ASSUME TypeOK, NEW c \in Conn, PipesAgree(c), router'[c] = router[c],
         Left(toHost'[c], toHost[c], Click), Left(toPanel'[c], toPanel[c], Offer \cup Said),
         DOMAIN toHost'[c] \subseteq Nat, DOMAIN toPanel'[c] \subseteq Nat
  PROVE  PipesAgree(c)'
  <1>1. PICK d \in {0, 1} : \A k \in DOMAIN toHost'[c] :
          toHost'[c][k].kind \in Click => k + d \in DOMAIN toHost[c] /\ toHost'[c][k] = toHost[c][k + d]
    BY DEF Left
  <1>2. PICK e \in {0, 1} : \A k \in DOMAIN toPanel'[c] :
          toPanel'[c][k].kind \in Offer \cup Said =>
            k + e \in DOMAIN toPanel[c] /\ toPanel'[c][k] = toPanel[c][k + e]
    BY DEF Left
  <1>3. ClicksAreOpen(c)'
    BY <1>1 DEF PipesAgree, ClicksAreOpen, Open
  <1>4. OffersAreOpen(c)' /\ FailuresAreTrue(c)'
    BY <1>2 DEF PipesAgree, OffersAreOpen, FailuresAreTrue, Open, Said
  <1>5. OneClick(c)'
    BY <1>1 DEF PipesAgree, OneClick
  <1>6. OneOffer(c)'
    BY <1>2 DEF PipesAgree, OneOffer
  <1>7. NoClick(c) => NoClick(c)'
    BY <1>1 DEF NoClick
  <1>8. NoOffer(c) => NoOffer(c)'
    BY <1>2 DEF NoOffer
  <1>. QED
    BY <1>3, <1>4, <1>5, <1>6, <1>7, <1>8 DEF PipesAgree, ClickOrOffer, BusyState

LEMMA CardLeft ==
  ASSUME TypeOK, CardAgrees,
         panel'.port = panel.port, panel'.review = panel.review,
         panel'.state = panel.state, panel'.decision = panel.decision,
         panel.port # 0 =>
           /\ router'[panel.port] = router[panel.port]
           /\ Left(toHost'[panel.port], toHost[panel.port], Click)
           /\ Left(toPanel'[panel.port], toPanel[panel.port], Offer \cup Said)
  PROVE  CardAgrees'
  <1> SUFFICES ASSUME panel.port # 0
               PROVE  CardAgrees'
    BY DEF CardAgrees
  <1>1. PICK d \in {0, 1} : \A k \in DOMAIN toHost'[panel.port] :
          toHost'[panel.port][k].kind \in Click =>
            k + d \in DOMAIN toHost[panel.port] /\ toHost'[panel.port][k] = toHost[panel.port][k + d]
    BY DEF Left
  <1>2. PICK e \in {0, 1} : \A k \in DOMAIN toPanel'[panel.port] :
          toPanel'[panel.port][k].kind \in Offer \cup Said =>
            k + e \in DOMAIN toPanel[panel.port]
            /\ toPanel'[panel.port][k] = toPanel[panel.port][k + e]
    BY DEF Left
  <1>3. NoClick(panel.port) => NoClick(panel.port)'
    BY <1>1 DEF NoClick
  <1>4. NoOffer(panel.port) => NoOffer(panel.port)'
    BY <1>2 DEF NoOffer
  <1>. QED
    BY <1>3, <1>4 DEF CardAgrees, Clickable, Open

-----------------------------------------------------------------------------
(* A post leaves the pipes of the other connections as they are, and its    *)
(* own with one message more, if its host runs.                             *)
LEMMA PostShape ==
  ASSUME TypeOK, NEW c \in {0} \cup Conn, NEW kind \in Command, NEW rev \in {0} \cup Conn,
         Post(c, kind, rev)
  PROVE  /\ toHost' \in [Conn -> Seq(HostMessage)]
         /\ \A e \in Conn :
              \/ toHost'[e] = toHost[e]
              \/ e = c /\ toHost'[e] = Append(toHost[e], [kind |-> kind, rev |-> rev])
  <1>1. [kind |-> kind, rev |-> rev] \in HostMessage /\ toHost \in [Conn -> Seq(HostMessage)]
    BY DEF TypeOK, HostMessage
  <1>2. 0 \notin Conn
    BY DEF Conn
  <1>3. CASE c = 0
    BY <1>1, <1>2, <1>3 DEF Post
  <1>4. CASE c \in Conn
    <2>1. Append(toHost[c], [kind |-> kind, rev |-> rev]) \in Seq(HostMessage)
      BY <1>1, <1>4
    <2>. QED
      BY <1>1, <1>2, <1>4, <2>1 DEF Post
  <1>. QED
    BY <1>3, <1>4

(* What is left of every pipe to the host.                                  *)
HostLeft == /\ toHost' \in [Conn -> Seq(HostMessage)]
            /\ \A e \in Conn : Left(toHost'[e], toHost[e], Click)
LEMMA PostLeft ==
  ASSUME TypeOK, NEW c \in {0} \cup Conn, NEW kind \in Command, NEW rev \in {0} \cup Conn,
         Post(c, kind, rev), kind \notin Click
  PROVE  HostLeft
  <1>1. [kind |-> kind, rev |-> rev] \in HostMessage /\ toHost \in [Conn -> Seq(HostMessage)]
    BY DEF TypeOK, HostMessage
  <1>2. ASSUME NEW e \in Conn PROVE Left(toHost'[e], toHost[e], Click)
    <2>1. toHost[e] \in Seq(HostMessage) /\ DOMAIN toHost[e] \subseteq Nat
      BY <1>1
    <2>2. Left(toHost[e], toHost[e], Click)
      BY <2>1, LeftSame
    <2>3. Left(Append(toHost[e], [kind |-> kind, rev |-> rev]), toHost[e], Click)
      BY <1>1, <2>1, LeftAppend
    <2>4. toHost'[e] = toHost[e] \/ toHost'[e] = Append(toHost[e], [kind |-> kind, rev |-> rev])
      BY PostShape
    <2>. QED
      BY <2>2, <2>3, <2>4
  <1>. QED
    BY <1>2, PostShape DEF HostLeft

LEMMA RestLeft == ASSUME TypeOK, UNCHANGED toHost PROVE HostLeft
  <1>1. toHost \in [Conn -> Seq(HostMessage)]
    BY DEF TypeOK, HostMessage
  <1>. QED
    BY <1>1, LeftSame DEF HostLeft

LEMMA LastWordLeft == ASSUME TypeOK, NEW reason, LastWord(reason) PROVE HostLeft
  <1>1. "chromeStop" \in Command /\ "chromeStop" \notin Click
    BY DEF Command, Click
  <1>2. chrome.owner \in {0} \cup Conn
    BY DEF TypeOK
  <1>. QED
    BY <1>1, <1>2, PostLeft, RestLeft DEF LastWord

(* The pipes to the panel, likewise.                                        *)
PanelLeft == /\ toPanel' \in [Conn -> Seq(PanelMessage)]
             /\ \A e \in Conn : Left(toPanel'[e], toPanel[e], Offer \cup Said)
LEMMA UnreadLeft == ASSUME TypeOK, UNCHANGED toPanel PROVE PanelLeft
  <1>1. toPanel \in [Conn -> Seq(PanelMessage)]
    BY DEF TypeOK, PanelMessage
  <1>. QED
    BY <1>1, LeftSame DEF PanelLeft

(* A step in which the routers rest and no click or offer is added.         *)
LEMMA QuietPipes ==
  ASSUME TypeOK, \A c \in Conn : PipesAgree(c), UNCHANGED router, HostLeft, PanelLeft
  PROVE  \A c \in Conn : PipesAgree(c)'
  <1> TAKE c \in Conn
  <1>1. DOMAIN toHost'[c] \subseteq Nat /\ DOMAIN toPanel'[c] \subseteq Nat
    <2>1. toHost'[c] \in Seq(HostMessage) /\ toPanel'[c] \in Seq(PanelMessage)
      BY DEF HostLeft, PanelLeft
    <2>. QED
      BY <2>1
  <1>. QED
    BY <1>1, PipesLeft DEF HostLeft, PanelLeft
LEMMA QuietCard ==
  ASSUME TypeOK, CardAgrees, UNCHANGED router, HostLeft, PanelLeft,
         panel'.port = panel.port, panel'.review = panel.review,
         panel'.state = panel.state, panel'.decision = panel.decision
  PROVE  CardAgrees'
  <1>1. panel.port \in {0} \cup Conn
    BY DEF TypeOK
  <1>. QED
    BY <1>1, CardLeft DEF HostLeft, PanelLeft
(* Only a change of the card can make it disagree.                          *)
LEMMA IdleCard ==
  ASSUME panel'.port = 0 \/ (panel'.state \notin {"available", "failed"}
                              /\ (panel'.state = "eligible" => ~panel'.decision))
  PROVE  CardAgrees'
  BY DEF CardAgrees, Clickable

-----------------------------------------------------------------------------
(* Types of the records of the panel's side.                                *)
PanelType ==
  panel \in [port : {0} \cup Conn, gen : 1 .. MaxGen + 1,
             connecting : {0} \cup Conn, state : Shown,
             review : {0} \cup Conn, decision : BOOLEAN, asked : BOOLEAN,
             status : {"connecting", "ready", "closed"}]
ChromeType ==
  chrome \in [owner : {0} \cup Conn,
              adapter : {"none", "open", "completed", "failed", "stopped"},
              finalized : BOOLEAN, revoked : BOOLEAN]

LEMMA PanelStepType ==
  ASSUME TypeOK, PanelType', ChromeType', attempts' \subseteq Conn,
         HostLeft, PanelLeft, UNCHANGED <<up, router, stage, readies, silent>>
  PROVE  TypeOK'
  BY DEF TypeOK, PanelType, ChromeType, HostLeft, PanelLeft, HostMessage, PanelMessage

(* Withdrawing the Chrome authority keeps the types, and leaves nothing     *)
(* that can be decided.                                                     *)
LEMMA WithdrawnType ==
  ASSUME TypeOK
  PROVE  /\ Withdrawn(panel) \in [port : {0} \cup Conn, gen : 1 .. MaxGen + 1,
             connecting : {0} \cup Conn, state : Shown,
             review : {0} \cup Conn, decision : BOOLEAN, asked : BOOLEAN,
             status : {"connecting", "ready", "closed"}]
         /\ Revoked \in [owner : {0} \cup Conn,
              adapter : {"none", "open", "completed", "failed", "stopped"},
              finalized : BOOLEAN, revoked : BOOLEAN]
  <1> DEFINE shown == IF panel.state = "eligible" THEN "stopped" ELSE panel.state
             adapter == IF chrome.revoked \/ chrome.finalized \/ chrome.adapter = "failed"
                        THEN chrome.adapter ELSE "stopped"
             p1 == [panel EXCEPT !.decision = FALSE]
             c1 == [chrome EXCEPT !.revoked = TRUE]
  <1>1. shown \in Shown /\ adapter \in {"none", "open", "completed", "failed", "stopped"}
    BY DEF TypeOK, Shown
  <1>2. Withdrawn(panel) \in {panel, [p1 EXCEPT !.state = shown]}
    BY DEF Withdrawn, TypeOK
  <1>3. Revoked \in {chrome, [c1 EXCEPT !.adapter = adapter]}
    BY DEF Revoked, TypeOK
  <1> HIDE DEF shown, adapter
  <1>4. [p1 EXCEPT !.state = shown] \in [port : {0} \cup Conn, gen : 1 .. MaxGen + 1,
             connecting : {0} \cup Conn, state : Shown,
             review : {0} \cup Conn, decision : BOOLEAN, asked : BOOLEAN,
             status : {"connecting", "ready", "closed"}]
    BY <1>1 DEF TypeOK
  <1>5. [c1 EXCEPT !.adapter = adapter] \in [owner : {0} \cup Conn,
              adapter : {"none", "open", "completed", "failed", "stopped"},
              finalized : BOOLEAN, revoked : BOOLEAN]
    BY <1>1 DEF TypeOK
  <1> HIDE DEF p1, c1
  <1>. QED
    BY <1>2, <1>3, <1>4, <1>5 DEF TypeOK

LEMMA WithdrawnShape ==
  ASSUME TypeOK
  PROVE  /\ Withdrawn(panel).port = panel.port /\ Withdrawn(panel).gen = panel.gen
         /\ Withdrawn(panel).connecting = panel.connecting
         /\ Withdrawn(panel).review = panel.review
         /\ Withdrawn(panel).state = panel.state
            \/ (panel.state = "eligible" /\ Withdrawn(panel).state = "stopped")
         /\ Withdrawn(panel).decision => panel.decision
         /\ Revoked.owner = chrome.owner
         /\ chrome.owner # 0 => /\ Revoked.revoked /\ ~Withdrawn(panel).decision
                                /\ Withdrawn(panel).state # "eligible"
         /\ chrome.owner = 0 => Revoked = chrome /\ Withdrawn(panel) = panel
  BY DEF TypeOK, Withdrawn, Revoked

(* Closing needs a connection to close, whose number is the generation's.   *)
LEMMA ClosedType ==
  ASSUME TypeOK, OneConnection, panel.port # 0 \/ panel.connecting # 0
  PROVE  /\ Closed(panel) \in [port : {0} \cup Conn, gen : 1 .. MaxGen + 1,
             connecting : {0} \cup Conn, state : Shown,
             review : {0} \cup Conn, decision : BOOLEAN, asked : BOOLEAN,
             status : {"connecting", "ready", "closed"}]
         /\ panel.gen \in Conn
  <1>1. panel.gen \in Conn
    BY DEF TypeOK, OneConnection
  <1>2. panel.gen + 1 \in 1 .. MaxGen + 1
    BY <1>1, GenAssumption DEF Conn
  <1>. QED
    BY <1>1, <1>2 DEF TypeOK, Closed, Shown

LEMMA NoChromeType == NoChrome \in [owner : {0} \cup Conn,
              adapter : {"none", "open", "completed", "failed", "stopped"},
              finalized : BOOLEAN, revoked : BOOLEAN]
  BY DEF NoChrome

(* Everything but the panel's own state rests in a step of the panel.       *)
LEMMA PanelStep ==
  ASSUME Inductive, PanelType', ChromeType', attempts' \subseteq Conn,
         HostLeft, PanelLeft, UNCHANGED <<up, router, stage, readies, silent>>,
         PanelAgrees', CardAgrees'
  PROVE  Inductive'
  BY PanelStepType, QuietPipes DEF Inductive

(* The connection is given up: pagehide, or the port's end.                 *)
LEMMA DisconnectsKeeps ==
  ASSUME Inductive, NEW reason, Disconnects(reason), panel.port # 0 \/ panel.connecting # 0,
         UNCHANGED <<attempts, toPanel, up, router, stage, readies, silent>>
  PROVE  Inductive'
  <1>0. TypeOK /\ OneConnection
    BY DEF Inductive, PanelAgrees
  <1>1. HostLeft /\ PanelLeft
    BY <1>0, LastWordLeft, UnreadLeft DEF Disconnects
  <1>2. PanelType' /\ ChromeType' /\ attempts' \subseteq Conn
    BY <1>0, ClosedType, NoChromeType, ZenonT(40) DEF Disconnects, PanelType, ChromeType, TypeOK
  <1>3. /\ panel'.port = 0 /\ panel'.gen = panel.gen + 1 /\ panel'.connecting = 0
        /\ panel'.state = "idle" /\ panel'.review = 0 /\ ~panel'.decision
    BY <1>0 DEF Disconnects, Closed, TypeOK
  <1>4. panel.gen \in Nat /\ \A a \in attempts : a \in Nat
    BY <1>0 DEF TypeOK, Conn
  <1>5. OneConnection'
    BY <1>0, <1>3, <1>4 DEF OneConnection, Disconnects, NoChrome
  <1>6. PanelAgrees' /\ CardAgrees'
    BY <1>3, <1>5, IdleCard DEF PanelAgrees, OnlyThisConnection, StopWithdraws, Disconnects, NoChrome
  <1>. QED
    BY <1>1, <1>2, <1>6, PanelStep

LEMMA PageHidesKeeps == ASSUME Inductive, PageHides PROVE Inductive'
  BY DisconnectsKeeps DEF PageHides, hosts
LEMMA PortDisconnectsKeeps == ASSUME Inductive, PortDisconnects PROVE Inductive'
  BY DisconnectsKeeps DEF PortDisconnects, hosts

LEMMA ReconnectKeeps == ASSUME Inductive, Reconnect PROVE Inductive'
  <1> DEFINE tearing == panel.port # 0 \/ panel.connecting # 0
             torn    == IF tearing THEN Closed(panel) ELSE [panel EXCEPT !.status = "connecting"]
             g       == torn.gen + 1
  <1>0. TypeOK /\ OneConnection
    BY DEF Inductive, PanelAgrees
  <1>t. torn \in [port : {0} \cup Conn, gen : 1 .. MaxGen + 1,
             connecting : {0} \cup Conn, state : Shown,
             review : {0} \cup Conn, decision : BOOLEAN, asked : BOOLEAN,
             status : {"connecting", "ready", "closed"}]
    BY <1>0, ClosedType DEF TypeOK
  <1>s. /\ torn.port = 0 /\ torn.connecting = 0 /\ torn.state = "idle" /\ torn.review = 0
        /\ ~torn.decision /\ torn.gen \in {panel.gen, panel.gen + 1}
    <2>1. CASE tearing
      BY <2>1, <1>0 DEF Closed, TypeOK
    <2>2. CASE ~tearing
      BY <2>2, <1>0 DEF OneConnection, TypeOK
    <2>. QED
      BY <2>1, <2>2
  <1>r. /\ g \in Conn
        /\ panel' = [torn EXCEPT !.gen = g, !.connecting = g]
        /\ attempts' = attempts \cup {g}
        /\ chrome' = (IF tearing THEN NoChrome ELSE chrome)
        /\ (IF tearing THEN LastWord("panel-closure") ELSE UNCHANGED toHost)
        /\ UNCHANGED <<toPanel, up, router, stage, readies, silent>>
    BY DEF Reconnect, hosts
  <1>o. ~tearing => chrome.owner = 0
    BY <1>0 DEF OneConnection
  <1>g. g \in 1 .. MaxGen + 1 /\ g \in Nat /\ g > panel.gen /\ panel.gen \in Nat
        /\ \A a \in attempts : a \in Nat /\ a < g
    <2>1. panel.gen \in Nat /\ \A a \in attempts : a \in Nat /\ a <= panel.gen
      BY <1>0 DEF OneConnection, TypeOK, Conn
    <2>2. g \in Nat /\ g > panel.gen /\ g \in 1 .. MaxGen + 1
      BY <1>r, <1>s, <2>1, GenAssumption DEF Conn
    <2>. HIDE DEF g
    <2>. QED
      BY <2>1, <2>2
  <1> HIDE DEF g, torn, tearing
  <1>1. HostLeft /\ PanelLeft
    BY <1>0, <1>r, LastWordLeft, RestLeft, UnreadLeft
  <1>2. PanelType' /\ ChromeType' /\ attempts' \subseteq Conn
    BY <1>0, <1>r, <1>t, <1>g, NoChromeType DEF PanelType, ChromeType, TypeOK
  <1>3. /\ panel'.port = 0 /\ panel'.gen = g /\ panel'.connecting = g
        /\ panel'.state = "idle" /\ panel'.review = 0 /\ ~panel'.decision
    BY <1>r, <1>s, <1>t
  <1>4. chrome'.owner = 0 /\ (chrome'.revoked => chrome'.owner # 0)
    <2>1. chrome.revoked => chrome.owner # 0
      BY DEF Inductive, PanelAgrees
    <2>. QED
      BY <2>1, <1>r, <1>o DEF NoChrome
  <1>5. OneConnection'
    BY <1>r, <1>3, <1>4, <1>g DEF OneConnection
  <1>6. PanelAgrees' /\ CardAgrees'
    BY <1>3, <1>4, <1>5, IdleCard DEF PanelAgrees, OnlyThisConnection, StopWithdraws
  <1>. QED
    BY <1>1, <1>2, <1>6, <1>r, PanelStep

LEMMA ConnectFailsKeeps == ASSUME Inductive, NEW a \in Conn, ConnectFails(a) PROVE Inductive'
  <1>0. TypeOK /\ OneConnection
    BY DEF Inductive, PanelAgrees
  <1>1. HostLeft /\ PanelLeft
    BY <1>0, RestLeft, UnreadLeft DEF ConnectFails
  <1>2. PanelType' /\ ChromeType' /\ attempts' \subseteq Conn
    BY <1>0 DEF ConnectFails, PanelType, ChromeType, TypeOK
  <1>3. /\ panel'.port = panel.port /\ panel'.gen = panel.gen /\ panel'.review = panel.review
        /\ panel'.connecting = (IF panel.connecting = a THEN 0 ELSE panel.connecting)
        /\ panel'.state = panel.state /\ panel'.decision = panel.decision
    BY <1>0 DEF ConnectFails, TypeOK
  <1>4. OneConnection'
    <2>1. panel'.gen \in attempts' => panel'.gen \in attempts /\ panel'.gen # a
      BY DEF ConnectFails
    <2>. QED
      BY <1>0, <1>3, <2>1 DEF OneConnection, ConnectFails
  <1>5. PanelAgrees'
    BY <1>3, <1>4 DEF Inductive, PanelAgrees, OnlyThisConnection, StopWithdraws, ConnectFails
  <1>6. CardAgrees'
    BY <1>0, <1>1, <1>3, QuietCard DEF Inductive, ConnectFails, hosts
  <1>. QED
    BY <1>1, <1>2, <1>5, <1>6, PanelStep DEF ConnectFails, hosts

(* connect resumes: a port of its own if its generation is still current.   *)
LEMMA ConnectDoneKeeps == ASSUME Inductive, NEW a \in Conn, ConnectDone(a) PROVE Inductive'
  <1>0. TypeOK /\ OneConnection
    BY DEF Inductive, PanelAgrees
  <1>1. attempts' = attempts \ {a} /\ a \in attempts /\ PanelLeft
        /\ UNCHANGED <<chrome, toPanel, router, stage, readies, silent>>
    BY <1>0, UnreadLeft DEF ConnectDone
  <1>2. CASE a = panel.gen
    <2>1. panel' = [panel EXCEPT !.port = a, !.connecting = 0, !.asked = TRUE]
          /\ up' = [up EXCEPT ![a] = TRUE]
          /\ toHost' = [toHost EXCEPT ![a] = <<[kind |-> "status", rev |-> 0]>>]
      BY <1>2 DEF ConnectDone
    <2>2. panel.port = 0 /\ panel.state = "idle" /\ panel.review = 0 /\ ~panel.decision
          /\ chrome.owner = 0
      BY <1>0, <1>1, <1>2 DEF OneConnection, TypeOK, Conn
    <2>3. /\ panel'.port = a /\ panel'.gen = panel.gen /\ panel'.review = 0
          /\ panel'.connecting = 0 /\ panel'.state = "idle" /\ ~panel'.decision
      BY <1>0, <2>1, <2>2 DEF TypeOK
    <2>4. HostLeft
      <3>1. [kind |-> "status", rev |-> 0] \in HostMessage
        BY DEF HostMessage, Command
      <3>2. toHost \in [Conn -> Seq(HostMessage)]
        BY <1>0 DEF TypeOK, HostMessage
      <3>3. toHost' \in [Conn -> Seq(HostMessage)]
        BY <2>1, <3>1, <3>2
      <3>4. ASSUME NEW e \in Conn PROVE Left(toHost'[e], toHost[e], Click)
        <4>1. CASE e = a
          <5>1. toHost'[e] = <<[kind |-> "status", rev |-> 0]>>
            BY <2>1, <3>2, <4>1
          <5>. QED
            BY <5>1, LeftNone DEF Click
        <4>2. CASE e # a
          BY <2>1, <3>2, <4>2, LeftSame
        <4>. QED
          BY <4>1, <4>2
      <3>. QED
        BY <3>3, <3>4 DEF HostLeft
    <2>5. TypeOK'
      <3>1. PanelType'
        BY <1>0, <2>1 DEF TypeOK, PanelType
      <3>2. up' \in [Conn -> BOOLEAN]
        BY <1>0, <2>1 DEF TypeOK
      <3>. QED
        BY <1>0, <1>1, <2>4, <3>1, <3>2 DEF TypeOK, PanelType, HostLeft, HostMessage
    <2>6. PanelAgrees' /\ CardAgrees'
      <3>1. OneConnection'
        BY <1>0, <1>1, <1>2, <2>2, <2>3 DEF OneConnection, TypeOK, Conn
      <3>. QED
        BY <1>1, <2>2, <2>3, <3>1, IdleCard
           DEF Inductive, PanelAgrees, OnlyThisConnection, StopWithdraws
    <2>7. \A c \in Conn : PipesAgree(c)'
      BY <1>1, <2>4, QuietPipes DEF Inductive
    <2>. QED
      BY <2>5, <2>6, <2>7 DEF Inductive
  <1>3. CASE a # panel.gen
    <2>1. UNCHANGED <<panel, up, toHost>>
      BY <1>3 DEF ConnectDone
    <2>2. OneConnection'
      BY <1>0, <1>1, <2>1 DEF OneConnection
    <2>3. PanelAgrees' /\ HostLeft
      BY <1>0, <1>1, <2>1, <2>2, RestLeft DEF Inductive, PanelAgrees, OnlyThisConnection, StopWithdraws
    <2>4. CardAgrees'
      BY <1>0, <1>1, <2>1, <2>3, QuietCard DEF Inductive
    <2>5. PanelType' /\ ChromeType' /\ attempts' \subseteq Conn
      BY <1>0, <1>1, <2>1 DEF PanelType, ChromeType, TypeOK
    <2>. QED
      BY <1>1, <2>1, <2>3, <2>4, <2>5, PanelStep
  <1>. QED
    BY <1>2, <1>3

-----------------------------------------------------------------------------
(* A withdrawal, told to the host or not: a click that was not let through, *)
(* the emergency stop, a session that began anew.  Only status may change   *)
(* besides.                                                                 *)
LEMMA WithdrawalKeeps ==
  ASSUME Inductive, HostLeft, PanelLeft, PanelType',
         chrome' = Revoked, UNCHANGED <<attempts, up, router, stage, readies, silent>>,
         panel'.port = panel.port, panel'.gen = panel.gen, panel'.connecting = panel.connecting,
         panel'.review = panel.review, panel'.state = Withdrawn(panel).state,
         panel'.decision = Withdrawn(panel).decision
  PROVE  Inductive'
  <1>0. TypeOK /\ OneConnection /\ CardAgrees
    BY DEF Inductive, PanelAgrees
  <1> DEFINE w == Withdrawn(panel)
             r == Revoked
  <1>1. /\ w.state = panel.state \/ (panel.state = "eligible" /\ w.state = "stopped")
        /\ w.decision => panel.decision
        /\ r.owner = chrome.owner
        /\ chrome.owner # 0 => r.revoked /\ ~w.decision /\ w.state # "eligible"
        /\ chrome.owner = 0 => r = chrome /\ w = panel
    BY <1>0, WithdrawnShape
  <1>2. ChromeType' /\ attempts' \subseteq Conn
    BY <1>0, WithdrawnType DEF ChromeType, TypeOK
  <1>3. panel'.state = w.state /\ panel'.decision = w.decision /\ chrome' = r
    OBVIOUS
  <1> HIDE DEF w, r
  <1>4. OneConnection'
    BY <1>0, <1>1, <1>3 DEF OneConnection
  <1>5. PanelAgrees'
    BY <1>1, <1>3, <1>4 DEF Inductive, PanelAgrees, OnlyThisConnection, StopWithdraws
  <1>6. CardAgrees'
    <2>1. CASE chrome.owner = 0
      BY <1>0, <1>1, <1>3, <2>1, QuietCard
    <2>2. CASE chrome.owner # 0 /\ panel.state # "eligible"
      <3>1. panel'.state = panel.state
        BY <2>2, <1>1, <1>3
      <3>2. CASE panel.state \in {"available", "failed"}
        <4>1. panel.port # 0 => Left(toHost'[panel.port], toHost[panel.port], Click)
                  /\ Left(toPanel'[panel.port], toPanel[panel.port], Offer \cup Said)
          BY <1>0 DEF TypeOK, HostLeft, PanelLeft
        <4>2. NoClick(panel.port) /\ panel.port # 0 => NoClick(panel.port)'
          BY <4>1 DEF NoClick, Left
        <4>3. NoOffer(panel.port) /\ panel.port # 0 => NoOffer(panel.port)'
          BY <4>1 DEF NoOffer, Left
        <4>. QED
          BY <1>0, <3>1, <3>2, <4>2, <4>3 DEF CardAgrees, Clickable, Open
      <3>3. CASE panel.state \notin {"available", "failed"}
        BY <2>2, <3>1, <3>3, IdleCard
      <3>. QED
        BY <3>2, <3>3
    <2>3. CASE chrome.owner # 0 /\ panel.state = "eligible"
      BY <2>3, <1>1, <1>3, IdleCard
    <2>. QED
      BY <2>1, <2>2, <2>3
  <1>. QED
    BY <1>2, <1>5, <1>6, PanelStep

(* A click that goes through: the card is no longer clickable, the pipe     *)
(* holds the only click.                                                    *)
LEMMA ClickPipes ==
  ASSUME Inductive, Clickable, panel.port # 0, NEW kind \in Click,
         kind \in Command, panel.state = "available" => kind = "start",
         panel.state = "eligible" => kind \in {"accept", "reject"},
         Post(panel.port, kind, panel.review), UNCHANGED <<router, toPanel>>
  PROVE  \A c \in Conn : PipesAgree(c)'
  <1>0. TypeOK /\ CardAgrees /\ panel.port \in Conn
    BY DEF Inductive, TypeOK
  <1>p. PICK p \in Conn : p = panel.port
    BY <1>0
  <1> DEFINE m == [kind |-> kind, rev |-> p]
  <1>1. Open(p, panel.state) /\ NoClick(p) /\ NoOffer(p) /\ panel.review = p
    BY <1>0, <1>p DEF CardAgrees
  <1>2. /\ toHost' \in [Conn -> Seq(HostMessage)]
        /\ \A e \in Conn : \/ toHost'[e] = toHost[e]
                           \/ e = p /\ toHost'[e] = Append(toHost[e], m)
    <2>1. Post(p, kind, p) /\ p \in {0} \cup Conn
      BY <1>p, <1>1
    <2>. QED
      BY <1>0, <2>1, PostShape
  <1>3. m.kind = kind /\ m.rev = p
    OBVIOUS
  <1>4. toHost \in [Conn -> Seq(HostMessage)] /\ m \in HostMessage
    BY <1>0 DEF TypeOK, HostMessage
  <1> HIDE DEF m
  <1> TAKE c \in Conn
  <1>5. PipesAgree(c)
    BY DEF Inductive
  <1>6. CASE toHost'[c] = toHost[c]
    BY <1>5, <1>6 DEF PipesAgree, ClicksAreOpen, OffersAreOpen, FailuresAreTrue, OneClick, OneOffer,
          ClickOrOffer, BusyState, Open, NoClick, NoOffer
  <1>7. CASE c = p /\ toHost'[c] = Append(toHost[c], m)
    <2>1. \A k \in DOMAIN toHost'[p] : toHost'[p][k].kind \in Click => k = Len(toHost[p]) + 1
      BY <1>1, <1>4, <1>7 DEF NoClick
    <2>2. toHost'[p][Len(toHost[p]) + 1] = m
      BY <1>0, <1>4, <1>7
    <2>3. Open(p, kind)'
      BY <1>1 DEF Open, Clickable, Click
    <2>4. ClicksAreOpen(p)' /\ OneClick(p)'
      BY <1>3, <2>1, <2>2, <2>3 DEF ClicksAreOpen, OneClick
    <2>5. NoOffer(p)'
      BY <1>1 DEF NoOffer
    <2>6. OffersAreOpen(p)' /\ OneOffer(p)' /\ ClickOrOffer(p)'
      BY <2>5 DEF OffersAreOpen, OneOffer, NoOffer, ClickOrOffer
    <2>7. FailuresAreTrue(p)' /\ BusyState(p)'
      BY <1>5, <1>7 DEF PipesAgree, FailuresAreTrue, BusyState
    <2>. QED
      BY <1>7, <2>4, <2>6, <2>7 DEF PipesAgree
  <1>. QED
    BY <1>2, <1>6, <1>7

LEMMA StartReviewKeeps == ASSUME Inductive, StartReview PROVE Inductive'
  <1>0. TypeOK /\ PanelAgrees /\ OneConnection /\ CardAgrees
    BY DEF Inductive, PanelAgrees
  <1>1. /\ panel.state = "available" /\ panel' = [panel EXCEPT !.state = "requested"]
        /\ Post(panel.port, "start", panel.review)
        /\ UNCHANGED <<attempts, chrome, toPanel, up, router, stage, readies, silent>>
    BY DEF StartReview, Buttons, hosts
  <1>2. panel.port # 0
    BY <1>0, <1>1 DEF OneConnection
  <1>3. "start" \in Click /\ "start" \in Command
    BY DEF Click, Command
  <1>4. \A c \in Conn : PipesAgree(c)'
    BY <1>1, <1>2, <1>3, ClickPipes DEF Clickable
  <1>5. toHost' \in [Conn -> Seq(HostMessage)]
    BY <1>0, <1>1, <1>3, PostShape DEF TypeOK
  <1>6. panel'.state = "requested" /\ panel'.port = panel.port /\ panel'.review = panel.review
        /\ panel'.gen = panel.gen /\ panel'.connecting = panel.connecting
        /\ panel'.decision = panel.decision
    BY <1>0, <1>1 DEF TypeOK
  <1>7. PanelAgrees' /\ CardAgrees'
    BY <1>0, <1>1, <1>2, <1>6, IdleCard
       DEF PanelAgrees, OneConnection, OnlyThisConnection, StopWithdraws
  <1>8. PanelType'
    BY <1>0, <1>1 DEF TypeOK, PanelType, Shown
  <1>9. TypeOK'
    BY <1>0, <1>1, <1>5, <1>8 DEF TypeOK, PanelType, HostMessage
  <1>. QED
    BY <1>4, <1>7, <1>9 DEF Inductive

LEMMA ChooseKeeps ==
  ASSUME Inductive, NEW action \in {"accept", "reject"}, Choose(action) PROVE Inductive'
  <1>0. TypeOK /\ PanelAgrees /\ OneConnection /\ CardAgrees
    BY DEF Inductive, PanelAgrees
  <1>1. UNCHANGED <<attempts, toPanel, up, router, stage, readies, silent>>
    BY DEF Choose, hosts
  <1>2. CASE Decidable
    <2> DEFINE next == IF action = "accept" THEN "accepting" ELSE "rejected"
               p1   == [panel EXCEPT !.decision = FALSE]
    <2>1. /\ panel' = [p1 EXCEPT !.state = next]
          /\ Post(panel.port, action, panel.review) /\ UNCHANGED chrome
      BY <1>2 DEF Choose
    <2>2. panel.state = "eligible" /\ panel.decision /\ panel.port # 0
      BY <1>0, <1>2 DEF Decidable, OneConnection
    <2>3. action \in Click /\ action \in Command
      BY DEF Click, Command
    <2>4. \A c \in Conn : PipesAgree(c)'
      BY <1>1, <2>1, <2>2, <2>3, ClickPipes DEF Clickable
    <2>5. toHost' \in [Conn -> Seq(HostMessage)]
      BY <1>0, <2>1, <2>3, PostShape DEF TypeOK
    <2>n. next \in {"accepting", "rejected"} /\ next \in Shown
      BY DEF Shown
    <2> HIDE DEF next
    <2>6. panel'.state = next /\ panel'.port = panel.port /\ panel'.review = panel.review
          /\ panel'.gen = panel.gen /\ panel'.connecting = panel.connecting
          /\ ~panel'.decision
      BY <1>0, <2>1 DEF TypeOK
    <2>7. PanelAgrees' /\ CardAgrees'
      BY <1>0, <1>1, <2>1, <2>2, <2>6, <2>n, IdleCard
         DEF PanelAgrees, OneConnection, OnlyThisConnection, StopWithdraws
    <2>8. PanelType'
      BY <1>0, <2>1, <2>n DEF TypeOK, PanelType
    <2>9. TypeOK'
      BY <1>0, <1>1, <2>1, <2>5, <2>8 DEF TypeOK, PanelType, HostMessage
    <2>. QED
      BY <2>4, <2>7, <2>9 DEF Inductive
  <1>3. CASE ~Decidable
    <2>1. panel' = Withdrawn(panel) /\ chrome' = Revoked /\ LastWord("provenance-drift")
      BY <1>3 DEF Choose
    <2>2. HostLeft /\ PanelLeft /\ PanelType'
      BY <1>0, <1>1, <2>1, LastWordLeft, UnreadLeft, WithdrawnType DEF PanelType
    <2>3. /\ panel'.port = panel.port /\ panel'.gen = panel.gen
          /\ panel'.connecting = panel.connecting /\ panel'.review = panel.review
      BY <1>0, <2>1, WithdrawnShape
    <2>. QED
      BY <1>1, <2>1, <2>2, <2>3, WithdrawalKeeps
  <1>. QED
    BY <1>2, <1>3

LEMMA StopKeeps == ASSUME Inductive, Stop PROVE Inductive'
  <1>0. TypeOK
    BY DEF Inductive
  <1>1. /\ panel' = Withdrawn(panel) /\ chrome' = Revoked /\ LastWord("cancellation")
        /\ UNCHANGED <<attempts, toPanel, up, router, stage, readies, silent>>
    BY DEF Stop, hosts
  <1>2. HostLeft /\ PanelLeft /\ PanelType'
    BY <1>0, <1>1, LastWordLeft, UnreadLeft, WithdrawnType DEF PanelType
  <1>3. /\ panel'.port = panel.port /\ panel'.gen = panel.gen
        /\ panel'.connecting = panel.connecting /\ panel'.review = panel.review
    BY <1>0, <1>1, WithdrawnShape
  <1>. QED
    BY <1>1, <1>2, <1>3, WithdrawalKeeps

(* The card, when its port, review and clickability are as they were.       *)
LEMMA SameCard ==
  ASSUME Inductive, HostLeft, PanelLeft, PanelType', ChromeType',
         UNCHANGED <<panel, attempts, up, router, stage, readies, silent>>,
         chrome'.owner = chrome.owner, chrome'.revoked = chrome.revoked
  PROVE  Inductive'
  <1>1. PanelAgrees'
    BY DEF Inductive, PanelAgrees, OneConnection, OnlyThisConnection, StopWithdraws
  <1>2. CardAgrees'
    BY QuietCard DEF Inductive
  <1>3. attempts' \subseteq Conn
    BY DEF Inductive, TypeOK
  <1>. QED
    BY <1>1, <1>2, <1>3, PanelStep

LEMMA OpenReviewKeeps == ASSUME Inductive, OpenReview PROVE Inductive'
  <1>0. TypeOK
    BY DEF Inductive
  <1>1. /\ Post(panel.port, "navigate", panel.review)
        /\ UNCHANGED <<panel, attempts, chrome, toPanel, up, router, stage, readies, silent>>
    BY DEF OpenReview, hosts
  <1>2. "navigate" \in Command /\ "navigate" \notin Click
    BY DEF Click, Command
  <1>3. panel.port \in {0} \cup Conn /\ panel.review \in {0} \cup Conn
    BY <1>0 DEF TypeOK
  <1>4. HostLeft /\ PanelLeft
    BY <1>0, <1>1, <1>2, <1>3, PostLeft, UnreadLeft
  <1>5. PanelType' /\ ChromeType'
    BY <1>0, <1>1 DEF TypeOK, PanelType, ChromeType
  <1>. QED
    BY <1>1, <1>4, <1>5, SameCard

LEMMA DismissKeeps == ASSUME Inductive, Dismiss PROVE Inductive'
  <1>0. TypeOK /\ OneConnection
    BY DEF Inductive, PanelAgrees
  <1>1. /\ panel' = [panel EXCEPT !.state = "dismissed", !.review = 0, !.decision = FALSE]
        /\ UNCHANGED <<attempts, chrome, toHost, toPanel, up, router, stage, readies, silent>>
        /\ panel.state \in {"failed", "completed"}
    BY DEF Dismiss, Buttons, hosts
  <1>2. HostLeft /\ PanelLeft
    BY <1>0, <1>1, RestLeft, UnreadLeft
  <1>3. /\ panel'.state = "dismissed" /\ ~panel'.decision /\ panel'.review = 0
        /\ panel'.port = panel.port /\ panel'.gen = panel.gen
        /\ panel'.connecting = panel.connecting
    BY <1>0, <1>1 DEF TypeOK
  <1>4. PanelAgrees' /\ CardAgrees'
    BY <1>0, <1>1, <1>3, IdleCard
       DEF Inductive, PanelAgrees, OneConnection, OnlyThisConnection, StopWithdraws
  <1>5. PanelType' /\ ChromeType' /\ attempts' \subseteq Conn
    BY <1>0, <1>1, ZenonT(40) DEF TypeOK, PanelType, ChromeType, Shown
  <1>. QED
    BY <1>1, <1>2, <1>4, <1>5, PanelStep

(* The adapter's answer, failure and expiry.                                *)
LEMMA AdapterKeeps ==
  ASSUME Inductive, AdapterAnswers \/ AdapterFails \/ AdapterExpires
  PROVE  Inductive'
  <1>0. TypeOK
    BY DEF Inductive
  <1>1. PICK word \in {"completed", "failed"} : chrome' = [chrome EXCEPT !.adapter = word]
    BY DEF AdapterAnswers, AdapterFails, AdapterExpires
  <1>2. UNCHANGED <<panel, attempts, toPanel, up, router, stage, readies, silent>>
    BY DEF AdapterAnswers, AdapterFails, AdapterExpires, hosts
  <1>3. HostLeft
    <2>1. chrome.owner \in {0} \cup Conn
      BY <1>0 DEF TypeOK
    <2>2. {"chromeResult", "chromeStop"} \subseteq Command \ Click
      BY DEF Command, Click
    <2>3. CASE AdapterAnswers
      BY <1>0, <2>1, <2>2, <2>3, PostLeft DEF AdapterAnswers
    <2>4. CASE AdapterFails
      BY <1>0, <2>1, <2>2, <2>4, PostLeft DEF AdapterFails
    <2>5. CASE AdapterExpires
      BY <1>0, <2>5, RestLeft DEF AdapterExpires
    <2>. QED
      BY <2>3, <2>4, <2>5
  <1>4. PanelLeft /\ PanelType' /\ ChromeType'
    BY <1>0, <1>1, <1>2, UnreadLeft DEF TypeOK, PanelType, ChromeType
  <1>5. chrome'.owner = chrome.owner /\ chrome'.revoked = chrome.revoked
    BY <1>0, <1>1 DEF TypeOK
  <1>. QED
    BY <1>2, <1>3, <1>4, <1>5, SameCard

-----------------------------------------------------------------------------
(* Reading a message of the host: what is left, and what an offer says.     *)
LEMMA ReadLeft ==
  ASSUME TypeOK, NEW c \in Conn, toPanel[c] # <<>>,
         toPanel' = [toPanel EXCEPT ![c] = Tail(@)]
  PROVE  PanelLeft
  <1>1. toPanel \in [Conn -> Seq(PanelMessage)]
    BY DEF TypeOK, PanelMessage
  <1>2. toPanel[c] \in Seq(PanelMessage) /\ Tail(toPanel[c]) \in Seq(PanelMessage)
    BY <1>1
  <1>3. ASSUME NEW e \in Conn PROVE Left(toPanel'[e], toPanel[e], Offer \cup Said)
    <2>1. CASE e = c
      <3>1. toPanel'[e] = Tail(toPanel[c])
        BY <1>1, <2>1
      <3>. QED
        BY <1>2, <2>1, <3>1, LeftTail
    <2>2. CASE e # c
      <3>1. toPanel'[e] = toPanel[e] /\ DOMAIN toPanel[e] \subseteq Nat
        BY <1>1, <2>2
      <3>. QED
        BY <3>1, LeftSame
    <2>. QED
      BY <2>1, <2>2
  <1>. QED
    BY <1>1, <1>2, <1>3 DEF PanelLeft

LEMMA HeadSays ==
  ASSUME TypeOK, NEW c \in Conn, PipesAgree(c), toPanel[c] # <<>>,
         NEW m, m = Head(toPanel[c]), toPanel' = [toPanel EXCEPT ![c] = Tail(@)]
  PROVE  /\ m \in PanelMessage
         /\ m.kind \in Said => router[c].state = "failed"
         /\ m.kind \in Offer =>
              m.rev = c /\ Open(c, m.kind) /\ NoClick(c) /\ NoOffer(c)'
  <1>1. toPanel \in [Conn -> Seq(PanelMessage)] /\ toPanel[c] \in Seq(PanelMessage)
    BY DEF TypeOK, PanelMessage
  <1>2. 1 \in DOMAIN toPanel[c] /\ m = toPanel[c][1] /\ m \in PanelMessage
    BY <1>1
  <1>3. toPanel'[c] = Tail(toPanel[c])
    BY <1>1
  <1>4. \A k \in DOMAIN toPanel'[c] : k + 1 \in DOMAIN toPanel[c] /\ k + 1 # 1
                                      /\ toPanel'[c][k] = toPanel[c][k + 1]
    BY <1>1, <1>3
  <1>5. m.kind \in Offer => NoOffer(c)'
    BY <1>2, <1>4 DEF PipesAgree, OneOffer, NoOffer
  <1>. QED
    BY <1>2, <1>5
       DEF PipesAgree, OffersAreOpen, FailuresAreTrue, ClickOrOffer, NoOffer, Said

(* An offer the panel takes up makes the card clickable.                    *)
LEMMA OfferTaken ==
  ASSUME Inductive, NEW c \in Conn, panel.port = c, NEW m, m = Head(toPanel[c]),
         toPanel[c] # <<>>, toPanel' = [toPanel EXCEPT ![c] = Tail(@)],
         UNCHANGED <<toHost, router>>,
         m.kind \in Offer, panel'.port = c, panel'.review = c, panel'.state = m.kind
  PROVE  CardAgrees'
  <1>1. m.rev = c /\ Open(c, m.kind) /\ NoClick(c) /\ NoOffer(c)'
    BY HeadSays DEF Inductive
  <1>2. NoClick(c)' /\ Open(c, m.kind)'
    BY <1>1 DEF NoClick, Open
  <1>. QED
    BY <1>1, <1>2 DEF CardAgrees, Offer, Open

LEMMA DeliverOffer ==
  ASSUME Inductive, NEW c \in Conn, panel.port = c, NEW m, m = Head(toPanel[c]),
         toPanel[c] # <<>>, toPanel' = [toPanel EXCEPT ![c] = Tail(@)],
         UNCHANGED <<attempts, toHost, up, router, stage, readies, silent>>,
         \/ /\ m.kind = "available" /\ panel.state = "idle"
            /\ panel' = [panel EXCEPT !.asked = FALSE, !.review = m.rev, !.state = "available"]
            /\ UNCHANGED chrome
         \/ /\ m.kind = "eligible" /\ Same(m) /\ Backed(m)
            /\ panel' = [panel EXCEPT !.state = "eligible", !.decision = TRUE]
            /\ chrome' = Finalized
  PROVE  Inductive'
  <1>0. TypeOK /\ OneConnection /\ PanelAgrees
    BY DEF Inductive, PanelAgrees
  <1>1. HostLeft /\ PanelLeft
    BY <1>0, RestLeft, ReadLeft
  <1>2. m.rev = c /\ c # 0
    <2>1. m.kind \in Offer /\ c # 0
      BY DEF Offer, Conn
    <2>2. PipesAgree(c)
      BY DEF Inductive
    <2>. QED
      BY <1>0, <2>1, <2>2, HeadSays
  <1>3. /\ panel'.port = c /\ panel'.review = c /\ panel'.state = m.kind
        /\ panel'.gen = panel.gen /\ panel'.connecting = panel.connecting
    BY <1>0, <1>2, ZenonT(40) DEF Same, TypeOK
  <1>4. CardAgrees'
    BY <1>3, OfferTaken DEF Offer
  <1>5. ChromeType' /\ chrome'.owner = chrome.owner /\ chrome'.revoked = chrome.revoked
    BY <1>0, ZenonT(40) DEF TypeOK, ChromeType, Finalized
  <1>6. chrome.revoked => m.kind # "eligible"
    BY <1>0 DEF PanelAgrees, Backed, Owns
  <1>7. StopWithdraws'
    <2>1. CASE m.kind = "available"
      <3>1. panel'.decision = panel.decision
        BY <1>0, <2>1 DEF TypeOK
      <3>. QED
        BY <1>0, <1>3, <1>5, <2>1, <3>1 DEF PanelAgrees, StopWithdraws
    <2>2. CASE m.kind = "eligible"
      BY <1>5, <1>6, <2>2 DEF StopWithdraws
    <2>. QED
      BY <2>1, <2>2
  <1>8. PanelAgrees'
    BY <1>0, <1>2, <1>3, <1>5, <1>7 DEF PanelAgrees, OneConnection, OnlyThisConnection
  <1>9. PanelType' /\ attempts' \subseteq Conn
    BY <1>0, <1>2, ZenonT(40) DEF TypeOK, PanelType, Shown
  <1>. QED
    BY <1>1, <1>4, <1>5, <1>8, <1>9, PanelStep

(* The other steps of the card: a failure, or a step that offers nothing.   *)
LEMMA DeliverOther ==
  ASSUME Inductive, NEW c \in Conn, panel.port = c, NEW m, m = Head(toPanel[c]),
         toPanel[c] # <<>>, toPanel' = [toPanel EXCEPT ![c] = Tail(@)],
         UNCHANGED <<attempts, toHost, up, router, stage, readies, silent>>,
         NEW state \in Shown \ {"available", "eligible", "idle"},
         state = "failed" => m.kind \in Said,
         \/ /\ panel' = [panel EXCEPT !.state = state, !.decision = FALSE, !.asked = FALSE]
            /\ chrome' = Finalized
         \/ /\ panel' = [panel EXCEPT !.state = state, !.decision = FALSE]
            /\ UNCHANGED chrome
  PROVE  Inductive'
  <1>0. TypeOK /\ OneConnection /\ PanelAgrees
    BY DEF Inductive, PanelAgrees
  <1>1. HostLeft /\ PanelLeft
    BY <1>0, RestLeft, ReadLeft
  <1>2. m.kind \in Said => router[c].state = "failed"
    BY HeadSays DEF Inductive
  <1>3. /\ panel'.port = c /\ panel'.review = panel.review /\ panel'.state = state
        /\ panel'.gen = panel.gen /\ panel'.connecting = panel.connecting /\ ~panel'.decision
    BY <1>0, ZenonT(40) DEF TypeOK
  <1>4. CardAgrees'
    BY <1>2, <1>3 DEF CardAgrees, Clickable
  <1>5. ChromeType' /\ chrome'.owner = chrome.owner /\ chrome'.revoked = chrome.revoked
    BY <1>0, ZenonT(40) DEF TypeOK, ChromeType, Finalized
  <1>6. PanelAgrees'
    BY <1>0, <1>3, <1>5 DEF PanelAgrees, OneConnection, OnlyThisConnection, StopWithdraws, Conn
  <1>7. PanelType' /\ attempts' \subseteq Conn
    BY <1>0, ZenonT(40) DEF TypeOK, PanelType
  <1>. QED
    BY <1>1, <1>4, <1>5, <1>6, <1>7, PanelStep

LEMMA LifecycleKeeps ==
  ASSUME Inductive, NEW c \in Conn, panel.port = c, NEW m, m = Head(toPanel[c]),
         toPanel[c] # <<>>, toPanel' = [toPanel EXCEPT ![c] = Tail(@)],
         UNCHANGED <<attempts, up, router, stage, readies, silent>>, Lifecycle(m)
  PROVE  Inductive'
  <1>0. TypeOK /\ UNCHANGED toHost /\ HostLeft /\ PanelLeft
    BY RestLeft, ReadLeft DEF Inductive, Lifecycle
  <1>1. CASE m.kind = "available" /\ panel.state = "idle" /\ panel.asked
    BY <1>0, <1>1, DeliverOffer DEF Lifecycle
  <1> DEFINE fails == m.kind = "failed" /\ panel.state \notin {"failed", "completed", "dismissed"}
                      /\ (Same(m) \/ (panel.state = "idle" /\ panel.asked /\ m.rev = 0))
             steps == m.kind \in DOMAIN Steps /\ Same(m) /\ Backed(m)
                      /\ panel.state = Steps[m.kind][1]
  <1>2. CASE fails
    <2>1. panel' = [panel EXCEPT !.state = "failed", !.decision = FALSE, !.asked = FALSE]
          /\ chrome' = Finalized
      BY <1>2 DEF Lifecycle
    <2>2. "failed" \in Shown \ {"available", "eligible", "idle"} /\ m.kind \in Said
      BY <1>2 DEF Shown, Said
    <2>. QED
      BY <1>0, <2>1, <2>2, DeliverOther
  <1>3. CASE steps
    <2>1. /\ panel' = [panel EXCEPT !.state = Steps[m.kind][2], !.decision = m.kind = "eligible"]
          /\ chrome' = (IF m.kind = "eligible" THEN Finalized ELSE chrome)
      BY <1>3 DEF Lifecycle, Steps
    <2>2. CASE m.kind = "eligible"
      <3>1. panel' = [panel EXCEPT !.state = "eligible", !.decision = TRUE] /\ chrome' = Finalized
        <4>1. Steps[m.kind][2] = "eligible" /\ (m.kind = "eligible") = TRUE
          BY <2>2 DEF Steps
        <4>. QED
          BY <2>1, <4>1
      <3>. QED
        BY <1>0, <1>3, <2>2, <3>1, DeliverOffer
    <2>3. CASE m.kind # "eligible"
      <3>1. PICK state \in Shown \ {"available", "eligible", "idle"} :
              /\ panel' = [panel EXCEPT !.state = state, !.decision = FALSE] /\ UNCHANGED chrome
              /\ state = "failed" => m.kind \in Said
        <4>1. m.kind \in {"started", "activating", "completed", "rolledBack"}
          BY <1>3, <2>3 DEF Steps
        <4>2. (m.kind = "eligible") = FALSE
          BY <2>3
        <4>3. /\ Steps[m.kind][2] \in Shown \ {"available", "eligible", "idle"}
              /\ Steps[m.kind][2] = "failed" => m.kind \in Said
          BY <4>1 DEF Steps, Shown, Said
        <4>. QED
          BY <2>1, <2>3, <4>2, <4>3
      <3>. QED
        BY <1>0, <3>1, DeliverOther
    <2>. QED
      BY <2>2, <2>3
  <1>4. CASE UNCHANGED <<panel, chrome>>
    <2>1. PanelType' /\ ChromeType'
      BY <1>0, <1>4 DEF TypeOK, PanelType, ChromeType
    <2>. QED
      BY <1>0, <1>4, <2>1, SameCard
  <1>. QED
    BY <1>1, <1>2, <1>3, <1>4 DEF Lifecycle

LEMMA DeliverKeeps == ASSUME Inductive, NEW c \in Conn, Deliver(c) PROVE Inductive'
  <1>0. TypeOK /\ OneConnection /\ PanelAgrees
    BY DEF Inductive, PanelAgrees
  <1>p. PICK m : m = Head(toPanel[c])
    OBVIOUS
  <1>1. /\ toPanel[c] # <<>> /\ toPanel' = [toPanel EXCEPT ![c] = Tail(@)]
        /\ UNCHANGED <<attempts, up, router, stage, readies, silent>>
        /\ IF panel.port # c THEN UNCHANGED <<panel, chrome, toHost>>
           ELSE IF m.kind = "ready" THEN SessionReady
           ELSE IF m.kind = "chromeReady" THEN ChromeReady(m) ELSE Lifecycle(m)
    BY <1>p DEF Deliver, hosts
  <1>2. PanelLeft
    BY <1>0, <1>1, ReadLeft
  <1>3. CASE panel.port # c
    <2>1. HostLeft /\ PanelType' /\ ChromeType'
      BY <1>0, <1>1, <1>3, RestLeft DEF TypeOK, PanelType, ChromeType
    <2>. QED
      BY <1>1, <1>2, <1>3, <2>1, SameCard
  <1>4. CASE panel.port = c /\ m.kind = "ready"
    <2>1. /\ panel' = [Withdrawn(panel) EXCEPT !.status = "ready"] /\ chrome' = Revoked
          /\ LastWord("provenance-drift")
      BY <1>1, <1>4 DEF SessionReady
    <2>2. HostLeft /\ PanelType'
      BY <1>0, <2>1, LastWordLeft, WithdrawnType DEF PanelType
    <2> DEFINE w == Withdrawn(panel)
    <2>3. w.port = panel.port /\ w.gen = panel.gen
          /\ w.connecting = panel.connecting /\ w.review = panel.review
      BY <1>0, WithdrawnShape
    <2>4. w \in [port : {0} \cup Conn, gen : 1 .. MaxGen + 1,
             connecting : {0} \cup Conn, state : Shown,
             review : {0} \cup Conn, decision : BOOLEAN, asked : BOOLEAN,
             status : {"connecting", "ready", "closed"}]
      BY <1>0, WithdrawnType
    <2>5. panel' = [w EXCEPT !.status = "ready"]
      BY <2>1
    <2>6. /\ panel'.port = w.port /\ panel'.gen = w.gen /\ panel'.connecting = w.connecting
          /\ panel'.review = w.review /\ panel'.state = w.state /\ panel'.decision = w.decision
      <3> HIDE DEF w
      <3>. QED
        BY <2>4, <2>5
    <2>. QED
      BY <1>1, <1>2, <2>1, <2>2, <2>3, <2>6, WithdrawalKeeps
  <1>5. CASE panel.port = c /\ m.kind = "chromeReady"
    <2>1. UNCHANGED <<panel, toHost>> /\ HostLeft
      BY <1>0, <1>1, <1>5, RestLeft DEF ChromeReady
    <2>2. chrome' \in {chrome, [NoChrome EXCEPT !.owner = panel.port, !.adapter = "open"]}
      BY <1>1, <1>5 DEF ChromeReady
    <2>3. CASE chrome' = chrome
      BY <1>0, <1>1, <1>2, <2>1, <2>3, SameCard DEF TypeOK, PanelType, ChromeType
    <2>4. CASE chrome' = [NoChrome EXCEPT !.owner = panel.port, !.adapter = "open"]
      <3>1. chrome'.owner = panel.port /\ ~chrome'.revoked
        BY <2>4 DEF NoChrome
      <3>2. PanelType' /\ ChromeType' /\ attempts' \subseteq Conn
        BY <1>0, <1>1, <1>5, <2>1, <2>4 DEF TypeOK, PanelType, ChromeType, NoChrome
      <3>3. PanelAgrees'
        BY <1>0, <1>1, <1>5, <2>1, <3>1
           DEF PanelAgrees, OneConnection, OnlyThisConnection, StopWithdraws, Conn
      <3>4. CardAgrees'
        BY <1>0, <1>1, <1>2, <2>1, QuietCard DEF Inductive
      <3>. QED
        BY <1>1, <1>2, <2>1, <3>2, <3>3, <3>4, PanelStep
    <2>. QED
      BY <2>2, <2>3, <2>4
  <1>6. CASE panel.port = c /\ m.kind \notin {"ready", "chromeReady"}
    BY <1>p, <1>1, <1>6, LifecycleKeeps
  <1>. QED
    BY <1>3, <1>4, <1>5, <1>6

-----------------------------------------------------------------------------
(* The host's side.  The panel rests; one router moves.                     *)
RouterRecord ==
  [state : RouterState, bound : BOOLEAN, grant : BOOLEAN, rejection : BOOLEAN,
   busy : {"no", "status", "start", "accept", "reject", "navigate"}]
RouterType(r) == r \in RouterRecord
StageType == stage \in [Conn -> {"none", "asked", "result", "stopped", "done"}]

LEMMA HostStepType ==
  ASSUME TypeOK, UNCHANGED <<panel, attempts, chrome, up>>,
         router' \in [Conn -> RouterRecord], StageType',
         readies' \in [Conn -> 0 .. 2], silent' \in [Conn -> BOOLEAN],
         toHost' \in [Conn -> Seq(HostMessage)], toPanel' \in [Conn -> Seq(PanelMessage)]
  PROVE  TypeOK'
  <1>1. panel' = panel /\ attempts' = attempts /\ chrome' = chrome /\ up' = up
    OBVIOUS
  <1>2. PanelType' /\ ChromeType' /\ attempts' \subseteq Conn /\ up' \in [Conn -> BOOLEAN]
    BY <1>1 DEF TypeOK, PanelType, ChromeType
  <1>. QED
    BY <1>2 DEF TypeOK, PanelType, ChromeType, RouterRecord, StageType, HostMessage, PanelMessage

LEMMA PanelRests ==
  ASSUME Inductive, UNCHANGED <<panel, attempts, chrome>>, TypeOK', CardAgrees',
         \A c \in Conn : PipesAgree(c)'
  PROVE  Inductive'
  BY DEF Inductive, PanelAgrees, OneConnection, OnlyThisConnection, StopWithdraws

(* Of the other connections nothing changes.                                *)
LEMMA OtherPipes ==
  ASSUME Inductive, NEW c \in Conn, NEW e \in Conn, e # c, router'[e] = router[e],
         toHost'[e] = toHost[e], toPanel'[e] = toPanel[e]
  PROVE  PipesAgree(e)' /\ (panel.port = e /\ UNCHANGED panel => CardAgrees')
  <1>1. PipesAgree(e) /\ CardAgrees
    BY DEF Inductive
  <1>2. PipesAgree(e)'
    BY <1>1 DEF PipesAgree, ClicksAreOpen, OffersAreOpen, FailuresAreTrue, OneClick, OneOffer,
          ClickOrOffer, BusyState, Open, NoClick, NoOffer
  <1>3. ASSUME panel.port = e, UNCHANGED panel
        PROVE  CardAgrees'
    <2>1. NoClick(e) => NoClick(e)'
      BY DEF NoClick
    <2>2. NoOffer(e) => NoOffer(e)'
      BY DEF NoOffer
    <2>. QED
      BY <1>1, <1>3, <2>1, <2>2 DEF CardAgrees, Open, Clickable
  <1>. QED
    BY <1>2, <1>3

(* A message the host adds to its pipe.                                     *)
LEMMA EmitShape ==
  ASSUME TypeOK, NEW c \in Conn, NEW kind \in Event, Emit(c, kind)
  PROVE  /\ toPanel' \in [Conn -> Seq(PanelMessage)]
         /\ \A e \in Conn : e # c => toPanel'[e] = toPanel[e]
         /\ \E m \in PanelMessage : /\ m.kind = kind /\ (router'[c].bound => m.rev = c)
                                    /\ toPanel'[c] = Append(toPanel[c], m)
  <1>1. toPanel \in [Conn -> Seq(PanelMessage)]
    BY DEF TypeOK, PanelMessage
  <1>2. PICK m : m = [kind |-> kind, rev |-> IF router'[c].bound THEN c ELSE 0]
    OBVIOUS
  <1>3. m \in PanelMessage /\ m.kind = kind /\ (router'[c].bound => m.rev = c)
    BY <1>2 DEF PanelMessage
  <1>4. toPanel' = [toPanel EXCEPT ![c] = Append(@, m)]
    BY <1>2 DEF Emit
  <1>. QED
    BY <1>1, <1>3, <1>4

(* While a command is under way, or before there is a review, nobody holds  *)
(* the turn.                                                                *)
LEMMA NobodyElse ==
  ASSUME Inductive, NEW c \in Conn,
         router[c].busy # "no" \/ router[c].state \notin {"available", "eligible"}
  PROVE  NoClick(c) /\ NoOffer(c) /\ (panel.port = c => ~Clickable)
  <1>1. PipesAgree(c) /\ CardAgrees /\ c # 0
    BY DEF Inductive, Conn
  <1>2. NoClick(c)
    BY <1>1 DEF PipesAgree, ClicksAreOpen, NoClick, Open, Click
  <1>3. NoOffer(c)
    BY <1>1 DEF PipesAgree, OffersAreOpen, NoOffer, Open, Offer
  <1>. QED
    BY <1>1, <1>2, <1>3 DEF CardAgrees, Open, Clickable

(* A router's step by which the turn passes to it, stays with it or goes to *)
(* the panel with the message it emits.                                     *)
LEMMA RouterMoves ==
  ASSUME Inductive, NEW c \in Conn, TypeOK', UNCHANGED <<panel, attempts, chrome>>,
         \A e \in Conn : e # c => /\ router'[e] = router[e] /\ toHost'[e] = toHost[e]
                                  /\ toPanel'[e] = toPanel[e],
         NoOffer(c), panel.port = c => ~Clickable, NoClick(c)', BusyState(c)',
         router[c].state = "failed" => router'[c].state = "failed",
         \/ toPanel'[c] = toPanel[c]
         \/ \E m \in PanelMessage :
              /\ toPanel'[c] = Append(toPanel[c], m)
              /\ m.kind \in Offer => m.rev = c /\ Open(c, m.kind)'
              /\ m.kind \in Said => router'[c].state = "failed"
  PROVE  Inductive'
  <1>0. TypeOK /\ PipesAgree(c) /\ CardAgrees /\ c # 0 /\ panel.port \in {0} \cup Conn
    <2>1. TypeOK /\ PipesAgree(c) /\ CardAgrees
      BY DEF Inductive
    <2>2. c # 0
      BY DEF Conn
    <2>. QED
      BY <2>1, <2>2 DEF TypeOK
  <1>1. toPanel[c] \in Seq(PanelMessage)
    BY <1>0 DEF TypeOK, PanelMessage
  <1>2. ClicksAreOpen(c)' /\ OneClick(c)' /\ ClickOrOffer(c)'
    BY DEF ClicksAreOpen, OneClick, ClickOrOffer, NoClick
  <1>3. OffersAreOpen(c)' /\ OneOffer(c)' /\ FailuresAreTrue(c)'
    <2>1. CASE toPanel'[c] = toPanel[c]
      BY <1>0, <2>1
         DEF NoOffer, OffersAreOpen, OneOffer, FailuresAreTrue, PipesAgree
    <2>2. CASE toPanel'[c] # toPanel[c]
      <3>1. PICK m \in PanelMessage :
              /\ toPanel'[c] = Append(toPanel[c], m)
              /\ m.kind \in Offer => m.rev = c /\ Open(c, m.kind)'
              /\ m.kind \in Said => router'[c].state = "failed"
        BY <2>2
      <3>2. \A k \in DOMAIN toPanel'[c] :
              \/ k \in DOMAIN toPanel[c] /\ toPanel'[c][k] = toPanel[c][k]
              \/ k = Len(toPanel[c]) + 1 /\ toPanel'[c][k] = m
        BY <1>1, <3>1
      <3>3. OffersAreOpen(c)' /\ OneOffer(c)'
        BY <3>1, <3>2 DEF NoOffer, OffersAreOpen, OneOffer
      <3>4. FailuresAreTrue(c)'
        BY <1>0, <3>1, <3>2 DEF PipesAgree, FailuresAreTrue, Said
      <3>. QED
        BY <3>3, <3>4
    <2>. QED
      BY <2>1, <2>2
  <1>4. PipesAgree(c)'
    BY <1>2, <1>3 DEF PipesAgree
  <1>5. \A e \in Conn : PipesAgree(e)'
    BY <1>4, OtherPipes
  <1>6. CardAgrees'
    <2>1. CASE panel.port = c
      BY <1>0, <2>1 DEF CardAgrees, Clickable
    <2>2. CASE panel.port = 0
      BY <2>2, IdleCard
    <2>3. CASE panel.port \in Conn \ {c}
      <3>1. PICK e \in Conn : e = panel.port /\ e # c
        BY <2>3
      <3>. QED
        BY <3>1, OtherPipes
    <2>. QED
      BY <1>0, <2>1, <2>2, <2>3
  <1>. QED
    BY <1>5, <1>6, PanelRests

(* An answer of the coordinator: the command under way is settled.          *)
LEMMA AnswerMoves ==
  ASSUME Inductive, NEW c \in Conn, UNCHANGED <<panel, attempts, chrome, up, toHost, readies>>,
         router[c].busy # "no",
         NEW r, RouterType(r), router' = [router EXCEPT ![c] = r], r.busy = "no",
         router[c].state = "failed" => r.state = "failed",
         UNCHANGED stage \/ stage' = [stage EXCEPT ![c] = "done"],
         UNCHANGED silent \/ silent' = [silent EXCEPT ![c] = TRUE],
         \/ UNCHANGED toPanel
         \/ \E kind \in Event :
              /\ Emit(c, kind)
              /\ kind = "available" => r.bound /\ r.state = "available"
              /\ kind = "eligible" =>
                   r.bound /\ r.state = "eligible" /\ r.grant /\ r.rejection
              /\ kind \in Said => r.state = "failed"
  PROVE  Inductive'
  <1>0. TypeOK
    BY DEF Inductive
  <1>r. router'[c] = r /\ \A e \in Conn : e # c => router'[e] = router[e]
    BY <1>0 DEF TypeOK
  <1>1. /\ toPanel' \in [Conn -> Seq(PanelMessage)]
        /\ \A e \in Conn : e # c => toPanel'[e] = toPanel[e]
        /\ \/ toPanel'[c] = toPanel[c]
           \/ \E m \in PanelMessage :
                /\ toPanel'[c] = Append(toPanel[c], m)
                /\ m.kind \in Offer => m.rev = c /\ Open(c, m.kind)'
                /\ m.kind \in Said => router'[c].state = "failed"
    <2>1. CASE UNCHANGED toPanel
      BY <1>0, <2>1 DEF TypeOK, PanelMessage
    <2>2. ASSUME NEW kind \in Event, Emit(c, kind),
                 kind = "available" => r.bound /\ r.state = "available",
                 kind = "eligible" => r.bound /\ r.state = "eligible" /\ r.grant /\ r.rejection,
                 kind \in Said => r.state = "failed"
          PROVE  /\ toPanel' \in [Conn -> Seq(PanelMessage)]
                 /\ \A e \in Conn : e # c => toPanel'[e] = toPanel[e]
                 /\ \E m \in PanelMessage :
                      /\ toPanel'[c] = Append(toPanel[c], m)
                      /\ m.kind \in Offer => m.rev = c /\ Open(c, m.kind)'
                      /\ m.kind \in Said => router'[c].state = "failed"
      <3>1. /\ toPanel' \in [Conn -> Seq(PanelMessage)]
            /\ \A e \in Conn : e # c => toPanel'[e] = toPanel[e]
        BY <1>0, <2>2, EmitShape
      <3>2. PICK m \in PanelMessage : /\ m.kind = kind /\ (router'[c].bound => m.rev = c)
                                      /\ toPanel'[c] = Append(toPanel[c], m)
        BY <1>0, <2>2, EmitShape
      <3>3. m.kind \in Offer => m.rev = c /\ Open(c, m.kind)'
        BY <1>r, <2>2, <3>2 DEF Open, Offer
      <3>. QED
        BY <1>r, <2>2, <3>1, <3>2, <3>3
    <2>. QED
      BY <2>1, <2>2
  <1>2. NoClick(c) /\ NoOffer(c) /\ (panel.port = c => ~Clickable)
    BY NobodyElse
  <1>3. NoClick(c)' /\ BusyState(c)'
    BY <1>2, <1>r DEF NoClick, BusyState
  <1>4. toHost' \in [Conn -> Seq(HostMessage)]
    BY <1>0 DEF TypeOK, HostMessage
  <1>5. TypeOK'
    <2>1. StageType' /\ readies' \in [Conn -> 0 .. 2] /\ silent' \in [Conn -> BOOLEAN]
      BY <1>0 DEF TypeOK, StageType
    <2>2. router' \in [Conn -> RouterRecord]
      BY <1>0 DEF TypeOK, RouterType, RouterRecord
    <2>. QED
      BY <1>0, <1>1, <1>4, <2>1, <2>2, HostStepType
  <1>. QED
    BY <1>1, <1>2, <1>3, <1>5, <1>r, RouterMoves

(* fail(), told to the panel or kept.                                       *)
LEMMA FailKeeps ==
  ASSUME Inductive, NEW c \in Conn, UNCHANGED <<panel, attempts, chrome, up, toHost, readies>>,
         router[c].busy # "no", Fail(c)
  PROVE  Inductive'
  <1> DEFINE r1 == [router[c] EXCEPT !.state = "failed"]
             r2 == [r1 EXCEPT !.busy = "no"]
             r3 == [r2 EXCEPT !.grant = FALSE]
             r  == [r3 EXCEPT !.rejection = FALSE]
  <1>0. TypeOK /\ RouterType(router[c])
    BY DEF Inductive, TypeOK, RouterType, RouterRecord
  <1>1. RouterType(r) /\ r.busy = "no" /\ r.state = "failed"
    BY <1>0 DEF RouterType, RouterRecord, RouterState
  <1>2. router' = [router EXCEPT ![c] = r]
    BY <1>0 DEF Fail, TypeOK
  <1> HIDE DEF r, r1, r2, r3
  <1>3. "failed" \in Event /\ UNCHANGED stage
    BY DEF Event, Fail
  <1>4. \/ Emit(c, "failed") /\ UNCHANGED silent
        \/ silent' = [silent EXCEPT ![c] = TRUE] /\ UNCHANGED toPanel
    BY DEF Fail
  <1>. QED
    BY <1>1, <1>2, <1>3, <1>4, AnswerMoves

LEMMA StatusReturnsKeeps == ASSUME Inductive, NEW c \in Conn, StatusReturns(c) PROVE Inductive'
  <1>0. TypeOK /\ RouterType(router[c]) /\ PipesAgree(c)
    BY DEF Inductive, TypeOK, RouterType, RouterRecord
  <1>1. router[c].busy = "status" /\ router[c].state = "idle"
        /\ UNCHANGED <<panel, attempts, chrome, up, toHost, readies>>
    BY <1>0 DEF StatusReturns, PipesAgree, BusyState
  <1>2. CASE Answered(c, "idle") /\ UNCHANGED <<stage, silent, toPanel>>
    <2> DEFINE r1 == [router[c] EXCEPT !.state = "idle"]
               r  == [r1 EXCEPT !.busy = "no"]
    <2>1. RouterType(r) /\ r.busy = "no"
      BY <1>0 DEF RouterType, RouterRecord, RouterState
    <2>2. router' = [router EXCEPT ![c] = r]
      BY <1>0, <1>2 DEF Answered, TypeOK
    <2> HIDE DEF r, r1
    <2>. QED
      BY <1>1, <1>2, <2>1, <2>2, AnswerMoves
  <1>3. CASE /\ router' = [router EXCEPT ![c].state = "available", ![c].bound = TRUE,
                                         ![c].busy = "no"]
             /\ Emit(c, "available") /\ UNCHANGED <<stage, silent>>
    <2> DEFINE r1 == [router[c] EXCEPT !.state = "available"]
               r2 == [r1 EXCEPT !.bound = TRUE]
               r  == [r2 EXCEPT !.busy = "no"]
    <2>1. RouterType(r) /\ r.busy = "no" /\ r.state = "available" /\ r.bound
      BY <1>0 DEF RouterType, RouterRecord, RouterState
    <2>2. router' = [router EXCEPT ![c] = r]
      BY <1>0, <1>3 DEF TypeOK
    <2> HIDE DEF r, r1, r2
    <2>3. "available" \in Event /\ "available" \notin Said
      BY DEF Event, Said
    <2>. QED
      BY <1>1, <1>3, <2>1, <2>2, <2>3, AnswerMoves
  <1>4. CASE Fail(c)
    BY <1>1, <1>4, FailKeeps
  <1>. QED
    BY <1>2, <1>3, <1>4 DEF StatusReturns

LEMMA StartReturnsKeeps == ASSUME Inductive, NEW c \in Conn, StartReturns(c) PROVE Inductive'
  <1>0. TypeOK /\ RouterType(router[c]) /\ PipesAgree(c)
    BY DEF Inductive, TypeOK, RouterType, RouterRecord
  <1>1. router[c].busy = "start" /\ router[c].state = "reviewing" /\ router[c].bound
        /\ UNCHANGED <<panel, attempts, chrome, up, toHost, readies>>
    BY <1>0 DEF StartReturns, PipesAgree, BusyState
  <1>2. CASE /\ router' = [router EXCEPT ![c].state = "eligible", ![c].grant = TRUE,
                                         ![c].rejection = TRUE, ![c].busy = "no"]
             /\ stage' = [stage EXCEPT ![c] = "done"] /\ Emit(c, "eligible") /\ UNCHANGED silent
    <2> DEFINE r1 == [router[c] EXCEPT !.state = "eligible"]
               r2 == [r1 EXCEPT !.grant = TRUE]
               r3 == [r2 EXCEPT !.rejection = TRUE]
               r  == [r3 EXCEPT !.busy = "no"]
    <2>1. /\ RouterType(r) /\ r.busy = "no" /\ r.state = "eligible" /\ r.bound
          /\ r.grant /\ r.rejection
      BY <1>0, <1>1 DEF RouterType, RouterRecord, RouterState
    <2>2. router' = [router EXCEPT ![c] = r]
      BY <1>0, <1>2 DEF TypeOK
    <2> HIDE DEF r, r1, r2, r3
    <2>3. "eligible" \in Event /\ "eligible" \notin Said
      BY DEF Event, Said
    <2>. QED
      BY <1>1, <1>2, <2>1, <2>2, <2>3, AnswerMoves
  <1>3. CASE Fail(c)
    BY <1>1, <1>3, FailKeeps
  <1>. QED
    BY <1>2, <1>3 DEF StartReturns

(* An answer that offers nothing.                                           *)
LEMMA AnsweredKeeps ==
  ASSUME Inductive, NEW c \in Conn, UNCHANGED <<panel, attempts, chrome, up, toHost, readies>>,
         router[c].busy # "no", NEW state \in {"completed", "failed", "rejected"},
         router[c].state = "failed" => state = "failed",
         Answered(c, state), UNCHANGED <<stage, silent>>,
         \/ UNCHANGED toPanel
         \/ Emit(c, "completed")
         \/ Emit(c, "rolledBack") /\ state = "failed"
  PROVE  Inductive'
  <1>0. TypeOK /\ RouterType(router[c])
    BY DEF Inductive, TypeOK, RouterType, RouterRecord
  <1> DEFINE r1 == [router[c] EXCEPT !.state = state]
             r  == [r1 EXCEPT !.busy = "no"]
  <1>1. RouterType(r) /\ r.busy = "no" /\ r.state = state
    BY <1>0 DEF RouterType, RouterRecord, RouterState
  <1>2. router' = [router EXCEPT ![c] = r]
    BY <1>0 DEF Answered, TypeOK
  <1> HIDE DEF r, r1
  <1>3. {"completed", "rolledBack"} \subseteq Event /\ "completed" \notin Said
    BY DEF Event, Said
  <1>. QED
    BY <1>1, <1>2, <1>3, AnswerMoves

LEMMA DecisionReturnsKeeps ==
  ASSUME Inductive, NEW c \in Conn, DecisionReturns(c) PROVE Inductive'
  <1>1. /\ router[c].busy \in {"accept", "reject"} /\ router[c].state # "failed"
        /\ UNCHANGED <<panel, attempts, chrome, up, toHost, readies>>
    BY DEF DecisionReturns, Inductive, PipesAgree, BusyState
  <1>2. CASE router[c].busy = "accept" /\ UNCHANGED <<stage, silent>>
             /\ \/ Answered(c, "completed") /\ Emit(c, "completed")
                \/ Answered(c, "failed") /\ Emit(c, "rolledBack")
    BY <1>1, <1>2, AnsweredKeeps
  <1>3. CASE router[c].busy = "reject" /\ Answered(c, "rejected")
             /\ UNCHANGED <<stage, silent, toPanel>>
    BY <1>1, <1>3, AnsweredKeeps
  <1>4. CASE Fail(c)
    BY <1>1, <1>4, FailKeeps
  <1>. QED
    BY <1>2, <1>3, <1>4 DEF DecisionReturns

LEMMA NavigateReturnsKeeps ==
  ASSUME Inductive, NEW c \in Conn, NavigateReturns(c) PROVE Inductive'
  <1>1. /\ router[c].busy = "navigate"
        /\ UNCHANGED <<panel, attempts, chrome, up, toHost, readies>>
    BY DEF NavigateReturns
  <1>2. CASE Answered(c, "failed") /\ UNCHANGED <<stage, silent, toPanel>>
    BY <1>1, <1>2, AnsweredKeeps
  <1>3. CASE Fail(c)
    BY <1>1, <1>3, FailKeeps
  <1>. QED
    BY <1>2, <1>3 DEF NavigateReturns

-----------------------------------------------------------------------------
(* The router reads its pipe.                                               *)
LEMMA TakenLeft ==
  ASSUME TypeOK, NEW c \in Conn, toHost[c] # <<>>, toHost' = [toHost EXCEPT ![c] = Tail(@)]
  PROVE  HostLeft /\ \A e \in Conn : e # c => toHost'[e] = toHost[e]
  <1>1. toHost \in [Conn -> Seq(HostMessage)]
    BY DEF TypeOK, HostMessage
  <1>2. toHost[c] \in Seq(HostMessage) /\ Tail(toHost[c]) \in Seq(HostMessage)
    BY <1>1
  <1>3. ASSUME NEW e \in Conn PROVE Left(toHost'[e], toHost[e], Click)
    <2>1. CASE e = c
      <3>1. toHost'[e] = Tail(toHost[c])
        BY <1>1, <2>1
      <3>. QED
        BY <1>2, <2>1, <3>1, LeftTail
    <2>2. CASE e # c
      <3>1. toHost'[e] = toHost[e] /\ DOMAIN toHost[e] \subseteq Nat
        BY <1>1, <2>2
      <3>. QED
        BY <3>1, LeftSame
    <2>. QED
      BY <2>1, <2>2
  <1>. QED
    BY <1>1, <1>2, <1>3 DEF HostLeft

(* The command at the head has the turn: what it asks for is open, and no   *)
(* click is left behind it.                                                 *)
LEMMA HeadAsks ==
  ASSUME Inductive, NEW c \in Conn, toHost[c] # <<>>, NEW m, m = Head(toHost[c])
  PROVE  /\ m \in HostMessage
         /\ m.kind \in Click => /\ m.rev = c /\ Open(c, m.kind) /\ NoOffer(c)
                                /\ (panel.port = c => ~Clickable)
                                /\ \A k \in DOMAIN Tail(toHost[c]) :
                                     Tail(toHost[c])[k].kind \notin Click
  <1>0. TypeOK /\ PipesAgree(c) /\ CardAgrees /\ c # 0
    BY DEF Inductive, Conn
  <1>1. toHost[c] \in Seq(HostMessage)
    BY <1>0 DEF TypeOK, HostMessage
  <1>2. 1 \in DOMAIN toHost[c] /\ m = toHost[c][1] /\ m \in HostMessage
    BY <1>1
  <1>3. \A k \in DOMAIN Tail(toHost[c]) : k + 1 \in DOMAIN toHost[c] /\ k + 1 # 1
                                          /\ Tail(toHost[c])[k] = toHost[c][k + 1]
    BY <1>1
  <1>4. m.kind \in Click => \A k \in DOMAIN Tail(toHost[c]) :
                              Tail(toHost[c])[k].kind \notin Click
    BY <1>0, <1>2, <1>3 DEF PipesAgree, OneClick
  <1>5. m.kind \in Click => /\ m.rev = c /\ Open(c, m.kind) /\ ~NoClick(c)
    BY <1>0, <1>2 DEF PipesAgree, ClicksAreOpen, NoClick
  <1>6. ~NoClick(c) => NoOffer(c) /\ (panel.port = c => ~Clickable)
    BY <1>0 DEF PipesAgree, ClickOrOffer, CardAgrees
  <1>. QED
    BY <1>2, <1>4, <1>5, <1>6

(* No click is lost.                                                        *)
LEMMA ClickIsTaken ==
  ASSUME Inductive, NEW c \in Conn, toHost[c] # <<>>, Head(toHost[c]).kind \in Click
  PROVE  Takes(c, Head(toHost[c]))
  <1>1. PICK m : m = Head(toHost[c])
    OBVIOUS
  <1>2. m.rev = c /\ Open(c, m.kind) /\ m.kind \in Click
    BY <1>1, HeadAsks
  <1>. QED
    BY <1>1, <1>2 DEF Takes, Open, Click

LEMMA RouterHandlesKeeps ==
  ASSUME Inductive, NEW c \in Conn, RouterHandles(c) PROVE Inductive'
  <1>0. TypeOK /\ RouterType(router[c]) /\ PipesAgree(c)
    BY DEF Inductive, TypeOK, RouterType, RouterRecord
  <1>p. PICK m : m = Head(toHost[c])
    OBVIOUS
  <1>1. /\ toHost[c] # <<>> /\ toHost' = [toHost EXCEPT ![c] = Tail(@)]
        /\ UNCHANGED <<panel, attempts, chrome, up, readies, silent>>
    BY DEF RouterHandles
  <1>2. /\ HostLeft /\ toHost'[c] = Tail(toHost[c])
        /\ \A e \in Conn : e # c => toHost'[e] = toHost[e]
    BY <1>0, <1>1, TakenLeft DEF TypeOK
  <1>3. CASE UNCHANGED <<router, toPanel>>
    <2>1. PanelLeft
      BY <1>0, <1>3, UnreadLeft
    <2>2. \/ UNCHANGED stage
          \/ \E s \in {"asked", "result", "stopped", "done"} : stage' = [stage EXCEPT ![c] = s]
          \/ stage' = [stage EXCEPT ![c] = @]
      BY <1>p, <1>1 DEF RouterHandles
    <2>3. stage' \in [Conn -> {"none", "asked", "result", "stopped", "done"}]
      <3>1. stage \in [Conn -> {"none", "asked", "result", "stopped", "done"}]
        BY <1>0 DEF TypeOK
      <3>. QED
        BY <2>2, <3>1
    <2>4. TypeOK'
      <3>1. StageType' /\ readies' \in [Conn -> 0 .. 2] /\ silent' \in [Conn -> BOOLEAN]
        BY <1>0, <1>1, <2>3 DEF TypeOK, StageType
      <3>2. router' \in [Conn -> RouterRecord]
        BY <1>0, <1>3 DEF TypeOK, RouterRecord
      <3>3. toPanel' \in [Conn -> Seq(PanelMessage)] /\ toHost' \in [Conn -> Seq(HostMessage)]
        BY <1>0, <1>2, <1>3 DEF TypeOK, HostLeft, PanelMessage
      <3>. QED
        BY <1>0, <1>1, <3>1, <3>2, <3>3, HostStepType
    <2>5. \A e \in Conn : PipesAgree(e)'
      BY <1>0, <1>2, <1>3, <2>1, QuietPipes DEF Inductive
    <2>6. CardAgrees'
      BY <1>0, <1>1, <1>2, <1>3, <2>1, QuietCard DEF Inductive
    <2>. QED
      BY <1>1, <2>4, <2>5, <2>6, PanelRests
  <1>4. CASE /\ Takes(c, m) /\ router' = [router EXCEPT ![c] = Begun(c, m)] /\ UNCHANGED stage
             /\ IF m.kind = "start" THEN Emit(c, "started")
                ELSE IF m.kind = "accept" THEN Emit(c, "activating") ELSE UNCHANGED toPanel
    <2>1. m \in HostMessage /\ m.kind \in {"status", "start", "navigate", "accept", "reject"}
      BY <1>p, <1>1, <1>4, HeadAsks DEF Takes
    <2>2. PICK r : r = Begun(c, m)
      OBVIOUS
    <2>3. /\ RouterType(r)
          /\ r.busy = m.kind /\ r.bound = router[c].bound
          /\ m.kind = "status"   => r.state = "idle"
          /\ m.kind = "start"    => r.state = "reviewing" /\ r.bound
          /\ m.kind = "accept"   => r.state = "activating" /\ r.bound
          /\ m.kind = "reject"   => r.state = "rejected" /\ r.bound
          /\ m.kind = "navigate" => r.state = "failed"
      <3>1. CASE m.kind = "start"
        <4> DEFINE r1 == [router[c] EXCEPT !.busy = "start"]
        <4>1. r = [r1 EXCEPT !.state = "reviewing"]
          BY <2>2, <3>1 DEF Begun
        <4>2. router[c].bound
          BY <1>4, <3>1 DEF Takes
        <4>. QED
          BY <1>0, <3>1, <4>1, <4>2 DEF RouterType, RouterRecord, RouterState
      <3>2. CASE m.kind \in {"accept", "reject"}
        <4> DEFINE s  == IF m.kind = "accept" THEN "activating" ELSE "rejected"
                   r1 == [router[c] EXCEPT !.busy = m.kind]
                   r2 == [r1 EXCEPT !.grant = FALSE]
                   r3 == [r2 EXCEPT !.rejection = FALSE]
        <4>1. r = [r3 EXCEPT !.state = s]
          BY <2>2, <3>2 DEF Begun
        <4>2. router[c].bound
          BY <1>4, <3>2 DEF Takes
        <4>3. s \in RouterState /\ (m.kind = "accept" => s = "activating")
              /\ (m.kind = "reject" => s = "rejected")
          BY <3>2 DEF RouterState
        <4> HIDE DEF s
        <4>. QED
          BY <1>0, <3>2, <4>1, <4>2, <4>3 DEF RouterType, RouterRecord
      <3>3. CASE m.kind \in {"status", "navigate"}
        <4>1. r = [router[c] EXCEPT !.busy = m.kind]
          BY <2>2, <3>3 DEF Begun
        <4>2. (m.kind = "status" => router[c].state = "idle")
              /\ (m.kind = "navigate" => router[c].state = "failed")
          BY <1>4, <3>3 DEF Takes
        <4>. QED
          BY <1>0, <3>3, <4>1, <4>2 DEF RouterType, RouterRecord
      <3>. QED
        BY <2>1, <3>1, <3>2, <3>3
    <2>4. router'[c] = r /\ router' = [router EXCEPT ![c] = r]
          /\ \A e \in Conn : e # c => router'[e] = router[e]
      BY <1>0, <1>4, <2>2 DEF TypeOK
    <2>5. NoOffer(c) /\ (panel.port = c => ~Clickable)
          /\ \A k \in DOMAIN Tail(toHost[c]) : Tail(toHost[c])[k].kind \notin Click
      <3>1. CASE m.kind \in Click
        BY <1>p, <1>1, <3>1, HeadAsks
      <3>2. CASE m.kind \notin Click
        <4>1. router[c].state \in {"idle", "failed"}
          BY <1>4, <3>2 DEF Takes, Click
        <4>2. NoClick(c) /\ NoOffer(c) /\ (panel.port = c => ~Clickable)
          BY <4>1, NobodyElse
        <4>3. toHost[c] \in Seq(HostMessage)
          BY <1>0 DEF TypeOK, HostMessage
        <4>4. \A k \in DOMAIN Tail(toHost[c]) : k + 1 \in DOMAIN toHost[c]
                                          /\ Tail(toHost[c])[k] = toHost[c][k + 1]
          BY <1>1, <4>3
        <4>. QED
          BY <4>2, <4>4 DEF NoClick
      <3>. QED
        BY <3>1, <3>2
    <2>6. NoClick(c)' /\ BusyState(c)'
      BY <1>2, <2>1, <2>3, <2>4, <2>5 DEF NoClick, BusyState
    <2>7. router[c].state = "failed" => router'[c].state = "failed"
      <3>1. router[c].state = "failed" => m.kind = "navigate"
        BY <1>4 DEF Takes
      <3>. QED
        BY <2>3, <2>4, <3>1
    <2>8. /\ toPanel' \in [Conn -> Seq(PanelMessage)]
          /\ \A e \in Conn : e # c => toPanel'[e] = toPanel[e]
          /\ \/ toPanel'[c] = toPanel[c]
             \/ \E n \in PanelMessage :
                  toPanel'[c] = Append(toPanel[c], n) /\ n.kind \in {"started", "activating"}
      <3>1. CASE UNCHANGED toPanel
        BY <1>0, <3>1 DEF TypeOK, PanelMessage
      <3>2. CASE Emit(c, "started")
        BY <1>0, <3>2, EmitShape DEF Event
      <3>3. CASE Emit(c, "activating")
        BY <1>0, <3>3, EmitShape DEF Event
      <3>. QED
        BY <1>4, <3>1, <3>2, <3>3
    <2>9. \A n \in PanelMessage : n.kind \in {"started", "activating"} =>
            n.kind \notin Offer /\ n.kind \notin Said
      BY DEF Offer, Said
    <2>10. TypeOK'
      <3>1. StageType' /\ readies' \in [Conn -> 0 .. 2] /\ silent' \in [Conn -> BOOLEAN]
        BY <1>0, <1>1, <1>4 DEF TypeOK, StageType
      <3>2. router' \in [Conn -> RouterRecord]
        BY <1>0, <2>3, <2>4 DEF TypeOK, RouterType, RouterRecord
      <3>3. toPanel' \in [Conn -> Seq(PanelMessage)] /\ toHost' \in [Conn -> Seq(HostMessage)]
        BY <1>2, <2>8 DEF HostLeft
      <3>. QED
        BY <1>0, <1>1, <3>1, <3>2, <3>3, HostStepType
    <2>. QED
      BY <1>1, <1>2, <2>4, <2>5, <2>6, <2>7, <2>8, <2>9, <2>10, RouterMoves
  <1>. QED
    BY <1>p, <1>3, <1>4 DEF RouterHandles

(* The host speaks unasked: the Chrome stage, and the conversation's ready. *)
LEMMA SaysKeeps ==
  ASSUME Inductive, NEW c \in Conn, NEW kind \in Event \ (Offer \cup Said),
         UNCHANGED <<panel, attempts, chrome, up, toHost, router, silent>>,
         StageType', readies' \in [Conn -> 0 .. 2],
         NEW m \in PanelMessage, m.kind = kind,
         toPanel' = [toPanel EXCEPT ![c] = Append(@, m)]
  PROVE  Inductive'
  <1>0. TypeOK
    BY DEF Inductive
  <1>1. toPanel \in [Conn -> Seq(PanelMessage)]
    BY <1>0 DEF TypeOK, PanelMessage
  <1>2. PanelLeft
    <2>1. toPanel' \in [Conn -> Seq(PanelMessage)]
      BY <1>1
    <2>2. ASSUME NEW e \in Conn PROVE Left(toPanel'[e], toPanel[e], Offer \cup Said)
      <3>1. toPanel[e] \in Seq(PanelMessage) /\ DOMAIN toPanel[e] \subseteq Nat
        BY <1>1
      <3>2. toPanel'[e] \in {toPanel[e], Append(toPanel[e], m)}
        BY <1>1
      <3>3. Left(toPanel[e], toPanel[e], Offer \cup Said)
        BY <3>1, LeftSame
      <3>4. Left(Append(toPanel[e], m), toPanel[e], Offer \cup Said)
        BY <3>1, LeftAppend
      <3>. QED
        BY <3>2, <3>3, <3>4
    <2>. QED
      BY <2>1, <2>2 DEF PanelLeft
  <1>3. HostLeft
    BY <1>0, RestLeft
  <1>4. TypeOK'
    <2>1. /\ silent' \in [Conn -> BOOLEAN] /\ router' \in [Conn -> RouterRecord]
          /\ UNCHANGED <<panel, attempts, chrome, up>>
      BY <1>0 DEF TypeOK, RouterRecord
    <2>. QED
      BY <1>0, <1>2, <1>3, <2>1, HostStepType DEF PanelLeft, HostLeft
  <1>5. \A e \in Conn : PipesAgree(e)'
    BY <1>0, <1>2, <1>3, QuietPipes DEF Inductive
  <1>6. CardAgrees'
    BY <1>0, <1>2, <1>3, QuietCard DEF Inductive
  <1>. QED
    BY <1>4, <1>5, <1>6, PanelRests

LEMMA AsksChromeKeeps == ASSUME Inductive, NEW c \in Conn, AsksChrome(c) PROVE Inductive'
  <1>0. TypeOK
    BY DEF Inductive
  <1>1. PICK m : m = [kind |-> "chromeReady", rev |-> IF router'[c].bound THEN c ELSE 0]
    OBVIOUS
  <1>2. m \in PanelMessage /\ m.kind = "chromeReady"
        /\ toPanel' = [toPanel EXCEPT ![c] = Append(@, m)]
    BY <1>1 DEF PanelMessage, Event, AsksChrome, Emit
  <1>3. "chromeReady" \in Event \ (Offer \cup Said)
    BY DEF Event, Offer, Said
  <1>4. StageType' /\ readies' \in [Conn -> 0 .. 2]
    BY <1>0 DEF AsksChrome, TypeOK, StageType
  <1>. QED
    BY <1>2, <1>3, <1>4, SaysKeeps DEF AsksChrome

LEMMA HostReadyKeeps == ASSUME Inductive, NEW c \in Conn, HostReady(c) PROVE Inductive'
  <1>0. TypeOK
    BY DEF Inductive
  <1>1. PICK m : m = [kind |-> "ready", rev |-> 0]
    OBVIOUS
  <1>2. m \in PanelMessage /\ m.kind = "ready"
        /\ toPanel' = [toPanel EXCEPT ![c] = Append(@, m)]
    BY <1>1 DEF PanelMessage, Event, HostReady
  <1>3. "ready" \in Event \ (Offer \cup Said)
    BY DEF Event, Offer, Said
  <1>4. readies' \in [Conn -> 0 .. 2]
    <2>1. readies[c] + 1 \in 0 .. 2
      BY DEF HostReady
    <2>. QED
      BY <1>0, <2>1 DEF HostReady, TypeOK
  <1>5. StageType'
    BY <1>0 DEF HostReady, TypeOK, StageType
  <1>. QED
    BY <1>2, <1>3, <1>4, <1>5, SaysKeeps DEF HostReady

LEMMA HostExitsKeeps == ASSUME Inductive, NEW c \in Conn, HostExits(c) PROVE Inductive'
  <1>0. TypeOK
    BY DEF Inductive
  <1>1. /\ up' = [up EXCEPT ![c] = FALSE] /\ toHost' = [toHost EXCEPT ![c] = <<>>]
        /\ UNCHANGED <<panel, attempts, chrome, toPanel, router, stage, readies, silent>>
    BY DEF HostExits
  <1>2. toHost \in [Conn -> Seq(HostMessage)]
    BY <1>0 DEF TypeOK, HostMessage
  <1>3. HostLeft
    <2>1. toHost' \in [Conn -> Seq(HostMessage)]
      BY <1>1, <1>2
    <2>2. ASSUME NEW e \in Conn PROVE Left(toHost'[e], toHost[e], Click)
      <3>1. toHost[e] \in Seq(HostMessage) /\ DOMAIN toHost[e] \subseteq Nat
        BY <1>2
      <3>2. toHost'[e] \in {toHost[e], <<>>}
        BY <1>1, <1>2
      <3>3. Left(<<>>, toHost[e], Click)
        BY LeftNone
      <3>. QED
        BY <3>1, <3>2, <3>3, LeftSame
    <2>. QED
      BY <2>1, <2>2 DEF HostLeft
  <1>4. PanelLeft
    BY <1>0, <1>1, UnreadLeft
  <1>5. TypeOK'
    <2>1. /\ silent' \in [Conn -> BOOLEAN] /\ router' \in [Conn -> RouterRecord]
          /\ up' \in [Conn -> BOOLEAN] /\ StageType' /\ readies' \in [Conn -> 0 .. 2]
      BY <1>0, <1>1 DEF TypeOK, RouterRecord, StageType
    <2>2. PanelType' /\ ChromeType' /\ attempts' \subseteq Conn
      BY <1>0, <1>1 DEF TypeOK, PanelType, ChromeType
    <2>. QED
      BY <1>3, <1>4, <2>1, <2>2
         DEF TypeOK, PanelType, ChromeType, RouterRecord, StageType, HostLeft, PanelLeft,
             HostMessage, PanelMessage
  <1>6. \A e \in Conn : PipesAgree(e)'
    BY <1>0, <1>1, <1>3, <1>4, QuietPipes DEF Inductive
  <1>7. CardAgrees'
    BY <1>0, <1>1, <1>3, <1>4, QuietCard DEF Inductive
  <1>. QED
    BY <1>1, <1>5, <1>6, <1>7, PanelRests

-----------------------------------------------------------------------------
(* At first nothing is in any pipe.                                         *)
LEMMA InductiveInit == Init => Inductive
  <1> SUFFICES ASSUME Init
               PROVE  Inductive
    OBVIOUS
  <1>1. 1 \in Conn /\ 0 \notin Conn
    BY GenAssumption DEF Conn
  <1>2. PanelType /\ ChromeType /\ attempts \subseteq Conn
    BY <1>1, GenAssumption DEF Init, PanelType, ChromeType, NoChrome, Shown
  <1>3. /\ up \in [Conn -> BOOLEAN] /\ silent \in [Conn -> BOOLEAN] /\ readies \in [Conn -> 0 .. 2]
        /\ StageType /\ router \in [Conn -> RouterRecord]
    BY DEF Init, StageType, RouterRecord, RouterState
  <1>4. toHost \in [Conn -> Seq(HostMessage)] /\ toPanel \in [Conn -> Seq(PanelMessage)]
    BY DEF Init
  <1>5. TypeOK
    BY <1>2, <1>3, <1>4 DEF TypeOK, PanelType, ChromeType, RouterRecord, StageType,
       HostMessage, PanelMessage
  <1>6. PanelAgrees /\ CardAgrees
    BY DEF Init, NoChrome, PanelAgrees, OneConnection, OnlyThisConnection, StopWithdraws, CardAgrees
  <1>7. ASSUME NEW c \in Conn PROVE PipesAgree(c)
    <2>1. toHost[c] = <<>> /\ toPanel[c] = <<>> /\ router[c].busy = "no"
      BY DEF Init
    <2>. QED
      BY <2>1 DEF PipesAgree, ClicksAreOpen, OffersAreOpen, FailuresAreTrue, OneClick, OneOffer,
         ClickOrOffer, BusyState, NoClick
  <1>. QED
    BY <1>5, <1>6, <1>7 DEF Inductive

LEMMA InductiveStep == Inductive /\ [Next]_vars => Inductive'
  <1> SUFFICES ASSUME Inductive, [Next]_vars
               PROVE  Inductive'
    OBVIOUS
  <1>1. CASE Reconnect
    BY <1>1, ReconnectKeeps
  <1>2. CASE PageHides \/ PortDisconnects
    BY <1>2, PageHidesKeeps, PortDisconnectsKeeps
  <1>3. CASE StartReview
    BY <1>3, StartReviewKeeps
  <1>4. CASE Choose("accept") \/ Choose("reject")
    BY <1>4, ChooseKeeps
  <1>5. CASE OpenReview \/ Dismiss \/ Stop
    BY <1>5, OpenReviewKeeps, DismissKeeps, StopKeeps
  <1>6. CASE AdapterAnswers \/ AdapterFails \/ AdapterExpires
    BY <1>6, AdapterKeeps
  <1>7. ASSUME NEW c \in Conn, ConnectDone(c) \/ ConnectFails(c) \/ Deliver(c)
        PROVE  Inductive'
    BY <1>7, ConnectDoneKeeps, ConnectFailsKeeps, DeliverKeeps
  <1>8. ASSUME NEW c \in Conn, HostStep(c) \/ HostReady(c) \/ HostExits(c)
        PROVE  Inductive'
    BY <1>8, RouterHandlesKeeps, StatusReturnsKeeps, AsksChromeKeeps, StartReturnsKeeps,
       DecisionReturnsKeeps, NavigateReturnsKeeps, HostReadyKeeps, HostExitsKeeps DEF HostStep
  <1>9. CASE UNCHANGED vars
    <2>1. UNCHANGED <<panel, attempts, chrome, up, toHost, toPanel, router, stage, readies, silent>>
      BY <1>9 DEF vars
    <2>2. TypeOK
      BY DEF Inductive
    <2>3. HostLeft /\ PanelLeft
      BY <2>1, <2>2, RestLeft, UnreadLeft
    <2>4. PanelType' /\ ChromeType'
      BY <2>1, <2>2 DEF TypeOK, PanelType, ChromeType
    <2>. QED
      BY <2>1, <2>3, <2>4, SameCard
  <1>. QED
    BY <1>1, <1>2, <1>3, <1>4, <1>5, <1>6, <1>7, <1>8, <1>9 DEF Next

-----------------------------------------------------------------------------
(* The agreement of the card, the pipes and the routers always holds.       *)
THEOREM PanelAndRoutersAgree == Spec => []Inductive
  BY InductiveInit, InductiveStep, PTL DEF Spec

(* The session, the adapter, the pipes and the routers are typed.           *)
THEOREM TypeCorrect == Spec => []TypeOK
  <1>1. Inductive => TypeOK
    BY DEF Inductive
  <1>. QED
    BY <1>1, PanelAndRoutersAgree, PTL

(* A start, acceptance or rejection the card let through is taken by the    *)
(* router when it reads it: it is neither busy nor past its grant.          *)
THEOREM ClicksAreTaken == Spec => []NoClickLost
  <1>1. Inductive => NoClickLost
    BY ClickIsTaken DEF NoClickLost, Click
  <1>. QED
    BY <1>1, PanelAndRoutersAgree, PTL

(* The card's review and the Chrome owner are those of the current port.    *)
THEOREM OwnConnection == Spec => []OnlyThisConnection
  <1>1. Inductive => OnlyThisConnection
    BY DEF Inductive, PanelAgrees
  <1>. QED
    BY <1>1, PanelAndRoutersAgree, PTL

(* A revoked Chrome review leaves no decision to click.                     *)
THEOREM StopIsFinal == Spec => []StopWithdraws
  <1>1. Inductive => StopWithdraws
    BY DEF Inductive, PanelAgrees
  <1>. QED
    BY <1>1, PanelAndRoutersAgree, PTL

=============================================================================
