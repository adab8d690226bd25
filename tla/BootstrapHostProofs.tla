------------------------- MODULE BootstrapHostProofs -------------------------
(***************************************************************************)
(* What host_life checks on three children and three frames, for any       *)
(* number of them: the types, that at most one child is alive and owned,   *)
(* and that the child that serves is of an activated version; and that     *)
(* this host gives a candidate up only when its process is gone.  The      *)
(* argument: a start is reached only where the owner has let the previous  *)
(* child go, a task that leaves a candidate pending leaves the lazy start  *)
(* off, and another panel makes nothing this panel's candidate.            *)
(***************************************************************************)
EXTENDS BootstrapHost, TLAPS, FiniteSetTheorems

(* The types of the records, by name.                                       *)
HostType  == [stopped : BOOLEAN, closed : {"no", "recovered", "failed"},
              refreshing : BOOLEAN, lazy : BOOLEAN, asked : BOOLEAN, thread : Thread, gen : Nat, refreshed : {0} \cup Kid,
              proxy : {0} \cup Kid, owned : SUBSET Kid]
RtType    == [pid : {0} \cup Kid, digest : Digest, thread : Thread]
ChildType == [state : {"none", "running", "dead", "ending", "gone"}, digest : Digest,
              gen : Nat, opened : Thread \cup {"no"}]
CurType   == [kind : {"none", "frame", "lease", "close"},
              pc : {"idle", "begin", "resolve", "spawn", "stop", "stopping", "waiting", "complete",
                    "unpin", "recover"},
              doing : {"none", "pending", "candidate", "previous"},
              answer : {"none"} \cup Digest]
StoreType == [active : Digest, trial : {"none", "B", "C"}, activated : SUBSET Digest]
FrameType == [open : BOOLEAN, thread : Thread]
Kinds     == {"frame", "lease", "close"}
Verdicts  == {"none", "activated", "rolled-back", "custody-broken", "halted"}

(* A kind of task waits at most once, and on what it needs.                 *)
Queue ==
  /\ \A i \in DOMAIN tasks :
       /\ tasks[i] = "frame" => frames # <<>> /\ cur.kind # "frame"
       /\ tasks[i] = "lease" => verdict = "none" /\ cur.kind # "lease"
       /\ tasks[i] = "close" => host.stopped
       /\ \A j \in DOMAIN tasks : tasks[i] = tasks[j] /\ tasks[i] \in {"frame", "lease"} => i = j
  /\ cur.kind = "frame" => frames # <<>>
  /\ cur.kind = "lease" => verdict = "none"
  /\ cur.kind = "close" => host.stopped

(* Where a task of each kind can stand.                                     *)
Stage ==
  /\ cur.kind = "frame" => cur.pc \in {"begin", "resolve", "spawn"}
  /\ cur.kind = "close" => cur.pc \in {"stop", "stopping", "recover"}
  /\ cur.kind = "lease" =>
       /\ cur.pc \in {"stop", "stopping"} => cur.doing # "none"
       /\ cur.pc \in {"resolve", "spawn", "waiting"} => cur.doing \in {"pending", "previous"}
       /\ cur.pc # "recover"
       /\ cur.doing = "previous" => store.trial # "B"
  /\ cur.pc = "begin" => cur.doing = "none"
  /\ cur.kind # "lease" => cur.doing = "none"
  /\ cur.pc = "spawn" => cur.answer \in Digest

(* The owned child is the proxy; only it lives, and none is owned where one *)
(* may be started.                                                          *)
Owner ==
  /\ host.owned = IF host.proxy = 0 THEN {} ELSE {host.proxy}
  /\ \A k \in Kid : Alive(k) => k = host.proxy
  /\ host.proxy # 0 => rt.digest = child[host.proxy].digest
  /\ cur.pc \in {"resolve", "spawn", "unpin", "recover"} => host.proxy = 0

(* Which version serves or is about to, and when a lazy start may follow.   *)
Serving ==
  /\ store.active \in store.activated
  /\ cur.kind = "lease" /\ cur.pc \in {"stopping", "unpin"} => ~host.lazy
  /\ cur.kind = "frame" /\ cur.pc \in {"resolve", "spawn"} /\ ~host.stopped => host.lazy
  /\ cur.pc = "spawn" /\ ~host.stopped =>
       /\ cur.kind = "frame" /\ verdict # "halted" => Current(cur.answer)
       /\ cur.kind = "lease" /\ cur.doing = "previous" => Current(cur.answer)
  /\ cur.kind = "lease" /\ cur.pc = "waiting" /\ cur.doing = "previous" /\ host.proxy # 0
       => Current(child[host.proxy].digest)
  /\ ~host.stopped /\ cur.kind # "lease" /\ verdict # "halted" =>
       /\ store.trial = "B" => host.proxy = 0 /\ ~host.lazy
       /\ host.proxy # 0 => Current(child[host.proxy].digest)

Inductive == TypeOK /\ Queue /\ Stage /\ Owner /\ Serving

-----------------------------------------------------------------------------
(* What Append and Tail do to the elements of a queue.                      *)
LEMMA Appended ==
  ASSUME NEW S, NEW s \in Seq(S), NEW e \in S
  PROVE  /\ Append(s, e) \in Seq(S) /\ Append(s, e) # <<>>
         /\ \A i \in DOMAIN Append(s, e) :
              \/ i \in DOMAIN s /\ Append(s, e)[i] = s[i]
              \/ i \notin DOMAIN s /\ i = Len(s) + 1 /\ Append(s, e)[i] = e
  OBVIOUS

LEMMA Taken ==
  ASSUME NEW S, NEW s \in Seq(S), s # <<>>
  PROVE  /\ Tail(s) \in Seq(S) /\ Head(s) \in S
         /\ 1 \in DOMAIN s /\ Head(s) = s[1]
         /\ \A i \in DOMAIN Tail(s) :
              i \in Nat /\ i + 1 \in DOMAIN s /\ i + 1 # 1 /\ Tail(s)[i] = s[i + 1]
  OBVIOUS

(* TypeOK, with its sets named.                                             *)
LEMMA Types ==
  TypeOK <=> /\ host \in HostType /\ rt \in RtType /\ child \in [Kid -> ChildType]
             /\ says \in [Kid -> Seq(Thread)] /\ tasks \in Seq(Kinds) /\ cur \in CurType
             /\ frames \in Seq(FrameType) /\ received \in 0 .. MaxFrame
             /\ store \in StoreType /\ verdict \in Verdicts
  BY DEF TypeOK, HostType, RtType, ChildType, CurType, FrameType, StoreType, Kinds, Verdicts

LEMMA TypesNext ==
  TypeOK' <=> /\ host' \in HostType /\ rt' \in RtType /\ child' \in [Kid -> ChildType]
              /\ says' \in [Kid -> Seq(Thread)] /\ tasks' \in Seq(Kinds) /\ cur' \in CurType
              /\ frames' \in Seq(FrameType) /\ received' \in 0 .. MaxFrame
              /\ store' \in StoreType /\ verdict' \in Verdicts
  BY DEF TypeOK, HostType, RtType, ChildType, CurType, FrameType, StoreType, Kinds, Verdicts

(* The strengthening holds at first.                                        *)
LEMMA InductiveInit == Init => Inductive
  <1> SUFFICES ASSUME Init
               PROVE  Inductive
    OBVIOUS
  <1>1. TypeOK
    <2>1. host \in HostType /\ rt \in RtType
      BY DEF Init, HostType, RtType, NoRt, Thread, Digest
    <2>2. child \in [Kid -> ChildType] /\ cur \in CurType
      BY DEF Init, ChildType, CurType, Idle, Digest
    <2>3. says \in [Kid -> Seq(Thread)] /\ tasks \in Seq(Kinds) /\ frames \in Seq(FrameType)
      BY DEF Init
    <2>4. received \in 0 .. MaxFrame /\ store \in StoreType /\ verdict \in Verdicts
      BY HostAssumption DEF Init, Verdicts, StoreType, Digest
    <2>. QED
      BY <2>1, <2>2, <2>3, <2>4, Types
  <1>2. Queue /\ Stage
    BY DEF Init, Queue, Stage, Idle
  <1>3. Owner /\ Serving
    BY DEF Init, Owner, Serving, Idle, Alive
  <1>. QED
    BY <1>1, <1>2, <1>3 DEF Inductive

(* A refresh that waits is an activation's: of the candidate or of the      *)
(* previous version.                                                        *)
LEMMA Waiting ==
  ASSUME TypeOK, Stage, At("waiting")
  PROVE  cur.kind = "lease" /\ cur.pc = "waiting" /\ cur.doing \in {"pending", "previous"}
  BY DEF TypeOK, Stage, At

(* The end is latched by the panel, by a session that is not the host's and *)
(* by an exit nobody asked for; whatever else that step does, it starts     *)
(* nothing and pins nothing.                                                *)
LEMMA CloseKeeps ==
  ASSUME Inductive, Close, UNCHANGED <<rt, frames, store>>,
         child' \in [Kid -> ChildType],
         \A k \in Kid : (Alive(k)' => Alive(k)) /\ child'[k].digest = child[k].digest,
         says' \in [Kid -> Seq(Thread)], received' \in 0 .. MaxFrame
  PROVE  Inductive'
  <1> USE DEF Inductive, Current
  <1>1. CASE host.stopped
    <2>1. UNCHANGED <<host, tasks, cur, verdict>>
      BY <1>1 DEF Close
    <2>2. TypeOK'
      BY <2>1, Types, TypesNext
    <2>3. Queue' /\ Stage'
      BY <2>1 DEF Queue, Stage
    <2>4. Owner' /\ Serving'
      BY <2>1, <1>1 DEF Owner, Serving, TypeOK
    <2>. QED
      BY <2>2, <2>3, <2>4
  <1>2. CASE ~host.stopped
    <2>1. /\ tasks' = Append(tasks, "close")
          /\ host' \in {[host EXCEPT !.stopped = TRUE, !.refreshed = 0, !.refreshing = FALSE],
                        [host EXCEPT !.stopped = TRUE, !.refreshed = 0]}
          /\ \/ UNCHANGED <<cur, verdict>>
             \/ /\ At("waiting") /\ cur' = AfterFailedRefresh
                /\ Verdict("custody-broken")
      BY <1>2 DEF Close
    <2>2. /\ host'.stopped /\ host'.owned = host.owned /\ host'.proxy = host.proxy
          /\ host'.lazy = host.lazy
      BY <2>1 DEF TypeOK
    <2>3. /\ cur' \in CurType /\ verdict' \in Verdicts
          /\ \/ cur' = cur /\ verdict' = verdict
             \/ /\ cur.kind = "lease" /\ verdict' = verdict
                /\ cur'.kind = "lease" /\ cur'.pc = "stop" /\ cur'.doing = "candidate"
             \/ /\ cur.kind = "lease" /\ verdict' = "custody-broken"
                /\ cur'.kind = "none" /\ cur'.pc = "idle" /\ cur'.doing = "none"
      <3>1. cur \in CurType /\ verdict \in Verdicts
        BY Types
      <3>2. CASE UNCHANGED <<cur, verdict>>
        BY <3>1, <3>2
      <3>3. CASE At("waiting") /\ cur' = AfterFailedRefresh /\ Verdict("custody-broken")
        <4>1. cur.kind = "lease" /\ cur.doing \in {"pending", "previous"}
          BY <3>3, Waiting
        <4>2. CASE cur.doing = "pending"
          BY <3>1, <3>3, <4>1, <4>2 DEF AfterFailedRefresh, Verdict, CurType, Idle
        <4>3. CASE cur.doing = "previous"
          BY <3>1, <3>3, <4>1, <4>3 DEF AfterFailedRefresh, Verdict, CurType, Idle, Verdicts
        <4>. QED
          BY <4>1, <4>2, <4>3
      <3>. QED
        BY <2>1, <3>2, <3>3
    <2>4. TypeOK'
      <3>1. tasks' \in Seq(Kinds)
        BY <2>1, Appended, Types DEF Kinds
      <3>2. host' \in HostType
        BY <2>1, Types DEF HostType
      <3>. QED
        BY <2>3, <3>1, <3>2, Types, TypesNext
    <2>5. Queue'
      <3>1. \A i \in DOMAIN tasks' :
               \/ i \in DOMAIN tasks /\ tasks'[i] = tasks[i]
               \/ i \notin DOMAIN tasks /\ i = Len(tasks) + 1 /\ tasks'[i] = "close"
        BY <2>1, Appended DEF TypeOK
      <3>. QED
        BY <2>2, <2>3, <3>1 DEF Queue
    <2>6. Stage'
      BY <2>3 DEF Stage
    <2>7. Owner' /\ Serving'
      <3>1. host.proxy # 0 => child'[host.proxy].digest = child[host.proxy].digest
        BY Types DEF HostType
      <3>2. Owner'
        BY <2>2, <2>3, <3>1 DEF Owner
      <3>3. Serving'
        BY <2>2, <2>3, <3>1 DEF Serving
      <3>. QED
        BY <3>2, <3>3
    <2>. QED
      BY <2>4, <2>5, <2>6, <2>7
  <1>. QED
    BY <1>1, <1>2

(* A step that moves no task: a frame received, a child that answers, dies  *)
(* or ends, an answer that completes nothing.                               *)
LEMMA QuietKeeps ==
  ASSUME Inductive, UNCHANGED <<tasks, cur, store, verdict>>,
         host' \in HostType, host'.stopped = host.stopped, host'.lazy = host.lazy,
         host'.proxy = host.proxy, host'.owned = host.owned,
         rt' \in RtType, rt'.digest = rt.digest, child' \in [Kid -> ChildType],
         \A k \in Kid : (Alive(k)' => Alive(k)) /\ child'[k].digest = child[k].digest,
         says' \in [Kid -> Seq(Thread)], frames' \in Seq(FrameType),
         frames # <<>> => frames' # <<>>, received' \in 0 .. MaxFrame
  PROVE  Inductive'
  <1> USE DEF Inductive, Current
  <1>1. TypeOK'
    BY Types, TypesNext
  <1>2. host.proxy # 0 => child'[host.proxy].digest = child[host.proxy].digest
    BY Types DEF HostType
  <1>3. Queue' /\ Stage'
    BY DEF Queue, Stage
  <1>4. Owner'
    BY <1>2 DEF Owner
  <1>5. Serving'
    BY <1>2 DEF Serving
  <1>. QED
    BY <1>1, <1>3, <1>4, <1>5

(* The queue, when a step takes no task from it and adds none.              *)
LEMMA QueueKept ==
  ASSUME Queue, UNCHANGED tasks, cur'.kind \in {cur.kind, "none"},
         cur.kind = "lease" \/ verdict' = verdict,
         cur'.kind = "lease" => verdict' = verdict,
         host.stopped => host'.stopped,
         frames' = frames \/ (cur.kind = "frame" /\ cur'.kind = "none")
  PROVE  Queue'
  BY DEF Queue

(* What a start leaves behind, when no child was owned.                     *)
LEMMA Started ==
  ASSUME Inductive, host.proxy = 0, NEW k \in Kid, NEW d \in Digest,
         NEW o \in Thread \cup {"no"}, Start(k, d, o)
  PROVE  /\ host' \in HostType /\ rt' \in RtType /\ child' \in [Kid -> ChildType]
         /\ host'.proxy = k /\ host'.owned = {k} /\ host'.lazy /\ host'.stopped = host.stopped
         /\ rt'.digest = d /\ child'[k].digest = d
         /\ \A j \in Kid : Alive(j)' => j = k
  <1> USE DEF Inductive, Current
  <1>1. host \in HostType /\ child \in [Kid -> ChildType] /\ k # 0
    BY Types, HostAssumption DEF Kid
  <1>2. rt' \in RtType /\ rt'.digest = d
    BY DEF Start, RtType, Thread
  <1>3. /\ host' \in HostType /\ host'.proxy = k /\ host'.owned = {k} /\ host'.lazy
        /\ host'.stopped = host.stopped
    <2>1. host' = [host EXCEPT !.gen = host.gen + 1, !.proxy = k, !.owned = {k}, !.lazy = TRUE]
      BY DEF Start
    <2>2. host.gen + 1 \in Nat /\ {k} \in SUBSET Kid
      BY <1>1 DEF HostType
    <2>. QED
      BY <1>1, <2>1, <2>2 DEF HostType
  <1>4. /\ child' \in [Kid -> ChildType] /\ child'[k].digest = d
        /\ \A j \in Kid \ {k} : child'[j] = child[j]
    <2>1. host.gen + 1 \in Nat
      BY <1>1 DEF HostType
    <2>. QED
      BY <1>1, <2>1 DEF Start, ChildType
  <1>5. \A j \in Kid : Alive(j)' => j = k
    <2> SUFFICES ASSUME NEW j \in Kid, j # k, Alive(j)'
                 PROVE  FALSE
      OBVIOUS
    <2>1. Alive(j)
      BY <1>4 DEF Alive
    <2>. QED
      BY <1>1, <2>1 DEF Owner, Kid
  <1>. QED
    BY <1>2, <1>3, <1>4, <1>5

-----------------------------------------------------------------------------
(* The queue of transitions.                                                *)
LEMMA FrameQueuesKeeps == ASSUME Inductive, FrameQueues PROVE Inductive'
  <1> USE DEF Inductive, Current
  <1>1. UNCHANGED <<host, rt, child, says, cur, received, store, verdict>> /\ frames # <<>>
    BY DEF FrameQueues
  <1>2. /\ frames' \in Seq(FrameType) /\ tasks' \in Seq(Kinds)
        /\ \/ tasks' = tasks
           \/ /\ frames' = frames
              /\ \A i \in DOMAIN tasks' :
                   \/ i \in DOMAIN tasks /\ tasks'[i] = tasks[i]
                   \/ i \notin DOMAIN tasks /\ i = Len(tasks) + 1 /\ tasks'[i] = "frame"
    <2>1. frames \in Seq(FrameType) /\ tasks \in Seq(Kinds) /\ "frame" \in Kinds
      BY Types DEF Kinds
    <2>2. CASE host.stopped
      BY <2>1, <2>2, <1>1, Taken DEF FrameQueues
    <2>3. CASE ~host.stopped
      BY <2>1, <2>3, Appended DEF FrameQueues
    <2>. QED
      BY <2>2, <2>3
  <1>3. TypeOK'
    BY <1>1, <1>2, Types, TypesNext
  <1>4. Queue'
    BY <1>1, <1>2 DEF Queue, FrameQueues
  <1>5. Stage' /\ Owner' /\ Serving'
    BY <1>1 DEF Stage, Owner, Serving, Alive
  <1>. QED
    BY <1>3, <1>4, <1>5

LEMMA LeaseQueuesKeeps == ASSUME Inductive, LeaseQueues PROVE Inductive'
  <1> USE DEF Inductive, Current
  <1>1. UNCHANGED <<host, rt, child, says, cur, frames, received, store, verdict>>
    BY DEF LeaseQueues, Untold
  <1>2. /\ tasks' \in Seq(Kinds)
        /\ \A i \in DOMAIN tasks' :
             \/ i \in DOMAIN tasks /\ tasks'[i] = tasks[i]
             \/ i \notin DOMAIN tasks /\ i = Len(tasks) + 1 /\ tasks'[i] = "lease"
    BY Types, Appended DEF LeaseQueues, Kinds
  <1>3. TypeOK'
    BY <1>1, <1>2, Types, TypesNext
  <1>4. Queue'
    BY <1>1, <1>2 DEF Queue, LeaseQueues
  <1>5. Stage' /\ Owner' /\ Serving'
    BY <1>1 DEF Stage, Owner, Serving, Alive
  <1>. QED
    BY <1>3, <1>4, <1>5

LEMMA TaskBeginsKeeps == ASSUME Inductive, TaskBegins PROVE Inductive'
  <1> USE DEF Inductive, Current
  <1>1. /\ UNCHANGED <<host, rt, child, says, frames, received, store>>
        /\ cur = Idle /\ tasks # <<>> /\ tasks' = Tail(tasks)
    BY DEF TaskBegins, Untold
  <1> DEFINE head == Head(tasks)
  <1>2. /\ tasks' \in Seq(Kinds) /\ head \in Kinds /\ 1 \in DOMAIN tasks /\ head = tasks[1]
        /\ \A i \in DOMAIN tasks' : /\ i \in Nat /\ i + 1 \in DOMAIN tasks /\ i + 1 # 1
                                    /\ tasks'[i] = tasks[i + 1]
    BY <1>1, Types, Taken
  <1>3. \/ /\ head = "lease" /\ host.stopped /\ cur' = cur /\ verdict' = "custody-broken"
        \/ /\ verdict' = verdict /\ cur'.kind = head /\ cur'.doing = "none"
           /\ cur'.pc = (IF head = "close" THEN "stop" ELSE "begin")
    BY <1>1 DEF TaskBegins, Idle
  <1>4. cur' \in CurType /\ verdict' \in Verdicts
    BY <1>1, <1>2, Types DEF TaskBegins, CurType, Kinds, Verdicts, Idle
  <1>5. TypeOK'
    BY <1>1, <1>2, <1>4, Types, TypesNext
  <1>6. Queue'
    <2>1. \A i \in DOMAIN tasks' : tasks'[i] = head => head = "close"
      BY <1>2 DEF Queue, Kinds
    <2>2. \A i \in DOMAIN tasks' : \A j \in DOMAIN tasks' :
            tasks'[i] = tasks'[j] /\ tasks'[i] \in {"frame", "lease"} => i = j
      BY <1>2 DEF Queue
    <2>3. \A i \in DOMAIN tasks' : /\ tasks'[i] = "frame" => frames # <<>>
                                   /\ tasks'[i] = "lease" => verdict = "none"
                                   /\ tasks'[i] = "close" => host.stopped
      BY <1>2 DEF Queue
    <2>4. /\ head = "frame" => frames # <<>>
          /\ head = "lease" => verdict = "none"
          /\ head = "close" => host.stopped
      BY <1>2 DEF Queue
    <2>5. CASE head = "lease" /\ host.stopped /\ cur' = Idle
      BY <1>1, <2>1, <2>2, <2>3, <2>5, <1>2 DEF Queue, Idle
    <2>6. CASE verdict' = verdict /\ cur'.kind = head
      <3>1. \A i \in DOMAIN tasks' : tasks'[i] # cur'.kind \/ cur'.kind = "close"
        BY <2>1, <2>6
      <3>. QED
        BY <1>1, <1>2, <2>2, <2>3, <2>4, <2>6, <3>1 DEF Queue, Kinds
    <2>. QED
      BY <1>1, <1>3, <2>5, <2>6
  <1>7. Stage'
    BY <1>1, <1>2, <1>3 DEF Stage, Queue, Kinds, Idle
  <1>8. Owner'
    BY <1>1, <1>2, <1>3 DEF Owner, Alive, Idle
  <1>9. Serving'
    <2>1. head = "lease" => verdict = "none"
      BY <1>2 DEF Queue
    <2>2. cur.kind = "none"
      BY <1>1 DEF Idle
    <2>3. CASE head = "lease" /\ host.stopped
      BY <1>1, <1>3, <2>2, <2>3 DEF Serving
    <2>4. CASE verdict' = verdict /\ cur'.kind = head /\ cur'.pc \in {"stop", "begin"}
      BY <1>1, <2>2, <2>4 DEF Serving
    <2>. QED
      BY <1>1, <1>3, <2>3, <2>4
  <1>. QED
    BY <1>5, <1>6, <1>7, <1>8, <1>9

-----------------------------------------------------------------------------
(* The refresh.                                                             *)
\* It ends: in time, at the timer, at the end of the host or before its start.
LEMMA RefreshEnds ==
  ASSUME Inductive, UNCHANGED <<tasks, child, frames, received, store>>,
         cur.kind = "lease", cur.pc \in {"resolve", "spawn", "waiting"},
         host' \in HostType, host'.stopped = host.stopped, host'.lazy = host.lazy,
         host'.proxy = host.proxy, host'.owned = host.owned,
         rt' \in RtType, rt'.digest = rt.digest, says' \in [Kid -> Seq(Thread)],
         \/ /\ cur.doing = "pending" /\ verdict' = verdict
            /\ \/ cur' = [Idle EXCEPT !.kind = "lease", !.pc = "stop", !.doing = "candidate"]
               \/ cur' = [cur EXCEPT !.pc = "complete"]
         \/ /\ cur.doing = "previous" /\ cur' = Idle
            /\ verdict' \in {"rolled-back", "custody-broken"}
  PROVE  Inductive'
  <1> USE DEF Inductive, Current
  <1>1. /\ cur' \in CurType /\ verdict' \in Verdicts
        /\ \/ /\ cur'.kind = "lease" /\ cur'.pc = "stop" /\ cur'.doing = "candidate"
              /\ verdict' = verdict
           \/ /\ cur'.kind = "lease" /\ cur'.pc = "complete" /\ cur'.doing = "pending"
              /\ verdict' = verdict
           \/ /\ cur'.kind = "none" /\ cur'.pc = "idle" /\ cur.doing = "previous"
              /\ cur'.doing = "none"
              /\ verdict' # "halted"
    <2>1. cur \in CurType /\ verdict \in Verdicts
      BY Types
    <2>2. CASE cur.doing = "previous" /\ cur' = Idle /\ verdict' \in {"rolled-back", "custody-broken"}
      BY <2>2 DEF CurType, Verdicts, Idle
    <2>3. CASE /\ verdict' = verdict
               /\ cur' = [Idle EXCEPT !.kind = "lease", !.pc = "stop", !.doing = "candidate"]
      BY <2>1, <2>3 DEF CurType, Idle
    <2>4. CASE cur.doing = "pending" /\ verdict' = verdict /\ cur' = [cur EXCEPT !.pc = "complete"]
      BY <2>1, <2>4 DEF CurType
    <2>. QED
      BY <2>2, <2>3, <2>4
  <1>2. TypeOK'
    BY <1>1, Types, TypesNext
  <1>3. Queue'
    BY <1>1, QueueKept
  <1>4. Stage'
    BY <1>1 DEF Stage
  <1>5. Owner'
    BY <1>1 DEF Owner, Alive
  <1>6. Serving'
    <2>1. cur.doing = "previous" => /\ store.trial # "B"
                                    /\ host.proxy # 0 => Current(child[host.proxy].digest)
      BY DEF Stage, Owner, Serving
    <2>. QED
      BY <1>1, <2>1 DEF Serving
  <1>. QED
    BY <1>2, <1>3, <1>4, <1>5, <1>6

LEMMA ReadyTimeoutKeeps == ASSUME Inductive, ReadyTimeout PROVE Inductive'
  <1> USE DEF Inductive, Current
  <1>1. /\ cur.kind = "lease" /\ cur.pc = "waiting" /\ cur.doing \in {"pending", "previous"}
        /\ host' = [host EXCEPT !.refreshing = FALSE]
        /\ cur' = AfterFailedRefresh /\ Verdict("custody-broken")
        /\ UNCHANGED <<rt, child, says, tasks, frames, received, store>>
    BY Waiting DEF ReadyTimeout, Untold
  <1>2. /\ host' \in HostType /\ host'.stopped = host.stopped /\ host'.lazy = host.lazy
        /\ host'.proxy = host.proxy /\ host'.owned = host.owned
    BY <1>1, Types DEF HostType
  <1>3. \/ /\ cur.doing = "pending" /\ verdict' = verdict
           /\ cur' = [Idle EXCEPT !.kind = "lease", !.pc = "stop", !.doing = "candidate"]
        \/ cur.doing = "previous" /\ cur' = Idle /\ verdict' = "custody-broken"
    BY <1>1 DEF AfterFailedRefresh, Verdict
  <1>. QED
    BY <1>1, <1>2, <1>3, RefreshEnds, Types

LEMMA RefreshResolvesKeeps == ASSUME Inductive, RefreshResolves PROVE Inductive'
  <1> USE DEF Inductive, Current
  <1>1. /\ cur.kind = "lease" /\ cur.pc = "resolve" /\ cur.doing \in {"pending", "previous"}
        /\ host.proxy = 0 /\ UNCHANGED <<says, tasks, frames, received, store>>
        /\ host \in HostType /\ cur \in CurType /\ store \in StoreType
    BY Types DEF RefreshResolves, At, Untold, Stage, Owner
  <1>2. CASE /\ UNCHANGED <<host, rt, child, verdict>>
             /\ \E d \in Resolves : cur' = [cur EXCEPT !.pc = "spawn", !.answer = d]
    <2>1. PICK d \in Resolves : cur' = [cur EXCEPT !.pc = "spawn", !.answer = d]
      BY <1>2
    <2>2. d \in Digest /\ (cur.doing = "previous" => d = store.active)
      BY <1>1 DEF Resolves, Stage, StoreType, Digest
    <2>3. /\ cur' \in CurType /\ cur'.kind = "lease" /\ cur'.pc = "spawn"
          /\ cur'.doing = cur.doing /\ cur'.answer = d
      BY <1>1, <2>1, <2>2 DEF CurType
    <2>4. TypeOK'
      BY <1>1, <1>2, <2>3, Types, TypesNext
    <2>5. Queue'
      BY <1>1, <1>2, <2>3, QueueKept
    <2>6. Stage'
      BY <1>1, <2>2, <2>3 DEF Stage
    <2>7. Owner'
      BY <1>1, <1>2, <2>3 DEF Owner, Alive
    <2>8. Serving'
      BY <1>1, <1>2, <2>2, <2>3 DEF Serving
    <2>. QED
      BY <2>4, <2>5, <2>6, <2>7, <2>8
  <1>3. CASE RefreshFails
    <2>1. /\ cur' = AfterFailedRefresh /\ Verdict("custody-broken")
          /\ host' = [host EXCEPT !.refreshing = FALSE] /\ UNCHANGED <<rt, child>>
      BY <1>3 DEF RefreshFails
    <2>2. /\ host' \in HostType /\ host'.stopped = host.stopped /\ host'.lazy = host.lazy
          /\ host'.proxy = host.proxy /\ host'.owned = host.owned
      BY <1>1, <2>1 DEF HostType
    <2>3. \/ /\ cur.doing = "pending" /\ verdict' = verdict
             /\ cur' = [Idle EXCEPT !.kind = "lease", !.pc = "stop", !.doing = "candidate"]
          \/ cur.doing = "previous" /\ cur' = Idle /\ verdict' = "custody-broken"
      BY <1>1, <2>1 DEF AfterFailedRefresh, Verdict
    <2>. QED
      BY <1>1, <2>1, <2>2, <2>3, RefreshEnds, Types
  <1>. QED
    BY <1>2, <1>3 DEF RefreshResolves

LEMMA RefreshStartsKeeps == ASSUME Inductive, RefreshStarts PROVE Inductive'
  <1> USE DEF Inductive, Current
  <1>1. /\ cur.kind = "lease" /\ cur.pc = "spawn" /\ cur.doing \in {"pending", "previous"}
        /\ host.proxy = 0 /\ UNCHANGED <<says, tasks, frames, received, store>>
        /\ host \in HostType /\ cur \in CurType /\ cur.answer \in Digest
    BY Types DEF RefreshStarts, At, Untold, Stage, Owner
  <1>2. CASE /\ ~host.stopped /\ UNCHANGED verdict
             /\ cur' = [cur EXCEPT !.pc = "waiting", !.answer = "none"]
             /\ \E k \in Kid : Start(k, cur.answer, host.thread)
    <2>1. PICK k \in Kid : Start(k, cur.answer, host.thread)
      BY <1>2
    <2>2. host.thread \in Thread \cup {"no"}
      BY <1>1 DEF HostType
    <2>3. /\ host' \in HostType /\ rt' \in RtType /\ child' \in [Kid -> ChildType]
          /\ host'.proxy = k /\ host'.owned = {k} /\ host'.stopped = host.stopped
          /\ rt'.digest = cur.answer /\ child'[k].digest = cur.answer
          /\ \A j \in Kid : Alive(j)' => j = k
      BY <1>1, <2>1, <2>2, Started
    <2>4. /\ cur' \in CurType /\ cur'.kind = "lease" /\ cur'.pc = "waiting"
          /\ cur'.doing = cur.doing /\ verdict' = verdict
      BY <1>1, <1>2 DEF CurType
    <2>5. TypeOK'
      BY <1>1, <2>3, <2>4, Types, TypesNext
    <2>6. Queue'
      BY <1>1, <2>3, <2>4, QueueKept
    <2>7. Stage'
      BY <1>1, <2>4 DEF Stage
    <2>8. Owner'
      BY <2>3, <2>4, HostAssumption DEF Owner, Kid
    <2>9. Serving'
      BY <1>1, <1>2, <2>3, <2>4 DEF Serving
    <2>. QED
      BY <2>5, <2>6, <2>7, <2>8, <2>9
  <1>3. CASE RefreshFails
    <2>1. /\ cur' = AfterFailedRefresh /\ Verdict("custody-broken")
          /\ host' = [host EXCEPT !.refreshing = FALSE] /\ UNCHANGED <<rt, child>>
      BY <1>3 DEF RefreshFails
    <2>2. /\ host' \in HostType /\ host'.stopped = host.stopped /\ host'.lazy = host.lazy
          /\ host'.proxy = host.proxy /\ host'.owned = host.owned
      BY <1>1, <2>1 DEF HostType
    <2>3. \/ /\ cur.doing = "pending" /\ verdict' = verdict
             /\ cur' = [Idle EXCEPT !.kind = "lease", !.pc = "stop", !.doing = "candidate"]
          \/ cur.doing = "previous" /\ cur' = Idle /\ verdict' = "custody-broken"
      BY <1>1, <2>1 DEF AfterFailedRefresh, Verdict
    <2>. QED
      BY <1>1, <2>1, <2>2, <2>3, RefreshEnds, Types
  <1>. QED
    BY <1>2, <1>3 DEF RefreshStarts

LEMMA HearKeeps == ASSUME Inductive, NEW k \in Kid, Hear(k) PROVE Inductive'
  <1> USE DEF Inductive, Current
  <1> DEFINE t == Head(says[k])
  <1>1. /\ UNCHANGED <<child, frames, received, store>> /\ t \in Thread
        /\ says' \in [Kid -> Seq(Thread)] /\ host \in HostType /\ rt \in RtType
    <2>1. says[k] \in Seq(Thread) /\ says[k] # <<>> /\ says' = [says EXCEPT ![k] = Tail(says[k])]
      BY Types DEF Hear
    <2>. QED
      BY <2>1, Taken, Types DEF Hear
  <1>2. CASE UNCHANGED <<host, rt, tasks, cur, verdict>>
    BY <1>1, <1>2, QuietKeeps, Types DEF Alive
  <1>3. CASE Close /\ UNCHANGED rt
    BY <1>1, <1>3, CloseKeeps, Types DEF Alive
  <1>4. CASE /\ rt' = [rt EXCEPT !.thread = t] /\ UNCHANGED tasks
             /\ IF At("waiting")
                THEN /\ host' = [host EXCEPT !.thread = t, !.refreshing = FALSE,
                                   !.refreshed = IF cur.doing = "pending" THEN host.proxy ELSE 0]
                     /\ Refreshed
                ELSE host' = [host EXCEPT !.thread = t] /\ UNCHANGED <<cur, verdict>>
    <2>1. rt' \in RtType /\ rt'.digest = rt.digest
      BY <1>1, <1>4 DEF RtType
    <2>2. /\ host' \in HostType /\ host'.stopped = host.stopped /\ host'.lazy = host.lazy
          /\ host'.proxy = host.proxy /\ host'.owned = host.owned
      BY <1>1, <1>4 DEF HostType
    <2>3. CASE At("waiting")
      <3>1. cur.kind = "lease" /\ cur.pc = "waiting" /\ cur.doing \in {"pending", "previous"}
        BY <2>3, Waiting
      <3>2. \/ /\ cur.doing = "pending" /\ verdict' = verdict
               /\ cur' = [cur EXCEPT !.pc = "complete"]
            \/ /\ cur.doing = "previous" /\ cur' = Idle
               /\ verdict' \in {"rolled-back", "custody-broken"}
        BY <1>4, <2>3, <3>1 DEF Refreshed, Verdict
      <3>. QED
        BY <1>1, <1>4, <2>1, <2>2, <3>1, <3>2, RefreshEnds
    <2>4. CASE ~At("waiting")
      BY <1>1, <1>4, <2>1, <2>2, <2>4, QuietKeeps, Types DEF Alive
    <2>. QED
      BY <2>3, <2>4
  <1>. QED
    BY <1>2, <1>3, <1>4 DEF Hear

-----------------------------------------------------------------------------
(* stopOwned.                                                               *)
LEMMA StopOwnedKeeps == ASSUME Inductive, StopOwned PROVE Inductive'
  <1> USE DEF Inductive, Current
  <1>1. /\ UNCHANGED <<rt, says, tasks, frames, received, store, verdict>>
        /\ cur.kind \in {"lease", "close"} /\ cur.pc = "stop" /\ host \in HostType
        /\ child \in [Kid -> ChildType]
    BY Types DEF StopOwned, At, Untold, Stage, CurType
  <1>2. /\ cur' \in CurType /\ cur'.kind = cur.kind /\ cur'.pc = "stopping"
        /\ cur'.doing = cur.doing
    BY Types DEF StopOwned, Goto, CurType
  <1>3. /\ host' \in HostType /\ host'.stopped = host.stopped /\ ~host'.lazy
        /\ host'.proxy = host.proxy /\ host'.owned = host.owned
    <2>1. host' = [host EXCEPT !.gen = host.gen + 1, !.lazy = FALSE, !.refreshed = 0]
      BY DEF StopOwned
    <2>2. host.gen + 1 \in Nat
      BY <1>1 DEF HostType
    <2>. QED
      BY <1>1, <2>1, <2>2 DEF HostType
  <1>4. child' \in [Kid -> ChildType]
    BY <1>1 DEF StopOwned, ChildType
  <1>5. \A k \in Kid : (Alive(k)' => Alive(k)) /\ child'[k].digest = child[k].digest
    BY <1>1 DEF StopOwned, ChildType, Alive
  <1>6. TypeOK'
    BY <1>1, <1>2, <1>3, <1>4, Types, TypesNext
  <1>7. Queue'
    BY <1>1, <1>2, <1>3, QueueKept
  <1>8. Stage'
    BY <1>1, <1>2 DEF Stage
  <1>9. host.proxy # 0 => child'[host.proxy].digest = child[host.proxy].digest
    BY <1>1, <1>5 DEF HostType
  <1>10. Owner'
    BY <1>1, <1>2, <1>3, <1>5, <1>9 DEF Owner
  <1>11. Serving'
    BY <1>1, <1>2, <1>3, <1>9 DEF Serving, Queue
  <1>. QED
    BY <1>6, <1>7, <1>8, <1>10, <1>11

LEMMA StoppedKeeps == ASSUME Inductive, Stopped PROVE Inductive'
  <1> USE DEF Inductive, Current
  <1>1. /\ UNCHANGED <<child, says, tasks, frames, received, store, verdict>>
        /\ cur.kind \in {"lease", "close"} /\ cur.pc = "stopping" /\ host \in HostType
        /\ cur.kind = "lease" => cur.doing # "none"
    BY Types DEF Stopped, At, Untold, Stage, CurType
  <1>2. /\ cur' \in CurType /\ cur'.kind = cur.kind /\ cur'.doing = cur.doing
        /\ cur.kind = "close" => cur'.pc = "recover"
        /\ cur.kind = "lease" => /\ cur'.pc \in {"unpin", "resolve"}
                                 /\ cur'.pc = "resolve" => cur.doing \in {"pending", "previous"}
    <2>1. AfterStop \in {"recover", "unpin", "resolve"} /\ cur \in CurType
      BY Types DEF AfterStop
    <2>2. cur' = [cur EXCEPT !.pc = AfterStop]
      BY DEF Stopped, Goto
    <2>3. cur' \in CurType /\ cur'.kind = cur.kind /\ cur'.doing = cur.doing /\ cur'.pc = AfterStop
      BY <2>1, <2>2 DEF CurType
    <2>. QED
      BY <1>1, <2>1, <2>3 DEF AfterStop, CurType
  <1>3. /\ host' \in HostType /\ host'.stopped = host.stopped /\ host'.lazy = host.lazy
        /\ host'.proxy = 0 /\ host'.owned = {}
    BY <1>1 DEF Stopped, HostType
  <1>4. rt' \in RtType
    BY DEF Stopped, NoRt, RtType, Thread, Digest
  <1>5. \A k \in Kid : ~Alive(k)
    <2> SUFFICES ASSUME NEW k \in Kid, Alive(k)
                 PROVE  FALSE
      OBVIOUS
    <2>1. k \in host.owned
      BY HostAssumption DEF Owner, Kid
    <2>. QED
      BY <2>1 DEF Stopped, Alive
  <1>6. TypeOK'
    BY <1>1, <1>2, <1>3, <1>4, Types, TypesNext
  <1>7. Queue'
    BY <1>1, <1>2, <1>3, QueueKept
  <1>8. Stage'
    BY <1>1, <1>2 DEF Stage
  <1>9. Owner'
    BY <1>1, <1>3, <1>5 DEF Owner, Alive
  <1>10. Serving'
    BY <1>1, <1>2, <1>3 DEF Serving, Queue
  <1>. QED
    BY <1>6, <1>7, <1>8, <1>9, <1>10

LEMMA RecoverKeeps == ASSUME Inductive, Recover PROVE Inductive'
  <1> USE DEF Inductive, Current
  <1>1. /\ UNCHANGED <<rt, child, says, tasks, frames, received, verdict>> /\ cur' = Idle
        /\ cur.kind = "close" /\ host.stopped /\ store \in StoreType /\ host \in HostType
    BY Types DEF Recover, At, Ends, Untold, Stage, Queue, CurType
  <1>2. /\ cur' \in CurType /\ cur'.kind = "none" /\ cur'.pc = "idle" /\ cur'.doing = "none"
    BY <1>1, Types DEF CurType, Idle
  <1>3. /\ store' \in StoreType /\ store'.active = store.active
        /\ store'.activated = store.activated
    BY <1>1 DEF Recover, StoreType
  <1>4. /\ host' \in HostType /\ host'.stopped /\ host'.proxy = host.proxy
        /\ host'.owned = host.owned
    BY <1>1 DEF Recover, HostType
  <1>5. TypeOK'
    BY <1>1, <1>2, <1>3, <1>4, Types, TypesNext
  <1>6. Queue'
    BY <1>1, <1>2, <1>4, QueueKept
  <1>7. Stage' /\ Serving'
    BY <1>2, <1>3, <1>4 DEF Stage, Serving
  <1>8. Owner'
    BY <1>1, <1>2, <1>4 DEF Owner, Alive
  <1>. QED
    BY <1>5, <1>6, <1>7, <1>8

(* Another panel moves the store, and nothing of this host.                 *)
LEMMA OtherKeeps == ASSUME Inductive, Other PROVE Inductive'
  <1> USE DEF Inductive, Current
  <1>1. /\ UNCHANGED <<host, rt, child, says, tasks, cur, frames, received, verdict>>
        /\ store \in StoreType
    BY Types DEF Other, Untold
  <1>2. /\ store' \in StoreType /\ store'.activated \in {store.activated, store.activated \cup {"C"}}
        /\ store'.active \in store'.activated
        /\ store'.active = store.active \/ "C" \in store'.activated
        /\ store'.trial = "B" => store.trial = "B"
    BY <1>1 DEF Other, StoreType, Digest, Serving
  <1>3. TypeOK'
    BY <1>1, <1>2, Types, TypesNext
  <1>4. Queue' /\ Stage'
    BY <1>1, <1>2 DEF Queue, Stage
  <1>5. Owner'
    BY <1>1 DEF Owner, Alive
  <1>6. Serving'
    BY <1>1, <1>2 DEF Serving
  <1>. QED
    BY <1>3, <1>4, <1>5, <1>6

-----------------------------------------------------------------------------
(* One frame.                                                               *)
LEMMA DispatchKeeps == ASSUME Inductive, Dispatch PROVE Inductive'
  <1> USE DEF Inductive, Current
  <1>1. /\ UNCHANGED <<host, rt, says, tasks, received, store, verdict>> /\ cur.kind = "frame"
        /\ frames # <<>> /\ frames \in Seq(FrameType) /\ host \in HostType
        /\ child \in [Kid -> ChildType] /\ cur \in CurType
    BY Types DEF Dispatch, Untold, FrameDone, Queue
  <1>2. CASE host.proxy = 0 /\ host.lazy /\ ~host.stopped
    <2>1. UNCHANGED <<child, frames>> /\ cur' = [cur EXCEPT !.pc = "resolve"]
      BY <1>2 DEF Dispatch, Goto, Untold
    <2>2. cur' \in CurType /\ cur'.kind = "frame" /\ cur'.pc = "resolve"
      BY <1>1, <2>1 DEF CurType
    <2>3. TypeOK'
      BY <1>1, <2>1, <2>2, Types, TypesNext
    <2>4. Queue'
      BY <1>1, <2>1, <2>2, QueueKept
    <2>5. Stage' /\ Serving'
      BY <1>1, <1>2, <2>1, <2>2 DEF Stage, Serving
    <2>6. Owner'
      BY <1>1, <1>2, <2>1, <2>2 DEF Owner, Alive
    <2>. QED
      BY <2>3, <2>4, <2>5, <2>6
  <1>3. CASE ~(host.proxy = 0 /\ host.lazy /\ ~host.stopped)
    <2>1. /\ cur' = Idle /\ frames' = Tail(frames)
          /\ child' = (IF host.proxy # 0 /\ ~host.stopped /\ Head(frames).open
                       THEN [child EXCEPT ![host.proxy].opened = host.thread] ELSE child)
      BY <1>3 DEF Dispatch, Ends, FrameDone
    <2>2. cur' \in CurType /\ cur'.kind = "none" /\ cur'.pc = "idle" /\ cur'.doing = "none"
      BY <2>1 DEF CurType, Idle
    <2>3. frames' \in Seq(FrameType)
      BY <1>1, <2>1, Taken
    <2>4. /\ child' \in [Kid -> ChildType]
          /\ \A k \in Kid : child'[k].state = child[k].state /\ child'[k].digest = child[k].digest
      <3>1. CASE child' = child
        BY <1>1, <3>1
      <3>2. CASE host.proxy # 0 /\ child' = [child EXCEPT ![host.proxy].opened = host.thread]
        <4>1. host.proxy \in Kid /\ host.thread \in Thread \cup {"no"}
          BY <1>1, <3>2 DEF HostType
        <4>. QED
          BY <1>1, <3>2, <4>1 DEF ChildType
      <3>. QED
        BY <2>1, <3>1, <3>2
    <2>5. \A k \in Kid : (Alive(k)' <=> Alive(k)) /\ child'[k].digest = child[k].digest
      BY <2>4 DEF Alive
    <2>6. TypeOK'
      BY <1>1, <2>2, <2>3, <2>4, Types, TypesNext
    <2>7. Queue'
      BY <1>1, <2>2, QueueKept
    <2>8. host.proxy # 0 => child'[host.proxy].digest = child[host.proxy].digest
      BY <1>1, <2>5 DEF HostType
    <2>9. Stage' /\ Serving'
      BY <1>1, <2>2, <2>8 DEF Stage, Serving
    <2>10. Owner'
      BY <1>1, <2>2, <2>5, <2>8 DEF Owner
    <2>. QED
      BY <2>6, <2>7, <2>9, <2>10
  <1>. QED
    BY <1>2, <1>3

LEMMA LazyResolvesKeeps == ASSUME Inductive, LazyResolves PROVE Inductive'
  <1> USE DEF Inductive, Current
  <1>1. /\ UNCHANGED <<rt, child, says, received, store, verdict>>
        /\ cur.kind = "frame" /\ cur.pc = "resolve" /\ cur.doing = "none"
        /\ frames # <<>> /\ frames \in Seq(FrameType) /\ host \in HostType
        /\ host.proxy = 0 /\ (~host.stopped => host.lazy)
        /\ cur \in CurType /\ store \in StoreType
    BY Types DEF LazyResolves, Untold, FrameDone, Queue, Stage, Owner, Serving, At
  <1>2. CASE /\ \E d \in Resolves : cur' = [cur EXCEPT !.pc = "spawn", !.answer = d]
             /\ UNCHANGED <<host, tasks, frames>>
    <2>1. PICK d \in Resolves : cur' = [cur EXCEPT !.pc = "spawn", !.answer = d]
      BY <1>2
    <2>2. d \in Digest /\ (store.trial = "B" \/ d = store.active)
      BY <1>1 DEF Resolves, StoreType, Digest
    <2>3. /\ cur' \in CurType /\ cur'.kind = "frame" /\ cur'.pc = "spawn"
          /\ cur'.doing = cur.doing /\ cur'.answer = d
      BY <1>1, <2>1, <2>2 DEF CurType
    <2>4. TypeOK'
      BY <1>1, <1>2, <2>3, Types, TypesNext
    <2>5. Queue'
      BY <1>1, <1>2, <2>3, QueueKept
    <2>6. Stage'
      BY <1>1, <2>2, <2>3 DEF Stage
    <2>7. Owner'
      BY <1>1, <1>2, <2>3 DEF Owner, Alive
    <2>8. Serving'
      BY <1>1, <1>2, <2>2, <2>3 DEF Serving
    <2>. QED
      BY <2>4, <2>5, <2>6, <2>7, <2>8
  <1>3. CASE cur' = Idle /\ frames' = Tail(frames) /\ host.stopped /\ UNCHANGED <<host, tasks>>
    <2>1. /\ cur' \in CurType /\ cur'.kind = "none" /\ cur'.pc = "idle" /\ cur'.doing = "none"
          /\ frames' \in Seq(FrameType)
      BY <1>1, <1>3, Taken DEF CurType, Idle
    <2>2. TypeOK'
      BY <1>1, <1>3, <2>1, Types, TypesNext
    <2>3. Queue'
      BY <1>1, <1>3, <2>1, QueueKept
    <2>4. Stage' /\ Owner' /\ Serving'
      BY <1>1, <1>3, <2>1 DEF Stage, Owner, Serving, Alive
    <2>. QED
      BY <2>2, <2>3, <2>4
  <1>4. CASE /\ ~host.stopped /\ cur' = Idle /\ frames' = Tail(frames)
             /\ tasks' = Append(tasks, "close")
             /\ host' = [host EXCEPT !.stopped = TRUE, !.refreshed = 0]
    <2>1. /\ host' \in HostType /\ host'.stopped /\ host'.proxy = host.proxy
          /\ host'.owned = host.owned
      BY <1>1, <1>4 DEF HostType
    <2>2. /\ tasks' \in Seq(Kinds)
          /\ \A i \in DOMAIN tasks' :
               \/ i \in DOMAIN tasks /\ tasks'[i] = tasks[i]
               \/ i \notin DOMAIN tasks /\ i = Len(tasks) + 1 /\ tasks'[i] = "close"
      BY <1>4, Types, Appended DEF Kinds
    <2>3. /\ cur' \in CurType /\ cur'.kind = "none" /\ cur'.pc = "idle" /\ cur'.doing = "none"
          /\ frames' \in Seq(FrameType)
      BY <1>1, <1>4, Taken DEF CurType, Idle
    <2>4. TypeOK'
      BY <1>1, <2>1, <2>2, <2>3, Types, TypesNext
    <2>5. Queue'
      BY <1>1, <2>1, <2>2, <2>3 DEF Queue
    <2>6. Stage' /\ Owner' /\ Serving'
      BY <1>1, <2>1, <2>3 DEF Stage, Owner, Serving, Alive
    <2>. QED
      BY <2>4, <2>5, <2>6
  <1>. QED
    BY <1>2, <1>3, <1>4 DEF LazyResolves, Ends, FrameDone, Untold

LEMMA LazyStartKeeps == ASSUME Inductive, LazyStart PROVE Inductive'
  <1> USE DEF Inductive, Current
  <1>1. /\ UNCHANGED <<says, received, tasks, store, verdict>>
        /\ cur.kind = "frame" /\ cur.pc = "spawn"
        /\ frames # <<>> /\ frames \in Seq(FrameType) /\ host \in HostType
        /\ host.proxy = 0 /\ (~host.stopped => host.lazy) /\ cur.answer \in Digest
        /\ cur' = Idle /\ frames' = Tail(frames)
    BY Types DEF LazyStart, Ends, FrameDone, Queue, Stage, Owner, Serving, At
  <1>2. /\ cur' \in CurType /\ cur'.kind = "none" /\ cur'.pc = "idle" /\ cur'.doing = "none"
        /\ frames' \in Seq(FrameType) /\ Head(frames) \in FrameType
    BY <1>1, Taken DEF CurType, Idle
  <1>3. Stage'
    BY <1>2 DEF Stage
  <1>4. CASE UNCHANGED <<host, rt, child>> /\ host.stopped
    <2>1. TypeOK'
      BY <1>1, <1>2, <1>4, Types, TypesNext
    <2>2. Queue'
      BY <1>1, <1>2, <1>4, QueueKept
    <2>3. Owner' /\ Serving'
      BY <1>1, <1>2, <1>4 DEF Owner, Serving, Alive
    <2>. QED
      BY <1>3, <2>1, <2>2, <2>3
  <1>5. CASE /\ ~host.stopped
             /\ \E k \in Kid : Start(k, cur.answer, IF Head(frames).open THEN Head(frames).thread
                                                     ELSE "no")
    <2> DEFINE opened == IF Head(frames).open THEN Head(frames).thread ELSE "no"
    <2>1. PICK k \in Kid : Start(k, cur.answer, opened)
      BY <1>5
    <2>2. opened \in Thread \cup {"no"}
      BY <1>2 DEF FrameType
    <2> HIDE DEF opened
    <2>3. /\ host' \in HostType /\ rt' \in RtType /\ child' \in [Kid -> ChildType]
          /\ host'.proxy = k /\ host'.owned = {k} /\ host'.stopped = host.stopped
          /\ rt'.digest = cur.answer /\ child'[k].digest = cur.answer
          /\ \A j \in Kid : Alive(j)' => j = k
      BY <1>1, <2>1, <2>2, Started
    <2>4. TypeOK'
      BY <1>1, <1>2, <2>3, Types, TypesNext
    <2>5. Queue'
      BY <1>1, <1>2, <2>3, QueueKept
    <2>6. Owner'
      BY <1>2, <2>3, HostAssumption DEF Owner, Kid
    <2>7. Serving'
      <3>1. verdict # "halted" => store.trial # "B" /\ Current(cur.answer)
        BY <1>1, <1>5 DEF Serving
      <3>. QED
        BY <1>1, <1>2, <2>3, <3>1 DEF Serving
    <2>. QED
      BY <1>3, <2>4, <2>5, <2>6, <2>7
  <1>. QED
    BY <1>4, <1>5 DEF LazyStart

-----------------------------------------------------------------------------
(* The lease.                                                               *)
LEMMA LeaseHaltsKeeps == ASSUME Inductive, LeaseHalts PROVE Inductive'
  <1> USE DEF Inductive, Current
  <1>1. /\ UNCHANGED <<rt, child, says, tasks, frames, received, store>> /\ cur.kind = "lease"
        /\ cur' = Idle /\ verdict' = "halted" /\ host' = [host EXCEPT !.refreshing = FALSE]
    BY DEF LeaseHalts, Ends, Untold
  <1>2. /\ cur' \in CurType /\ cur'.kind = "none" /\ cur'.pc = "idle" /\ cur'.doing = "none"
        /\ verdict' \in Verdicts
    BY <1>1 DEF CurType, Idle, Verdicts
  <1>3. /\ host' \in HostType /\ host'.stopped = host.stopped /\ host'.proxy = host.proxy
        /\ host'.owned = host.owned
    BY <1>1, Types DEF HostType
  <1>4. TypeOK'
    BY <1>1, <1>2, <1>3, Types, TypesNext
  <1>5. Queue'
    BY <1>1, <1>2, <1>3, QueueKept
  <1>6. Stage' /\ Serving'
    BY <1>1, <1>2 DEF Stage, Serving
  <1>7. Owner'
    BY <1>1, <1>2, <1>3 DEF Owner, Alive
  <1>. QED
    BY <1>4, <1>5, <1>6, <1>7

LEMMA LeaseActivatesKeeps == ASSUME Inductive, LeaseActivates PROVE Inductive'
  <1> USE DEF Inductive, Current
  <1>1. /\ UNCHANGED <<rt, child, says, tasks, frames, received, verdict>>
        /\ cur.kind = "lease" /\ cur \in CurType /\ host \in HostType /\ store \in StoreType
    BY Types DEF LeaseActivates, Lease, Untold
  <1>2. /\ store' \in StoreType /\ store'.active = store.active
        /\ store'.activated = store.activated
    BY <1>1 DEF LeaseActivates, StoreType
  <1>3. /\ host' \in HostType /\ host'.stopped = host.stopped /\ host'.proxy = host.proxy
        /\ host'.owned = host.owned
    <2>1. CASE host' = host
      BY <1>1, <2>1
    <2>2. CASE host' = [host EXCEPT !.refreshing = TRUE, !.refreshed = 0]
      BY <1>1, <2>2 DEF HostType
    <2>. QED
      BY <2>1, <2>2 DEF LeaseActivates
  <1>4. /\ cur' \in CurType /\ cur'.kind = "lease" /\ cur'.pc = "stop"
        /\ cur'.doing \in {"pending", "candidate"}
    <2>1. PICK d \in {"pending", "candidate"} : cur' = [cur EXCEPT !.pc = "stop", !.doing = d]
      BY DEF LeaseActivates
    <2>. QED
      BY <1>1, <2>1 DEF CurType
  <1>5. TypeOK'
    BY <1>1, <1>2, <1>3, <1>4, Types, TypesNext
  <1>6. Queue'
    BY <1>1, <1>3, <1>4, QueueKept
  <1>7. Stage' /\ Serving'
    BY <1>2, <1>4 DEF Stage, Serving
  <1>8. Owner'
    BY <1>1, <1>3, <1>4 DEF Owner, Alive
  <1>. QED
    BY <1>5, <1>6, <1>7, <1>8

LEMMA LeaseCompletesKeeps == ASSUME Inductive, LeaseCompletes PROVE Inductive'
  <1> USE DEF Inductive, Current
  <1>1. /\ UNCHANGED <<host, rt, child, says, tasks, frames, received>>
        /\ cur.kind = "lease" /\ cur.pc = "complete" /\ cur \in CurType /\ store \in StoreType
    BY Types DEF LeaseCompletes, Lease, At, Untold
  <1>2. CASE LeaseSucceeds
    <2>1. /\ cur' \in CurType /\ cur'.kind = "none" /\ cur'.pc = "idle" /\ cur'.doing = "none"
          /\ verdict' \in Verdicts
      BY <1>2 DEF LeaseSucceeds, CurType, Ends, Idle, Verdicts
    <2>2. /\ host.proxy # 0 => child[host.proxy].digest = "B"
          /\ store' \in StoreType /\ store'.active = "B" /\ "B" \in store'.activated
          /\ store'.trial = "none"
      BY <1>1, <1>2 DEF LeaseSucceeds, Guard, Owner, StoreType, Digest
    <2>3. TypeOK'
      BY <1>1, <1>2, <2>1, <2>2, Types, TypesNext
    <2>4. Queue'
      BY <1>1, <2>1, QueueKept
    <2>5. Stage' /\ Serving'
      BY <1>1, <1>2, <2>1, <2>2 DEF Stage, Serving
    <2>6. Owner'
      BY <1>1, <2>1 DEF Owner, Alive
    <2>. QED
      BY <2>3, <2>4, <2>5, <2>6
  <1>3. CASE /\ cur' = [cur EXCEPT !.pc = "stop", !.doing = "candidate"]
             /\ UNCHANGED <<store, verdict>>
    <2>1. /\ cur' \in CurType /\ cur'.kind = "lease" /\ cur'.pc = "stop"
          /\ cur'.doing = "candidate"
      BY <1>1, <1>3 DEF CurType
    <2>2. TypeOK'
      BY <1>1, <1>3, <2>1, Types, TypesNext
    <2>3. Queue'
      BY <1>1, <1>3, <2>1, QueueKept
    <2>4. Stage' /\ Serving'
      BY <1>3, <2>1 DEF Stage, Serving
    <2>5. Owner'
      BY <1>1, <2>1 DEF Owner, Alive
    <2>. QED
      BY <2>2, <2>3, <2>4, <2>5
  <1>. QED
    BY <1>2, <1>3 DEF LeaseCompletes

LEMMA LeaseUnpinsKeeps == ASSUME Inductive, LeaseUnpins PROVE Inductive'
  <1> USE DEF Inductive, Current
  <1>1. /\ UNCHANGED <<rt, child, says, tasks, frames, received>>
        /\ cur.kind = "lease" /\ cur.pc = "unpin" /\ cur \in CurType /\ host \in HostType
        /\ host.proxy = 0 /\ ~host.lazy /\ store \in StoreType
    BY Types DEF LeaseUnpins, Lease, At, Untold, Owner, Serving
  <1>2. /\ store' \in StoreType /\ store'.active = store.active
        /\ store'.activated = store.activated
    BY <1>1 DEF LeaseUnpins, StoreType
  <1>3. CASE /\ store' = [store EXCEPT !.trial = "none"]
             /\ cur' = [cur EXCEPT !.pc = "stop", !.doing = "previous"]
             /\ host' = [host EXCEPT !.refreshing = TRUE] /\ UNCHANGED verdict
    <2>1. /\ cur' \in CurType /\ cur'.kind = "lease" /\ cur'.pc = "stop"
          /\ cur'.doing = "previous" /\ store'.trial = "none"
      BY <1>1, <1>3 DEF CurType, StoreType
    <2>2. /\ host' \in HostType /\ host'.stopped = host.stopped /\ host'.proxy = host.proxy
          /\ host'.owned = host.owned
      BY <1>1, <1>3 DEF HostType
    <2>3. TypeOK'
      BY <1>1, <1>2, <1>3, <2>1, <2>2, Types, TypesNext
    <2>4. Queue'
      BY <1>1, <1>3, <2>1, <2>2, QueueKept
    <2>5. Stage' /\ Serving'
      BY <1>2, <2>1 DEF Stage, Serving
    <2>6. Owner'
      BY <1>1, <2>1, <2>2 DEF Owner, Alive
    <2>. QED
      BY <2>3, <2>4, <2>5, <2>6
  <1>4. CASE Ends /\ verdict' = "custody-broken" /\ host' = host
    <2>1. /\ cur' \in CurType /\ cur'.kind = "none" /\ cur'.pc = "idle" /\ cur'.doing = "none"
          /\ verdict' \in Verdicts
      BY <1>4 DEF CurType, Ends, Idle, Verdicts
    <2>2. TypeOK'
      BY <1>1, <1>2, <1>4, <2>1, Types, TypesNext
    <2>3. Queue'
      BY <1>1, <1>4, <2>1, QueueKept
    <2>4. Stage' /\ Serving'
      BY <1>1, <1>2, <1>4, <2>1 DEF Stage, Serving
    <2>5. Owner'
      BY <1>1, <1>4, <2>1 DEF Owner, Alive
    <2>. QED
      BY <2>2, <2>3, <2>4, <2>5
  <1>. QED
    BY <1>3, <1>4 DEF LeaseUnpins

-----------------------------------------------------------------------------
(* Every step keeps the strengthening.                                      *)
LEMMA InductiveStep == Inductive /\ [Next]_vars => Inductive'
  <1> SUFFICES ASSUME Inductive, [Next]_vars
               PROVE  Inductive'
    OBVIOUS
  <1> USE DEF Inductive, Current
  <1>1. CASE Receive
    <2>1. /\ UNCHANGED <<rt, child, says, store>> /\ received' \in 0 .. MaxFrame
          /\ host \in HostType /\ frames \in Seq(FrameType)
      <3>1. UNCHANGED <<rt, child, says, store>> /\ received < MaxFrame /\ received' = received + 1
        BY <1>1 DEF Receive
      <3>2. received \in 0 .. MaxFrame /\ host \in HostType /\ frames \in Seq(FrameType)
        BY Types
      <3>. QED
        BY <3>1, <3>2, HostAssumption
    <2>2. CASE host.asked /\ UNCHANGED <<host, tasks, cur, verdict>>
               /\ frames' = Append(frames, [open |-> FALSE, thread |-> "none"])
      <3>1. [open |-> FALSE, thread |-> "none"] \in FrameType
        BY DEF FrameType, Thread
      <3>. QED
        BY <2>1, <2>2, <3>1, Appended, QuietKeeps, Types DEF Alive
    <2>3. CASE Close /\ UNCHANGED frames
      BY <2>1, <2>3, CloseKeeps, Types DEF Alive
    <2>4. ASSUME NEW bound \in Thread, UNCHANGED <<tasks, cur, verdict>>,
                 host' = [host EXCEPT !.asked = TRUE, !.thread = bound],
                 frames' = Append(frames, [open |-> TRUE, thread |-> bound])
          PROVE  Inductive'
      <3>1. /\ host' \in HostType /\ host'.stopped = host.stopped /\ host'.lazy = host.lazy
            /\ host'.proxy = host.proxy /\ host'.owned = host.owned
        BY <2>1, <2>4 DEF HostType
      <3>2. [open |-> TRUE, thread |-> bound] \in FrameType
        BY <2>4 DEF FrameType
      <3>. QED
        BY <2>1, <2>4, <3>1, <3>2, Appended, QuietKeeps, Types DEF Alive
    <2>5. host.thread \in Thread
      BY <2>1 DEF HostType
    <2>. QED
      BY <1>1, <2>2, <2>3, <2>4, <2>5 DEF Receive
  <1>2. CASE FrameQueues
    BY <1>2, FrameQueuesKeeps
  <1>3. CASE LeaseQueues
    BY <1>3, LeaseQueuesKeeps
  <1>4. CASE InputEnds
    BY <1>4, CloseKeeps, Types DEF InputEnds, Alive
  <1>5. CASE ReadyTimeout
    BY <1>5, ReadyTimeoutKeeps
  <1>6. CASE TaskStep
    BY <1>6, TaskBeginsKeeps, StopOwnedKeeps, StoppedKeeps, RefreshResolvesKeeps, RefreshStartsKeeps,
       RecoverKeeps, DispatchKeeps, LazyResolvesKeeps, LazyStartKeeps, LeaseActivatesKeeps, LeaseCompletesKeeps, LeaseUnpinsKeeps
       DEF TaskStep
  <1>7. CASE LeaseHalts
    BY <1>7, LeaseHaltsKeeps
  <1>8. ASSUME NEW k \in Kid, ChildAnswers(k)
        PROVE  Inductive'
    <2>1. says' \in [Kid -> Seq(Thread)]
      <3>1. PICK t \in Thread \ {"none"} : says' = [says EXCEPT ![k] = Append(says[k], t)]
        BY <1>8 DEF ChildAnswers
      <3>. QED
        BY <3>1, Appended, Types
    <2>2. /\ child' \in [Kid -> ChildType]
          /\ \A j \in Kid : child'[j].state = child[j].state /\ child'[j].digest = child[j].digest
      <3>1. child' = [child EXCEPT ![k].opened = "no"] /\ child \in [Kid -> ChildType]
        BY <1>8, Types DEF ChildAnswers
      <3>. QED
        BY <3>1 DEF ChildType
    <2>3. UNCHANGED <<host, rt, tasks, cur, frames, received, store, verdict>>
      BY <1>8 DEF ChildAnswers
    <2>. QED
      BY <2>1, <2>2, <2>3, QuietKeeps, Types DEF Alive
  <1>9. ASSUME NEW k \in Kid, ChildDies(k) \/ ChildEnds(k)
        PROVE  Inductive'
    <2>1. /\ child' \in [Kid -> ChildType]
          /\ \A j \in Kid : (Alive(j)' => Alive(j)) /\ child'[j].digest = child[j].digest
      <3>1. PICK st \in {"dead", "gone"} : child' = [child EXCEPT ![k].state = st]
        BY <1>9 DEF ChildDies, ChildEnds
      <3>2. child[k].state \in {"running", "ending"} /\ child \in [Kid -> ChildType]
        BY <1>9, Types DEF ChildDies, ChildEnds
      <3>3. /\ child' \in [Kid -> ChildType]
            /\ \A j \in Kid : /\ child'[j].digest = child[j].digest
                              /\ j # k => child'[j].state = child[j].state
        BY <3>1, <3>2 DEF ChildType
      <3>. QED
        BY <3>2, <3>3 DEF Alive
    <2>2. says' \in [Kid -> Seq(Thread)]
      <3>1. says' = says \/ says' = [says EXCEPT ![k] = <<>>]
        BY <1>9 DEF ChildDies, ChildEnds, Untold
      <3>2. says \in [Kid -> Seq(Thread)] /\ <<>> \in Seq(Thread)
        BY Types
      <3>. QED
        BY <3>1, <3>2
    <2>3. UNCHANGED <<host, rt, tasks, cur, frames, received, store, verdict>>
      BY <1>9 DEF ChildDies, ChildEnds, Untold
    <2>. QED
      BY <2>1, <2>2, <2>3, QuietKeeps, Types
  <1>10. ASSUME NEW k \in Kid, HostSeesExit(k)
         PROVE  Inductive'
    <2>1. /\ child' \in [Kid -> ChildType]
          /\ \A j \in Kid : (Alive(j)' => Alive(j)) /\ child'[j].digest = child[j].digest
      BY <1>10, Types DEF HostSeesExit, ChildType, Alive
    <2>2. Close /\ UNCHANGED <<rt, store, says, frames, received>>
      BY <1>10 DEF HostSeesExit, Untold
    <2>. QED
      BY <2>1, <2>2, CloseKeeps, Types
  <1>11. ASSUME NEW k \in Kid, Hear(k)
         PROVE  Inductive'
    BY <1>11, HearKeeps
  <1>12. CASE Other
    BY <1>12, OtherKeeps
  <1>13. CASE UNCHANGED vars
    BY <1>13, QuietKeeps, Types DEF vars, Alive
  <1>. QED
    BY <1>1, <1>2, <1>3, <1>4, <1>5, <1>6, <1>7, <1>8, <1>9, <1>10, <1>11, <1>12, <1>13 DEF Next

(* No length of run breaks the strengthening.                               *)
LEMMA AlwaysInductive == Spec => []Inductive
  BY InductiveInit, InductiveStep, PTL DEF Spec

-----------------------------------------------------------------------------
(* The types of the host's state, with any number of children and frames.   *)
THEOREM TypeCorrect == Spec => []TypeOK
  <1>1. Inductive => TypeOK
    BY DEF Inductive
  <1>. QED
    BY <1>1, AlwaysInductive, PTL

(* At most one child is alive, and the host owns it, however a lazy start,  *)
(* a refresh, a death and the end cross.                                    *)
THEOREM OneChildLives == Spec => []OneChild
  <1>1. Inductive => OneChild
    <2> SUFFICES ASSUME Inductive
                 PROVE  OneChild
      OBVIOUS
    <2> DEFINE alive == {k \in Kid : Alive(k)}
    <2>1. alive \subseteq {host.proxy} /\ \A k \in Kid : Alive(k) => k \in host.owned
      BY HostAssumption DEF Inductive, Owner, Kid
    <2>2. IsFiniteSet({host.proxy}) /\ Cardinality({host.proxy}) = 1
      BY FS_Singleton
    <2>3. Cardinality(alive) <= 1
      BY <2>1, <2>2, FS_Subset
    <2>. QED
      BY <2>1, <2>3 DEF OneChild
  <1>. QED
    BY <1>1, AlwaysInductive, PTL

(* Outside an activation the child that serves is of an activated version,  *)
(* the active one unless another panel activated its own, unless a broken   *)
(* chain halted the activation half way.                                    *)
THEOREM ServesTheActivated == Spec => []ServedIsActivated
  <1>1. Inductive => ServedIsActivated
    BY DEF Inductive, Serving, ServedIsActivated
  <1>. QED
    BY <1>1, AlwaysInductive, PTL

(* This host gives its candidate up only when no process of it is left,     *)
(* whatever another panel does to the store meanwhile.                      *)
THEOREM UnpinsTheStopped == Spec => UnpinnedIsStopped
  <1> DEFINE GivesUp == /\ store.trial = "B" /\ store'.trial # "B"
                        /\ "B" \notin store'.activated /\ cur' # cur
  <1>1. Inductive /\ [Next]_vars =>
          [GivesUp => \A k \in Kid : Alive(k) => child[k].digest # "B"]_vars
    <2> SUFFICES ASSUME Inductive, [Next]_vars, GivesUp
                 PROVE  \A k \in Kid : Alive(k) => child[k].digest # "B"
      OBVIOUS
    <2>1. LeaseUnpins \/ Recover
      <3>0. store \in StoreType /\ store' # store
        BY Types DEF Inductive
      <3>1. ~LeaseActivates
        BY <3>0 DEF LeaseActivates
      <3>2. ~LeaseCompletes
        BY <3>0 DEF LeaseCompletes, LeaseSucceeds
      <3>3. ~(\/ TaskBegins \/ StopOwned \/ Stopped \/ RefreshResolves \/ RefreshStarts
              \/ Dispatch \/ LazyResolves \/ LazyStart)
        BY <3>0 DEF TaskBegins, StopOwned, Stopped, RefreshResolves, RefreshStarts, Dispatch,
             LazyResolves, LazyStart
      <3>4. ~(Receive \/ FrameQueues \/ LeaseQueues \/ InputEnds \/ ReadyTimeout \/ LeaseHalts)
        BY <3>0 DEF Receive, FrameQueues, LeaseQueues, InputEnds, ReadyTimeout, LeaseHalts
      <3>5. \A k \in Kid : ~(\/ ChildAnswers(k) \/ ChildDies(k) \/ HostSeesExit(k)
                             \/ ChildEnds(k) \/ Hear(k))
        BY <3>0 DEF ChildAnswers, ChildDies, HostSeesExit, ChildEnds, Hear
      <3>6. ~UNCHANGED vars /\ ~Other
        BY <3>0 DEF vars, Other
      <3>. QED
        BY <3>1, <3>2, <3>3, <3>4, <3>5, <3>6 DEF Next, TaskStep
    <2>2. host.proxy = 0
      BY <2>1 DEF LeaseUnpins, Lease, Recover, At, Inductive, Owner
    <2>. QED
      BY <2>2, HostAssumption DEF Inductive, Owner, Kid
  <1>. QED
    BY <1>1, AlwaysInductive, PTL DEF Spec, UnpinnedIsStopped
=============================================================================
