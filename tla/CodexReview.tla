---------------------------- MODULE CodexReview ----------------------------
(***************************************************************************)
(* review/codex-verifier.js and the part of review-coordinator.js that     *)
(* calls it: one child process per review, whose stdin is held back until  *)
(* the coordinator has sampled it, whose events are parsed as they come,   *)
(* and which a deadline, a byte limit or a refused event kills.  Prompts,  *)
(* digests and the shapes of JSON are abstracted: an event is one line.    *)
(***************************************************************************)
EXTENDS CodexPromises, FiniteSets

CONSTANTS Item,                \* ids of thread items
          MaxReview,           \* bound: reviews
          MaxSaid, MaxPipe     \* bounds: lines a child writes, and those not yet read
ASSUME CodexAssumption ==
  MaxOutput \in Nat /\ MaxReview \in Nat \ {0} /\ MaxSaid \in Nat /\ MaxPipe \in Nat \ {0}

VARIABLES
  stage,               \* where the coordinator's call stands
  life,                \* its child
  read, cut,           \* the lines read, whether the last has no newline
  parser,              \* eventParser
  os, attestation,     \* the coordinator's #os.verification, by review, and #attestation
  finalized,           \* of runCodexReview's finalizeResult
  held                 \* per review: the evidence in its codex receipt

vars == <<review, stage, life, code, said, read, cut, parser, flags, file, sample,
          os, attestation, result, finalized, held, outcome>>

Review == 1 .. MaxReview
Verdict == {"favorable", "unfavorable"}
\* thread.started, turn.started, turn.completed, item.started, item.completed
Event == [type : {"thread", "turn", "done", "junk"}]
         \cup [type : {"started", "reasoning"}, item : Item]
         \cup [type : {"message"}, item : Item, text : Verdict]
Parser == [phase : {"initial", "thread", "turn", "done"}, pending : SUBSET Item,
           completed : SUBSET Item, final : Verdict \cup {"none"}]
Fresh == [phase |-> "initial", pending |-> {}, completed |-> {}, final |-> "none"]

TypeOK ==
  /\ review \in 0 .. MaxReview /\ stage \in {"idle", "run", "finalize", "clean", "return"}
  /\ life \in {"none", "held", "fed", "exited", "gone"} /\ code \in {"none", "zero", "other"}
  /\ said \in Seq(Event) /\ Len(said) <= MaxSaid /\ read \in 0 .. Len(said) /\ cut \in BOOLEAN
  /\ parser \in Parser
  /\ flags \subseteq {"timeout", "limit", "events", "sample"}
  /\ file \in Verdict \cup {"none", "invalid"}
  /\ sample \in [Review -> {"none", "asked", "given", "refused"}]
  /\ os \in 0 .. MaxReview /\ attestation \in Verdict \cup {"none"}
  /\ result \in Verdict \cup {"none", "failed"} /\ finalized \in BOOLEAN
  /\ held \in [Review -> 0 .. MaxReview] /\ outcome \in [Review -> {"none", "passed", "failed"}]
  /\ (stage = "idle" => life \in {"none", "gone"}) /\ (cut => said # <<>>)

-----------------------------------------------------------------------------
(* eventParser: what a line needs, and what it leaves.                     *)
Open(s, e)  == s.phase = "turn" /\ e.item \notin s.completed
Accepts(s, e) ==
  \/ e.type = "thread" /\ s.phase = "initial"
  \/ e.type = "turn" /\ s.phase = "thread"
  \/ e.type = "started" /\ Open(s, e) /\ e.item \notin s.pending
  \/ e.type = "reasoning" /\ Open(s, e)
  \/ e.type = "message" /\ Open(s, e) /\ s.final = "none"
  \/ e.type = "done" /\ s.phase = "turn" /\ s.final # "none" /\ s.pending = {}
Parsed(s, e) ==
  IF e.type \in {"thread", "turn", "done"} THEN [s EXCEPT !.phase = e.type]
  ELSE IF e.type = "started" THEN [s EXCEPT !.pending = @ \cup {e.item}]
  ELSE [s EXCEPT !.pending = @ \ {e.item}, !.completed = @ \cup {e.item},
                 !.final = IF e.type = "message" THEN e.text ELSE @]

Running == life \in {"held", "fed"}
\* stop: the group is killed, and what had exited stays as it exited
Stop == IF Running THEN life' = "exited" /\ code' = "other" ELSE UNCHANGED <<life, code>>
Note(flag) == flags' = flags \cup {flag} /\ Stop
Ran        == UNCHANGED <<said, cut, file>>
Kept       == UNCHANGED <<os, attestation, finalized, held, outcome>>

-----------------------------------------------------------------------------
Init ==
  /\ review = 0 /\ stage = "idle" /\ life = "none" /\ code = "none"
  /\ said = <<>> /\ read = 0 /\ cut = FALSE /\ parser = Fresh /\ flags = {} /\ file = "none"
  /\ sample = [r \in Review |-> "none"] /\ os = 0 /\ attestation = "none"
  /\ result = "none" /\ finalized = FALSE
  /\ held = [r \in Review |-> 0] /\ outcome = [r \in Review |-> "none"]

\* a review comes to Codex: its inputs or the version run fail, or the child starts
Start ==
  /\ stage = "idle" /\ review < MaxReview /\ review' = review + 1
  /\ said' = <<>> /\ read' = 0 /\ cut' = FALSE /\ parser' = Fresh /\ flags' = {} /\ file' = "none"
  /\ os' = 0 /\ attestation' = "none" /\ finalized' = FALSE /\ UNCHANGED <<held, outcome>>
  /\ \/ /\ stage' = "finalize" /\ result' = "failed" /\ life' = "none" /\ code' = "none"
        /\ UNCHANGED sample
     \/ /\ stage' = "run" /\ result' = "none" /\ life' = "held" /\ code' = "none"
        /\ sample' = [sample EXCEPT ![review'] = "asked"]

\* the coordinator's sample of review r's child is in: its own child is let go on
Sampled(r) ==
  /\ sample[r] = "asked" /\ os' = r /\ sample' = [sample EXCEPT ![r] = "given"]
  /\ life' = (IF r = review /\ life = "held" THEN "fed" ELSE life)
  /\ UNCHANGED <<review, stage, code, said, read, cut, parser, flags, file, attestation, result,
                 finalized, held, outcome>>
\* no evidence, or evidence of another topology; after the close there is nothing to stop
Refused(r) ==
  /\ sample[r] = "asked" /\ os' \in {os, r} /\ sample' = [sample EXCEPT ![r] = "refused"]
  /\ IF r = review /\ stage = "run" THEN Note("sample") ELSE UNCHANGED <<flags, life, code>>
  /\ UNCHANGED <<review, stage, said, read, cut, parser, file, attestation, result, finalized,
                 held, outcome>>

(* The child: it may write at any time, fed or not.                        *)
Child == UNCHANGED <<review, stage, read, parser, flags, sample, result>> /\ Kept
Say(e, whole) ==
  /\ Running /\ ~cut /\ Len(said) < MaxSaid /\ Len(said) < read + MaxPipe
  /\ said' = Append(said, e) /\ cut' = ~whole /\ UNCHANGED <<life, code, file>> /\ Child
WriteFile(v) ==
  Running /\ file = "none" /\ file' = v /\ UNCHANGED <<life, code, said, cut>> /\ Child
Exit(c) == Running /\ life' = "exited" /\ code' = c /\ Ran /\ Child

(* boundedRun.                                                             *)
Read ==
  /\ stage = "run" /\ read < Len(said) /\ read' = read + 1
  /\ LET e == said[read'] IN
     IF read' > MaxOutput THEN Note("limit") /\ UNCHANGED parser
     ELSE IF "events" \in flags \/ (cut /\ read' = Len(said)) THEN UNCHANGED <<parser, flags, life, code>>
     ELSE IF Accepts(parser, e)
     THEN parser' = Parsed(parser, e) /\ UNCHANGED <<flags, life, code>>
     ELSE Note("events") /\ UNCHANGED parser
  /\ UNCHANGED <<review, stage, sample, result>> /\ Ran /\ Kept

\* a deadline that is set when the prompt is given
TimeoutOnceFed ==
  /\ stage = "run" /\ life # "held" /\ "timeout" \notin flags /\ Note("timeout")
  /\ UNCHANGED <<review, stage, read, parser, sample, result>> /\ Ran /\ Kept
Timeout ==
  /\ stage = "run" /\ "timeout" \notin flags /\ Note("timeout")
  /\ UNCHANGED <<review, stage, read, parser, sample, result>> /\ Ran /\ Kept

\* the whole output is parsed again, an unterminated last line with it
Final ==
  LET e == said[Len(said)] IN
  IF ~cut THEN parser ELSE IF Accepts(parser, e) THEN Parsed(parser, e) ELSE Fresh
\* a judgement by the file alone: its text is not compared with the message's
JudgedByFile ==
  IF sample[review] = "given" /\ code = "zero" /\ flags = {} /\ Final.phase = "done"
  THEN file ELSE "failed"
Judged ==
  IF sample[review] = "given" /\ code = "zero" /\ flags = {}
     /\ Final.phase = "done" /\ Final.final = file
  THEN file ELSE "failed"
Close ==
  /\ stage = "run" /\ life = "exited" /\ read = Len(said)
  /\ life' = "gone" /\ stage' = "finalize" /\ result' = Judged
  /\ UNCHANGED <<review, code, read, parser, flags, sample>> /\ Ran /\ Kept

Verifier == UNCHANGED <<review, life, code, said, read, cut, parser, flags, file, sample>>
\* the coordinator takes a result that names the sampled child, and records it
Finalize ==
  /\ stage = "finalize" /\ stage' = "clean" /\ Verifier /\ UNCHANGED <<os, outcome>>
  /\ \/ /\ result # "failed" /\ finalized' = TRUE /\ attestation' = result
        /\ held' = [held EXCEPT ![review] = os] /\ UNCHANGED result
     \/ /\ result' = "failed" /\ UNCHANGED <<finalized, attestation, held>>

\* the private files are wiped; a failure downgrades what was recorded
Clean ==
  /\ stage = "clean" /\ stage' = "return" /\ Verifier
  /\ result' \in {result, "failed"} /\ Kept

Return ==
  /\ stage = "return" /\ stage' = "idle" /\ Verifier /\ UNCHANGED <<os, attestation, finalized, result>>
  /\ held' = (IF finalized THEN held ELSE [held EXCEPT ![review] = os])
  /\ outcome' = [outcome EXCEPT ![review] =
       IF finalized /\ result = "favorable" /\ attestation = "favorable" THEN "passed" ELSE "failed"]

Next ==
  \/ Start \/ Read \/ Timeout \/ Close \/ Finalize \/ Clean \/ Return
  \/ \E r \in Review : Sampled(r) \/ Refused(r)
  \/ \E e \in Event, whole \in BOOLEAN : Say(e, whole)
  \/ \E v \in Verdict \cup {"invalid"} : WriteFile(v)
  \/ Exit("zero") \/ Exit("other")

\* the deadline comes, a pipe that ended is read and closed, the coordinator's
\* own steps return; neither the child nor the sample need ever move
Fairness == WF_vars(Timeout) /\ WF_vars(Read) /\ WF_vars(Close)
            /\ WF_vars(Finalize) /\ WF_vars(Clean) /\ WF_vars(Return)
Spec == Init /\ [][Next]_vars /\ Fairness

-----------------------------------------------------------------------------
(* The prompt reaches a child only after its own sample: a sample that     *)
(* another review left behind releases nobody.                             *)
SampledFirst == life = "fed" => sample[review] = "given"

(* Every Codex review comes to its end, whatever the child and the sample  *)
(* do or fail to do.                                                       *)
ReviewEnds == (stage # "idle") ~> (stage = "idle")

(* The verification evidence in a review's receipt is of that review.      *)
EvidenceIsOwn == \A r \in Review : held[r] \in {0, r}
=============================================================================
