---------------------------- MODULE CodexPromises ----------------------------
(***************************************************************************)
(* What a passed Codex review promises the coordinator that records it     *)
(* (codex-verifier.js, review-coordinator.js startReview), said of the     *)
(* child, of its output and of the outcome alone.  CodexReview has the     *)
(* steps that keep it.                                                     *)
(***************************************************************************)
EXTENDS Naturals, Sequences

CONSTANTS MaxOutput    \* maxOutputBytes, in lines

VARIABLES
  review,              \* the coordinator's review
  code, flags,         \* how its child exited, and what boundedRun noted
  said, file,          \* the child's lines, and its --output-last-message file
  sample,              \* per review: its sampleVerifier call
  result, outcome      \* of runCodexReview, and per review of startReview

(* The lines a child wrote are one whole turn, read here without the        *)
(* parser: a thread, its turn, the turn's items, each that was started also *)
(* completed, exactly one message among them, whose text is v, and the      *)
(* turn's end as the last line.                                             *)
Completed(i) == \E j \in i + 1 .. Len(said) :
                  said[j].type \in {"reasoning", "message"} /\ said[j].item = said[i].item
WholeTurn(v) ==
  LET n == Len(said) IN
  /\ n > 3 /\ said[1].type = "thread" /\ said[2].type = "turn" /\ said[n].type = "done"
  /\ \A i \in 3 .. n - 1 : said[i].type \in {"started", "reasoning", "message"}
  /\ \A i \in 3 .. n - 1 : said[i].type = "started" => Completed(i)
  /\ \E m \in 3 .. n - 1 : /\ said[m].type = "message" /\ said[m].text = v
                          /\ \A i \in 3 .. n - 1 : said[i].type = "message" => i = m

(* A review passes only by a child that was sampled and ended by itself     *)
(* before its deadline and within its limits, whose output is one whole     *)
(* turn with the file it wrote for its only message, and whose private      *)
(* files were wiped after it.                                               *)
PassedIsEarned ==
  [][\A r \in DOMAIN outcome : outcome[r] = "none" /\ outcome'[r] = "passed" =>
       /\ r = review /\ code = "zero" /\ flags = {} /\ Len(said) <= MaxOutput
       /\ sample[r] = "given" /\ file = "favorable" /\ WholeTurn(file)
       /\ result = "favorable"]_outcome
=============================================================================
