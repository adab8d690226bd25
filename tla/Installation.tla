---------------------------- MODULE Installation ----------------------------
(***************************************************************************)
(* scripts/install-macos.js: --migrate prepares the runtime beside a       *)
(* registration it must not touch, --switch-registration replaces that     *)
(* registration later.  A run is one process of the command; it may fail   *)
(* or die between any two files.  Digests, modes and links stand for what  *)
(* they guard: a file is what one plan writes at its place, or changed.    *)
(* A write that returned is on the disk: of the syncs only the one behind  *)
(* the journal's removal is a step, since its failure writes again.        *)
(***************************************************************************)
EXTENDS Naturals, Sequences, FiniteSets

CONSTANTS Installer,          \* processes of the command
          MaxCommit, MaxRun   \* bounds: commits of the source, starts of the command
ASSUME InstallationAssumption == MaxCommit \in Nat \ {0} /\ MaxRun \in Nat

VARIABLES
  journal,             \* runtime/migration-journal.json
  files,               \* what preparation leaves: [path, plan, whole]
  launcher, manifest,  \* the live registration
  head,                \* the source's commit
  pc, step, plan,      \* per process: where it stands, the next of Order, its plan
  current,             \* per process: the registration as it read it last
  runs

vars == <<journal, files, launcher, manifest, head, pc, step, plan, current, runs>>

\* the artifacts of a preparation in the order of the code; "verify" is the
\* comparison of them all and of the registration that precedes the last receipt
Order == <<"home", "old-launcher", "old-manifest", "current", "before", "before-hash",
           "trusted", "extension", "version", "witness", "state", "pin",
           "migration", "migration-hash", "verify", "after", "after-hash">>
Kept    == {"old-launcher", "old-manifest", "current"}
Chain   == {"before", "before-hash", "migration", "migration-hash", "after", "after-hash"}
Trees   == {"trusted", "extension", "version"}
Pinned  == {"witness", "state", "pin"}          \* atomicFile: they replace
Name    == {"home"} \cup Kept \cup Chain \cup Trees \cup Pinned
End     == Len(Order) + 1

Launcher == {"v1", "v1-moved", "v2"}
Manifest == {"v1", "v2"}
Registrations == [launcher : Launcher, manifest : Manifest]
\* a plan binds the commit and the registration it was reviewed against
Plan == [commit : 1 .. MaxCommit, launcher : Launcher, manifest : Manifest]
\* custody is kept by the hash of the old registration, versions by their digest
Path(n, pl) ==
  [name |-> n, commit |-> IF n = "version" THEN pl.commit ELSE 0,
   launcher |-> IF n \in Kept \cup Chain THEN pl.launcher ELSE "any",
   manifest |-> IF n \in Kept \cup Chain THEN pl.manifest ELSE "any"]
Holds(n, pl)   == [path |-> Path(n, pl), plan |-> pl, whole |-> TRUE]
Spoiled(path, pl) == [path |-> path, plan |-> pl, whole |-> FALSE]
Exists(n, pl)  == \E f \in files : f.path = Path(n, pl)
Without(n, pl) == {f \in files : f.path # Path(n, pl)}
\* the files of these names are what the plan says
Ready(names, pl) == \A n \in names : Holds(n, pl) \in files
\* verifyStoredMigrationChain: the three receipts and their digests
Stored(pl) == Ready(Chain, pl)

TypeOK ==
  /\ journal \in {"none", "preparation-started", "preparation-failed"}
  /\ files \subseteq [path : {Path(n, pl) : n \in Name, pl \in Plan}, plan : Plan, whole : BOOLEAN]
  /\ \A f, g \in files : f.path = g.path => f = g
  /\ launcher \in Launcher /\ manifest \in Manifest /\ head \in 1 .. MaxCommit
  /\ pc \in [Installer -> {"off", "migrate", "clear", "making", "removed",
                          "switch", "read", "launcher", "manifest"}]
  /\ step \in [Installer -> 1 .. End] /\ plan \in [Installer -> Plan]
  /\ current \in [Installer -> Registrations] /\ runs \in 0 .. MaxRun

Live    == [launcher |-> launcher, manifest |-> manifest]
Current == [commit |-> head, launcher |-> launcher, manifest |-> manifest]
Registered(p) == launcher = plan[p].launcher /\ manifest = plan[p].manifest
Working == {p \in Installer : pc[p] = "making"}
Goes(p, to)   == pc' = [pc EXCEPT ![p] = to] /\ UNCHANGED <<step, plan, current, runs, head>>
Registration  == UNCHANGED <<launcher, manifest>>

-----------------------------------------------------------------------------
Init ==
  /\ journal = "none" /\ files = {} /\ launcher = "v1" /\ manifest = "v1" /\ head = 1
  /\ pc = [p \in Installer |-> "off"] /\ step = [p \in Installer |-> 1]
  /\ plan = [p \in Installer |-> Current] /\ current = [p \in Installer |-> Live] /\ runs = 0

\* the reviewed plan is the one rebuilt from the source and the registration
Start(p, command) ==
  /\ pc[p] = "off" /\ runs < MaxRun /\ runs' = runs + 1
  /\ pc' = [pc EXCEPT ![p] = command] /\ plan' = [plan EXCEPT ![p] = Current]
  /\ current' = [current EXCEPT ![p] = Live]
  /\ UNCHANGED <<journal, files, head, step>> /\ Registration

\* nothing of what is to be made is there
Clear(p) ==
  /\ pc[p] = "migrate" /\ Registered(p)
  /\ \A n \in Name : ~Exists(n, plan[p])
  /\ Goes(p, "clear") /\ UNCHANGED <<journal, files>> /\ Registration

\* the exclusive creation of the journal lets one in
Journal(p) ==
  /\ pc[p] = "clear" /\ journal = "none" /\ journal' = "preparation-started"
  /\ pc' = [pc EXCEPT ![p] = "making"] /\ step' = [step EXCEPT ![p] = 1]
  /\ UNCHANGED <<files, head, plan, current, runs>> /\ Registration

\* writeExclusive and stageTree refuse what exists, ensureDirectory and atomicFile do not
MayMakeOver(n, pl) == n \in Name
MayMake(n, pl) == n \in Name /\ (n \in {"home"} \cup Pinned \/ ~Exists(n, pl))
Advance(p) == step' = [step EXCEPT ![p] = @ + 1]
Make(p) ==
  /\ pc[p] = "making" /\ step[p] < End
  /\ LET n == Order[step[p]] IN
     /\ MayMake(n, plan[p])
     /\ files' = IF n = "home" /\ Exists(n, plan[p]) THEN files
                 ELSE Without(n, plan[p]) \cup {Holds(n, plan[p])}
  /\ Advance(p) /\ UNCHANGED <<journal, head, pc, plan, current, runs>> /\ Registration

Verify(p) ==
  /\ pc[p] = "making" /\ step[p] < End /\ Order[step[p]] = "verify"
  /\ Ready(Trees \cup Pinned, plan[p]) /\ Registered(p)
  /\ Advance(p) /\ UNCHANGED <<journal, files, head, pc, plan, current, runs>> /\ Registration

RemoveJournal(p) ==
  /\ pc[p] = "making" /\ step[p] = End /\ journal' = "none"
  /\ Goes(p, "removed") /\ UNCHANGED files /\ Registration
Finish(p) ==
  /\ pc[p] = "removed" /\ Goes(p, "off") /\ UNCHANGED <<journal, files>> /\ Registration
\* the sync of its directory fails: the catch writes the journal again
SyncFails(p) ==
  /\ pc[p] = "removed" /\ journal' = "preparation-failed"
  /\ Goes(p, "off") /\ UNCHANGED files /\ Registration

\* the file a run was writing when it stopped; a tree is renamed into place
Torn(p) ==
  \/ files' = files
  \/ /\ step[p] < End /\ Order[step[p]] \in Kept \cup Chain
     /\ ~Exists(Order[step[p]], plan[p])
     /\ files' = files \cup {Spoiled(Path(Order[step[p]], plan[p]), plan[p])}
\* the catch of the transaction
Fail(p) ==
  /\ pc[p] = "making" /\ Torn(p) /\ journal' = "preparation-failed"
  /\ Goes(p, "off") /\ Registration

Die(p) ==
  /\ pc[p] # "off" /\ (IF pc[p] = "making" THEN Torn(p) ELSE UNCHANGED files)
  /\ Goes(p, "off") /\ UNCHANGED journal /\ Registration

\* the registration is still the one the plan was reviewed against
RereadAnyway(p) ==
  /\ pc[p] = "switch" /\ current' = [current EXCEPT ![p] = Live] /\ pc' = [pc EXCEPT ![p] = "read"]
  /\ UNCHANGED <<journal, files, head, step, plan, runs>> /\ Registration
Reread(p) ==
  /\ pc[p] = "switch" /\ current' = [current EXCEPT ![p] = Live] /\ Registered(p)
  /\ pc' = [pc EXCEPT ![p] = "read"]
  /\ UNCHANGED <<journal, files, head, step, plan, runs>> /\ Registration

\* a switch that does not read the receipts
CheckTrees(p) ==
  /\ pc[p] = "read" /\ Ready(Trees \cup Pinned, plan[p])
  /\ Goes(p, "launcher") /\ UNCHANGED <<journal, files>> /\ Registration
Check(p) ==
  /\ pc[p] = "read"
  /\ Stored(plan[p]) /\ Ready({"old-launcher", "old-manifest"} \cup Trees \cup Pinned, plan[p])
  /\ Goes(p, "launcher") /\ UNCHANGED <<journal, files>> /\ Registration

\* neither write looks at what it replaces
SetLauncher(p) ==
  /\ pc[p] = "launcher" /\ launcher' = "v2"
  /\ Goes(p, "manifest") /\ UNCHANGED <<journal, files, manifest>>
SetManifest(p) ==
  /\ pc[p] = "manifest" /\ manifest' = "v2"
  /\ Goes(p, "off") /\ UNCHANGED <<journal, files, launcher>>

(* What happens around the command. *)
Own == UNCHANGED <<journal, pc, step, plan, current, runs>>
Commit == head < MaxCommit /\ head' = head + 1 /\ UNCHANGED files /\ Own /\ Registration
\* the old installer registers again, at any time
Reregister ==
  /\ launcher = "v1" /\ launcher' = "v1-moved"
  /\ UNCHANGED <<files, head, manifest>> /\ Own
\* a prepared tree or pin changes between two runs
Drift ==
  /\ \A p \in Installer : pc[p] = "off"
  /\ \E f \in files : /\ f.whole /\ f.path.name \in Trees \cup Pinned
                      /\ files' = (files \ {f}) \cup {Spoiled(f.path, f.plan)}
  /\ UNCHANGED head /\ Own /\ Registration

Next ==
  \/ \E p \in Installer :
       \/ Start(p, "migrate") \/ Start(p, "switch")
       \/ Clear(p) \/ Journal(p) \/ Make(p) \/ Verify(p)
       \/ RemoveJournal(p) \/ Finish(p) \/ SyncFails(p) \/ Fail(p) \/ Die(p)
       \/ Reread(p) \/ Check(p) \/ SetLauncher(p) \/ SetManifest(p)
  \/ Commit \/ Reregister \/ Drift

Spec == Init /\ [][Next]_vars

-----------------------------------------------------------------------------
(* Two migrations never work at once, and while one does a journal stands: *)
(* no loser of the creation and no late run removes it.                    *)
OneAtWork ==
  /\ \A p, q \in Working : p = q
  /\ Working # {} => journal # "none"

(* Whatever is half switched can be taken back: once a part of the         *)
(* registration is new, a finished preparation keeps the whole old one.    *)
WayBack ==
  (launcher = "v2" \/ manifest = "v2") =>
    \E pl \in Plan : /\ Ready(Kept \cup Chain, pl)
                     /\ pl.launcher # "v2" /\ pl.manifest = "v1"

(* A switch that has passed its checks stands over a plan all of whose     *)
(* files are in place and whose kept copy is of the registration that this *)
(* run read last (line 412): what changed since the review, at any moment  *)
(* before that reading, stops it.  What changes behind the reading nobody  *)
(* sees: the next process to register replaces it unseen.                  *)
Prepared(pl) == Ready(Kept \cup Chain \cup Trees \cup Pinned, pl)
SwitchesPrepared ==
  \A p \in Installer : pc[p] = "launcher" =>
    \E pl \in Plan : /\ Prepared(pl)
                      /\ current[p] = [launcher |-> pl.launcher, manifest |-> pl.manifest]

(* What a switch replaces is kept, before it begins and whenever it dies.  *)
Recoverable == WayBack /\ SwitchesPrepared

(* What a preparation finished is never written again by a later or a      *)
(* racing one.                                                             *)
PreparedStays ==
  [][Working # {} => \A f \in files : (f.whole /\ Stored(f.plan)) => f \in files']_vars

(* A registration left half switched is never written over by a retry: a   *)
(* run that reads one goes no further than its checks, since no later plan *)
(* can be prepared and no earlier plan fits it.                            *)
Half(r) == r.launcher = "v2" /\ r.manifest # "v2"
HalfIsLeft == \A p \in Installer : pc[p] \in {"launcher", "manifest"} => ~Half(current[p])

(* docs/migration-runbook.md: a journal that remains when no run works      *)
(* means an interrupted migration and an unchanged original registration.  *)
JournalMeansOld == (journal # "none" /\ Working = {}) => launcher # "v2" /\ manifest = "v1"
=============================================================================
