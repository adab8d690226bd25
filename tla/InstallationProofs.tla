------------------------- MODULE InstallationProofs -------------------------
(***************************************************************************)
(* What install_life checks on two processes, for any number of them, of   *)
(* commits and of runs.  The argument: a file of the custody or of the     *)
(* receipts is created exclusively and never removed; the last receipt is  *)
(* written only behind all the others; and a run that finds the trusted    *)
(* tree, which every finished preparation leaves, stops before it writes   *)
(* anything that replaces.                                                 *)
(***************************************************************************)
EXTENDS Installation, TLAPS

\* what the code creates exclusively and reads back
Custody == Kept \cup Chain
Trusted == \E f \in files : f.path.name = "trusted"
\* how a preparation ends behind its last receipt
Ends(p) == RemoveJournal(p) \/ Finish(p) \/ SyncFails(p)
OldPlan(pl) == pl.launcher # "v2" /\ pl.manifest = "v1"
Sealed(pl) == Holds("after-hash", pl) \in files

(* Where each file comes from: a plan over the old registration.            *)
FilesOfPlans == \A f \in files : /\ f.path.name \in Name /\ f.path = Path(f.path.name, f.plan)
                                 /\ OldPlan(f.plan)
(* The last receipt stands over all the others and over the trusted tree.   *)
SealedIsWhole == \A pl \in Plan : Sealed(pl) => Ready(Custody, pl) /\ Trusted
NewHasTrusted == (launcher = "v2" \/ manifest = "v2") => Trusted
MakesOverOld  == \A p \in Installer : pc[p] \in {"clear", "making"} => OldPlan(plan[p])
(* A running preparation has what it has made; once it has made the trusted *)
(* tree no preparation is finished.                                         *)
HasMade == \A p \in Installer : pc[p] = "making" =>
  /\ \A k \in 1 .. step[p] - 1 : Order[k] \in Custody => Holds(Order[k], plan[p]) \in files
  /\ step[p] > 7 => Trusted
NoneSealed == \A p \in Installer : pc[p] = "making" /\ step[p] \in 8 .. 17 =>
  \A pl \in Plan : ~Sealed(pl)
(* A switch that passed its checks read the registration of its plan, and   *)
(* still stands on the files it checked.                                    *)
Of(pl) == [launcher |-> pl.launcher, manifest |-> pl.manifest]
ChecksHold == \A p \in Installer :
  /\ pc[p] \in {"read", "launcher", "manifest"} => current[p] = Of(plan[p])
  /\ pc[p] \in {"launcher", "manifest"} => Stored(plan[p])
  /\ pc[p] = "launcher" => Ready(Custody \cup Trees \cup Pinned, plan[p])
  /\ pc[p] = "manifest" => launcher = "v2"

Inductive == /\ TypeOK /\ OneAtWork /\ FilesOfPlans /\ SealedIsWhole /\ NewHasTrusted
             /\ MakesOverOld /\ HasMade /\ NoneSealed /\ ChecksHold /\ WayBack

(* The order of the artifacts: the trusted tree is the seventh, everything  *)
(* that replaces comes after it, the last receipt is the last.              *)
LEMMA OrderFacts ==
  /\ End = 18 /\ Order[7] = "trusted" /\ Order[17] = "after-hash"
  /\ \A k \in 1 .. 17 : /\ Order[k] \in Name \cup {"verify"}
                        /\ Order[k] = "after-hash" => k = 17
                        /\ Order[k] \in Pinned => k \in 8 .. 17
  /\ \A n \in Custody : \E k \in 1 .. 17 : Order[k] = n
  <1>1. End = 18 /\ Order[7] = "trusted" /\ Order[17] = "after-hash"
    BY DEF End, Order
  <1>2. ASSUME NEW k \in 1 .. 17
        PROVE  /\ Order[k] \in Name \cup {"verify"}
               /\ Order[k] = "after-hash" => k = 17
               /\ Order[k] \in Pinned => k \in 8 .. 17
    BY <1>2 DEF Order, Name, Kept, Chain, Trees, Pinned
  <1>3. \A n \in Custody : n \in {Order[2], Order[3], Order[4], Order[5], Order[6], Order[13],
                                 Order[14], Order[16], Order[17]}
    BY DEF Order, Custody, Kept, Chain
  <1>. QED
    BY <1>1, <1>2, <1>3

(* The file of a name and a plan has that name, and is of that plan.        *)
LEMMA HoldsFields ==
  \A n, pl : /\ Holds(n, pl).path = Path(n, pl) /\ Holds(n, pl).plan = pl /\ Holds(n, pl).whole
             /\ Path(n, pl).name = n
  BY DEF Holds, Path

-----------------------------------------------------------------------------
File == [path : {Path(n, pl) : n \in Name, pl \in Plan}, plan : Plan, whole : BOOLEAN]

(* A file of a name and a plan, whole or torn, is a file.                   *)
LEMMA FilesAreTyped ==
  ASSUME NEW n \in Name, NEW pl \in Plan
  PROVE  /\ Holds(n, pl) \in File
         /\ Spoiled(Path(n, pl), pl) \in File
  <1>1. Path(n, pl) \in {Path(m, q) : m \in Name, q \in Plan}
    OBVIOUS
  <1>. QED
    BY <1>1 DEF Holds, Spoiled, File

(* What a run that stops leaves: the files, and perhaps one torn file where *)
(* there was none.                                                          *)
LEMMA TornAdds ==
  ASSUME TypeOK, NEW p \in Installer, Torn(p)
  PROVE  \/ files' = files
         \/ \E f \in File : /\ files' = files \cup {f} /\ ~f.whole
                            /\ step[p] < End /\ f.path.name = Order[step[p]] /\ f.path.name \in Custody
                            /\ f.plan = plan[p] /\ f.path = Path(f.path.name, f.plan)
                            /\ \A g \in files : g.path # f.path
  <1> SUFFICES ASSUME step[p] < End, Order[step[p]] \in Custody,
                      ~Exists(Order[step[p]], plan[p]),
                      files' = files \cup {Spoiled(Path(Order[step[p]], plan[p]), plan[p])}
               PROVE  \E f \in File : /\ files' = files \cup {f} /\ ~f.whole
                            /\ step[p] < End /\ f.path.name = Order[step[p]] /\ f.path.name \in Custody
                            /\ f.plan = plan[p] /\ f.path = Path(f.path.name, f.plan)
                            /\ \A g \in files : g.path # f.path
    BY DEF Torn, Custody
  <1> DEFINE n == Order[step[p]]
             f == Spoiled(Path(n, plan[p]), plan[p])
  <1>1. n \in Name /\ plan[p] \in Plan
    BY DEF TypeOK, Name, Custody
  <1>2. f \in File /\ f.path = Path(n, plan[p]) /\ f.plan = plan[p] /\ ~f.whole
    BY <1>1, FilesAreTyped DEF Spoiled
  <1>3. f.path.name = n
    BY <1>2, HoldsFields
  <1>4. \A g \in files : g.path # f.path
    BY <1>2 DEF Exists
  <1>. QED
    BY <1>2, <1>3, <1>4

(* What a preparation's next artifact changes: nothing of the custody, of   *)
(* the receipts or of the trees, and no path is lost.                       *)
LEMMA MakeKeeps ==
  ASSUME TypeOK, NEW p \in Installer, Make(p)
  PROVE  LET n == Order[step[p]] IN
         /\ n \in Name /\ plan[p] \in Plan /\ step[p] \in 1 .. 17
         /\ files' \subseteq files \cup {Holds(n, plan[p])}
         /\ n # "home" => Holds(n, plan[p]) \in files'
         /\ \A f \in files : f \notin files' => f.path = Path(n, plan[p]) /\ n \in Pinned
         /\ n \notin {"home"} \cup Pinned => \A f \in files : f.path # Path(n, plan[p])
         /\ \A f \in files' : f \in files \/ f = Holds(n, plan[p])
         /\ \A f \in files : f.path = Path(n, plan[p]) =>
               f \notin files' \/ n = "home" \/ f = Holds(n, plan[p])
  <1> DEFINE n == Order[step[p]]
  <1>1. n \in Name /\ plan[p] \in Plan /\ step[p] \in 1 .. 17
    BY OrderFacts DEF Make, MayMake, TypeOK
  <1>2. CASE n = "home" /\ Exists(n, plan[p])
    <2>1. files' = files
      BY <1>2 DEF Make
    <2>2. "home" \notin Pinned
      BY DEF Pinned
    <2>. QED
      BY <1>1, <1>2, <2>1, <2>2
  <1>3. CASE ~(n = "home" /\ Exists(n, plan[p]))
    <2>1. files' = Without(n, plan[p]) \cup {Holds(n, plan[p])}
      BY <1>3 DEF Make
    <2>2. n \notin Pinned => \A f \in files : f.path # Path(n, plan[p])
      BY <1>3 DEF Make, MayMake, Exists
    <2>. QED
      BY <1>1, <2>1, <2>2, HoldsFields DEF Without
  <1>. QED
    BY <1>2, <1>3

(* A file of the custody or of the receipts, once there, stays as it is;    *)
(* every path stays in use.                                                 *)
LEMMA FilesStay ==
  ASSUME TypeOK, [Next]_vars
  PROVE  /\ \A f \in files : f.path.name \in Custody => f \in files'
         /\ \A f \in files : \E g \in files' : g.path = f.path
  <1> USE DEF Registration, Goes, Own
  <1>1. ASSUME files' = files \/ (\E f : files' = files \cup {f})
        PROVE  /\ \A f \in files : f.path.name \in Custody => f \in files'
               /\ \A f \in files : \E g \in files' : g.path = f.path
    BY <1>1
  <1>2. ASSUME NEW p \in Installer,
               \/ Start(p, "migrate") \/ Start(p, "switch") \/ Clear(p) \/ Journal(p) \/ Verify(p)
               \/ Ends(p) \/ Reread(p) \/ Check(p) \/ SetLauncher(p) \/ SetManifest(p)
        PROVE  files' = files
    BY <1>2 DEF Start, Clear, Journal, Verify, Ends, RemoveJournal, Finish, SyncFails, Reread,
                Check, SetLauncher, SetManifest
  <1>3. ASSUME NEW p \in Installer, Make(p)
        PROVE  /\ \A f \in files : f.path.name \in Custody => f \in files'
               /\ \A f \in files : \E g \in files' : g.path = f.path
    <2> DEFINE n == Order[step[p]]
    <2>1. \A f \in files : f \notin files' => f.path = Path(n, plan[p]) /\ n \in Pinned
      BY <1>3, MakeKeeps
    <2>2. n # "home" => Holds(n, plan[p]) \in files'
      BY <1>3, MakeKeeps
    <2>3. Pinned \cap Custody = {} /\ "home" \notin Pinned
      BY DEF Pinned, Custody, Kept, Chain
    <2>. QED
      BY <2>1, <2>2, <2>3, HoldsFields
  <1>4. ASSUME NEW p \in Installer, Fail(p) \/ Die(p)
        PROVE  files' = files \/ (\E f : files' = files \cup {f})
    BY <1>4, TornAdds DEF Fail, Die
  <1>5. CASE Drift
    <2>1. PICK f \in files : /\ f.path.name \in Trees \cup Pinned
                             /\ files' = (files \ {f}) \cup {Spoiled(f.path, f.plan)}
      BY <1>5 DEF Drift
    <2>2. f.path.name \notin Custody
      BY <2>1 DEF Trees, Pinned, Custody, Kept, Chain
    <2>3. Spoiled(f.path, f.plan) \in files' /\ Spoiled(f.path, f.plan).path = f.path
      BY <2>1 DEF Spoiled
    <2>4. \A g \in files : g # f => g \in files'
      BY <2>1
    <2>. QED
      BY <2>2, <2>3, <2>4
  <1>6. CASE Commit \/ Reregister \/ UNCHANGED vars
    BY <1>1, <1>6 DEF Commit, Reregister, vars
  <1>. QED
    BY <1>1, <1>2, <1>3, <1>4, <1>5, <1>6 DEF Next, Ends

(* What one plan has ready of the custody and of the receipts stays ready.  *)
LEMMA ReadyStays ==
  ASSUME TypeOK, [Next]_vars
  PROVE  /\ \A pl \in Plan : /\ Ready(Custody, pl) => Ready(Custody, pl)'
                             /\ Stored(pl) => Stored(pl)'
         /\ Trusted => Trusted'
  <1>1. \A n \in Custody, pl \in Plan : Holds(n, pl) \in files => Holds(n, pl) \in files'
    BY FilesStay, HoldsFields
  <1>2. Chain \subseteq Custody
    BY DEF Custody
  <1>3. Trusted => Trusted'
    BY FilesStay DEF Trusted
  <1>. QED
    BY <1>1, <1>2, <1>3 DEF Ready, Stored

(* The types of one step.                                                   *)
LEMMA TypeStep ==
  ASSUME TypeOK, [Next]_vars
  PROVE  TypeOK'
  <1> USE InstallationAssumption DEF Registration, Goes, Own
  <1> DEFINE Others == /\ journal \in {"none", "preparation-started", "preparation-failed"}
                       /\ launcher \in Launcher /\ manifest \in Manifest /\ head \in 1 .. MaxCommit
                       /\ pc \in [Installer -> {"off", "migrate", "clear", "making", "removed",
                                                "switch", "read", "launcher", "manifest"}]
                       /\ step \in [Installer -> 1 .. End] /\ plan \in [Installer -> Plan]
                       /\ current \in [Installer -> Registrations] /\ runs \in 0 .. MaxRun
             Files == files \subseteq File /\ \A f, g \in files : f.path = g.path => f = g
  <1>1. Others /\ Files
    BY DEF TypeOK, File
  <1>2. Others'
    <2> USE <1>1
    <2>1. CASE Commit \/ Reregister \/ Drift \/ UNCHANGED vars
      BY <2>1 DEF Commit, Reregister, Drift, vars, Launcher
    <2>2. ASSUME NEW p \in Installer, Start(p, "migrate") \/ Start(p, "switch")
          PROVE  Others'
      <3>1. Current \in Plan /\ Live \in Registrations
        BY DEF Current, Live, Registrations, Plan
      <3>2. runs' \in 0 .. MaxRun
        BY <2>2 DEF Start
      <3>. QED
        BY <2>2, <3>1, <3>2 DEF Start
    <2>3. ASSUME NEW p \in Installer, Make(p) \/ Verify(p)
          PROVE  Others'
      BY <2>3, OrderFacts DEF Make, Verify, Advance
    <2>4. ASSUME NEW p \in Installer, Clear(p) \/ Journal(p) \/ Ends(p) \/ Fail(p) \/ Die(p)
          PROVE  Others'
      BY <2>4, OrderFacts DEF Clear, Journal, Ends, RemoveJournal, Finish, SyncFails, Fail, Die
    <2>5. ASSUME NEW p \in Installer, Reread(p) \/ Check(p) \/ SetLauncher(p) \/ SetManifest(p)
          PROVE  Others'
      BY <2>5 DEF Reread, Check, Live, Registrations, SetLauncher, SetManifest,
                  Launcher, Manifest
    <2>. QED
      BY <2>1, <2>2, <2>3, <2>4, <2>5 DEF Next, Ends
  <1>3. Files'
    <2>1. CASE files' = files
      BY <1>1, <2>1
    <2>2. ASSUME NEW p \in Installer, Make(p)
          PROVE  Files'
      <3> DEFINE n == Order[step[p]]
      <3>1. /\ n \in Name /\ plan[p] \in Plan
            /\ \A f \in files' : f \in files \/ f = Holds(n, plan[p])
            /\ \A f \in files : f.path = Path(n, plan[p]) =>
                  f \notin files' \/ n = "home" \/ f = Holds(n, plan[p])
        BY <2>2, MakeKeeps
      <3>2. n # "home" => Files'
        BY <1>1, <3>1, FilesAreTyped, HoldsFields
      <3>3. n = "home" => Files'
        BY <1>1, <2>2, <3>1, FilesAreTyped, HoldsFields DEF Make, Exists, Without
      <3>. QED
        BY <3>2, <3>3
    <2>3. ASSUME NEW p \in Installer, Fail(p) \/ Die(p)
          PROVE  Files'
      BY <1>1, <2>1, <2>3, TornAdds DEF Fail, Die
    <2>4. CASE Drift
      <3>1. PICK f \in files : files' = (files \ {f}) \cup {Spoiled(f.path, f.plan)}
        BY <2>4 DEF Drift
      <3>2. Spoiled(f.path, f.plan) \in File /\ Spoiled(f.path, f.plan).path = f.path
        BY <1>1 DEF Spoiled, File
      <3>. QED
        BY <1>1, <3>1, <3>2
    <2>5. CASE Commit \/ Reregister \/ UNCHANGED vars
      BY <2>1, <2>5 DEF Commit, Reregister, vars
    <2>6. ASSUME NEW p \in Installer,
                 \/ Start(p, "migrate") \/ Start(p, "switch") \/ Clear(p) \/ Journal(p) \/ Verify(p)
                 \/ Ends(p) \/ Reread(p) \/ Check(p) \/ SetLauncher(p) \/ SetManifest(p)
          PROVE  Files'
      BY <2>1, <2>6 DEF Start, Clear, Journal, Verify, Ends, RemoveJournal, Finish, SyncFails,
                        Reread, Check, SetLauncher, SetManifest
    <2>. QED
      BY <2>2, <2>3, <2>4, <2>5, <2>6 DEF Next, Ends
  <1>. QED
    BY <1>2, <1>3 DEF TypeOK, File

-----------------------------------------------------------------------------
(* One preparation at a time: its journal is created exclusively and taken  *)
(* away only by the run at work; a sync that fails only puts one in place.  *)
LEMMA OneAtWorkStep ==
  ASSUME TypeOK, OneAtWork, [Next]_vars
  PROVE  OneAtWork'
  <1> USE DEF Registration, Goes, Own, OneAtWork, Working, TypeOK
  <1>1. ASSUME NEW p \in Installer, Journal(p)
        PROVE  OneAtWork'
    BY <1>1 DEF Journal
  <1>2. ASSUME NEW p \in Installer, Make(p) \/ Verify(p)
        PROVE  OneAtWork'
    BY <1>2 DEF Make, Verify
  <1>3. ASSUME NEW p \in Installer, Ends(p) \/ Fail(p)
        PROVE  OneAtWork'
    BY <1>3 DEF Ends, RemoveJournal, Finish, SyncFails, Fail
  <1>4. ASSUME NEW p \in Installer,
               \/ Start(p, "migrate") \/ Start(p, "switch") \/ Clear(p) \/ Die(p)
               \/ Reread(p) \/ Check(p) \/ SetLauncher(p) \/ SetManifest(p)
        PROVE  OneAtWork'
    BY <1>4 DEF Start, Clear, Die, Reread, Check, SetLauncher, SetManifest
  <1>5. CASE Commit \/ Reregister \/ Drift \/ UNCHANGED vars
    BY <1>5 DEF Commit, Reregister, Drift, vars
  <1>. QED
    BY <1>1, <1>2, <1>3, <1>4, <1>5 DEF Next, Ends

(* Where a new file may come from: it is the next artifact of a run at      *)
(* work, whole or torn, or a spoiled tree or pin.                           *)
LEMMA NewFiles ==
  ASSUME TypeOK, [Next]_vars
  PROVE  \A f \in files' \ files :
           \/ \E p \in Installer : /\ pc[p] = "making" /\ step[p] < End
                                   /\ f.plan = plan[p] /\ f.path = Path(f.path.name, f.plan)
                                   /\ f.path.name = Order[step[p]] /\ f.path.name \in Name
                                   /\ f.whole => Make(p)
           \/ \E g \in files : f.path = g.path /\ f.plan = g.plan /\ ~f.whole
  <1> TAKE f \in files' \ files
  <1> USE DEF Registration, Goes, Own
  <1>1. ASSUME NEW p \in Installer, Make(p)
        PROVE  /\ pc[p] = "making" /\ step[p] < End
               /\ f.plan = plan[p] /\ f.path = Path(f.path.name, f.plan)
               /\ f.path.name = Order[step[p]] /\ f.path.name \in Name
    <2>1. f = Holds(Order[step[p]], plan[p]) /\ Order[step[p]] \in Name
      BY <1>1, MakeKeeps
    <2>2. pc[p] = "making" /\ step[p] < End
      BY <1>1 DEF Make
    <2>. QED
      BY <2>1, <2>2, HoldsFields
  <1>2. ASSUME NEW p \in Installer, Fail(p) \/ Die(p)
        PROVE  /\ pc[p] = "making" /\ step[p] < End
               /\ f.plan = plan[p] /\ f.path = Path(f.path.name, f.plan)
               /\ f.path.name = Order[step[p]] /\ f.path.name \in Name /\ ~f.whole
    <2>1. pc[p] = "making" /\ Torn(p)
      BY <1>2 DEF Fail, Die
    <2>2. Custody \subseteq Name
      BY DEF Custody, Name
    <2>. QED
      BY <2>1, <2>2, TornAdds
  <1>3. CASE Drift
    BY <1>3 DEF Drift, Spoiled
  <1>4. ASSUME \/ Commit \/ Reregister \/ UNCHANGED vars
               \/ \E p \in Installer :
                    \/ Start(p, "migrate") \/ Start(p, "switch") \/ Clear(p) \/ Journal(p)
                    \/ Verify(p) \/ Ends(p) \/ Reread(p) \/ Check(p) \/ SetLauncher(p) \/ SetManifest(p)
        PROVE  FALSE
    BY <1>4 DEF Commit, Reregister, vars, Start, Clear, Journal, Verify, Ends, RemoveJournal,
                Finish, SyncFails, Reread, Check, SetLauncher, SetManifest
  <1>. QED
    BY <1>1, <1>2, <1>3, <1>4 DEF Next, Ends

(* Each file is of a plan over the old registration.                        *)
LEMMA FilesOfPlansStep ==
  ASSUME TypeOK, FilesOfPlans, MakesOverOld, [Next]_vars
  PROVE  FilesOfPlans'
  <1> SUFFICES ASSUME NEW f \in files', f \notin files
               PROVE  f.path.name \in Name /\ f.path = Path(f.path.name, f.plan) /\ OldPlan(f.plan)
    BY DEF FilesOfPlans
  <1>1. CASE \E p \in Installer : /\ pc[p] = "making" /\ f.plan = plan[p]
                                  /\ f.path = Path(f.path.name, f.plan) /\ f.path.name \in Name
    BY <1>1 DEF MakesOverOld
  <1>2. CASE \E g \in files : f.path = g.path /\ f.plan = g.plan /\ ~f.whole
    BY <1>2 DEF FilesOfPlans
  <1>. QED
    BY <1>1, <1>2, NewFiles

(* The last receipt is written over all the others.                         *)
LEMMA SealedStep ==
  ASSUME TypeOK, FilesOfPlans, SealedIsWhole, HasMade, [Next]_vars
  PROVE  SealedIsWhole'
  <1> SUFFICES ASSUME NEW pl \in Plan, Sealed(pl)'
               PROVE  Ready(Custody, pl)' /\ Trusted'
    BY DEF SealedIsWhole
  <1> DEFINE f == Holds("after-hash", pl)
  <1>1. CASE f \in files
    BY <1>1, ReadyStays DEF SealedIsWhole, Sealed
  <1>2. CASE f \notin files
    <2>1. f.whole /\ f.plan = pl /\ f.path.name = "after-hash" /\ f \in files'
      BY HoldsFields DEF Sealed
    <2>2. PICK p \in Installer : /\ pc[p] = "making" /\ step[p] < End /\ plan[p] = pl
                                 /\ Order[step[p]] = "after-hash"
      BY <1>2, <2>1, NewFiles
    <2>3. step[p] = 17
      BY <2>2, OrderFacts DEF TypeOK
    <2>4. Trusted'
      BY <2>2, <2>3, ReadyStays DEF HasMade
    <2>5. ASSUME NEW n \in Custody
          PROVE  Holds(n, pl) \in files'
      <3>1. CASE n = "after-hash"
        BY <2>1, <3>1
      <3>2. CASE n # "after-hash"
        <4>1. PICK k \in 1 .. 17 : Order[k] = n /\ k # 17
          BY <2>5, <3>2, OrderFacts
        <4>2. Holds(n, pl) \in files
          BY <2>2, <2>3, <4>1, <2>5 DEF HasMade
        <4>. QED
          BY <4>2, FilesStay, HoldsFields
      <3>. QED
        BY <3>1, <3>2
    <2>. QED
      BY <2>4, <2>5 DEF Ready
  <1>. QED
    BY <1>1, <1>2

(* A finished preparation has its last receipt and the plan's registration  *)
(* is an old one; whatever is trusted stands in every plan's way.           *)
LEMMA StoredIsSealed ==
  ASSUME TypeOK, FilesOfPlans, SealedIsWhole, NEW pl \in Plan, Stored(pl)
  PROVE  Sealed(pl) /\ Ready(Custody, pl) /\ Trusted /\ OldPlan(pl)
  <1>1. Sealed(pl)
    BY DEF Stored, Ready, Sealed, Chain
  <1>2. Ready(Custody, pl) /\ Trusted
    BY <1>1 DEF SealedIsWhole
  <1>3. OldPlan(pl)
    BY <1>1, HoldsFields DEF Sealed, FilesOfPlans
  <1>. QED
    BY <1>1, <1>2, <1>3

(* Whoever made it, the trusted tree is where every plan would put it.      *)
LEMMA TrustedIsFound ==
  ASSUME FilesOfPlans, Trusted, NEW pl
  PROVE  Exists("trusted", pl)
  <1>1. PICK f \in files : f.path.name = "trusted"
    BY DEF Trusted
  <1>2. f.path = Path("trusted", f.plan)
    BY <1>1 DEF FilesOfPlans
  <1>3. Path("trusted", f.plan) = Path("trusted", pl)
    BY DEF Path, Kept, Chain
  <1>. QED
    BY <1>2, <1>3 DEF Exists

(* Only the switch brings the new registration, and only over a finished    *)
(* preparation.                                                             *)
LEMMA RegistrationSteps ==
  ASSUME TypeOK, ChecksHold, [Next]_vars
  PROVE  \/ launcher' = launcher /\ manifest' = manifest
         \/ launcher = "v1" /\ launcher' = "v1-moved" /\ manifest' = manifest
         \/ \E p \in Installer : Stored(plan[p]) /\ launcher' = "v2"
  <1> USE DEF Registration, Goes, Own
  <1>1. ASSUME NEW p \in Installer, SetLauncher(p) \/ SetManifest(p)
        PROVE  Stored(plan[p]) /\ launcher' = "v2"
    BY <1>1 DEF SetLauncher, SetManifest, ChecksHold
  <1>2. ASSUME NEW p \in Installer,
               \/ Start(p, "migrate") \/ Start(p, "switch") \/ Clear(p) \/ Journal(p) \/ Make(p)
               \/ Verify(p) \/ Ends(p) \/ Fail(p) \/ Die(p) \/ Reread(p) \/ Check(p)
        PROVE  launcher' = launcher /\ manifest' = manifest
    BY <1>2 DEF Start, Clear, Journal, Make, Verify, Ends, RemoveJournal, Finish, SyncFails,
                Fail, Die, Reread, Check
  <1>3. CASE Commit \/ Reregister \/ Drift \/ UNCHANGED vars
    BY <1>3 DEF Commit, Reregister, Drift, vars
  <1>. QED
    BY <1>1, <1>2, <1>3 DEF Next, Ends

(* The new registration stands beside the trusted tree.                     *)
LEMMA NewHasTrustedStep ==
  ASSUME TypeOK, FilesOfPlans, SealedIsWhole, NewHasTrusted, ChecksHold, [Next]_vars
  PROVE  NewHasTrusted'
  <1>1. CASE \E p \in Installer : Stored(plan[p])
    BY <1>1, StoredIsSealed, ReadyStays DEF NewHasTrusted, TypeOK
  <1>2. CASE ~\E p \in Installer : Stored(plan[p])
    BY <1>2, RegistrationSteps, ReadyStays DEF NewHasTrusted
  <1>. QED
    BY <1>1, <1>2

(* The old registration can be taken back.                                  *)
LEMMA WayBackStep ==
  ASSUME TypeOK, FilesOfPlans, SealedIsWhole, ChecksHold, WayBack, [Next]_vars
  PROVE  WayBack'
  <1>1. ASSUME NEW pl \in Plan, Ready(Custody, pl), OldPlan(pl)
        PROVE  WayBack'
    BY <1>1, ReadyStays DEF WayBack, OldPlan, Custody
  <1>2. CASE \E p \in Installer : Stored(plan[p])
    BY <1>1, <1>2, StoredIsSealed DEF TypeOK
  <1>3. CASE ~\E p \in Installer : Stored(plan[p])
    BY <1>1, <1>3, RegistrationSteps DEF WayBack, OldPlan, Custody
  <1>. QED
    BY <1>2, <1>3

(* A preparation works from a registration that is still the old one.       *)
LEMMA MakesOverOldStep ==
  ASSUME TypeOK, FilesOfPlans, NewHasTrusted, MakesOverOld, [Next]_vars
  PROVE  MakesOverOld'
  <1> USE DEF Registration, Goes, Own, TypeOK
  <1>1. ASSUME NEW p \in Installer, Clear(p)
        PROVE  MakesOverOld'
    <2>1. Registered(p) /\ ~Exists("trusted", plan[p])
      BY <1>1 DEF Clear, Name, Trees
    <2>2. OldPlan(plan[p])
      BY <2>1, TrustedIsFound DEF Registered, NewHasTrusted, OldPlan, Manifest
    <2>. QED
      BY <1>1, <2>2 DEF Clear, MakesOverOld, OldPlan
  <1>2. ASSUME NEW p \in Installer, Start(p, "migrate") \/ Start(p, "switch")
        PROVE  MakesOverOld'
    BY <1>2 DEF Start, MakesOverOld, OldPlan
  <1>3. ASSUME NEW p \in Installer,
               \/ Journal(p) \/ Make(p) \/ Verify(p) \/ Ends(p) \/ Fail(p) \/ Die(p)
               \/ Reread(p) \/ Check(p) \/ SetLauncher(p) \/ SetManifest(p)
        PROVE  MakesOverOld'
    BY <1>3 DEF Journal, Make, Verify, Ends, RemoveJournal, Finish, SyncFails, Fail, Die,
                Reread, Check, SetLauncher, SetManifest, MakesOverOld, OldPlan
  <1>4. CASE Commit \/ Reregister \/ Drift \/ UNCHANGED vars
    BY <1>4 DEF Commit, Reregister, Drift, vars, MakesOverOld, OldPlan
  <1>. QED
    BY <1>1, <1>2, <1>3, <1>4 DEF Next, Ends

(* How a run comes to be at work, or goes on.                               *)
LEMMA MakingSteps ==
  ASSUME TypeOK, [Next]_vars
  PROVE  \A p \in Installer : pc'[p] = "making" =>
           \/ step'[p] = 1
           \/ /\ pc[p] = "making" /\ plan'[p] = plan[p]
              /\ \/ step'[p] = step[p]
                 \/ step'[p] = step[p] + 1 /\ (Make(p) \/ Verify(p))
  <1> USE DEF Registration, Goes, Own, TypeOK
  <1> TAKE p \in Installer
  <1> HAVE pc'[p] = "making"
  <1>1. ASSUME NEW q \in Installer, Make(q) \/ Verify(q)
        PROVE  /\ pc[p] = "making" /\ plan'[p] = plan[p]
               /\ \/ step'[p] = step[p]
                  \/ step'[p] = step[p] + 1 /\ (Make(p) \/ Verify(p))
    BY <1>1 DEF Make, Verify, Advance
  <1>2. ASSUME NEW q \in Installer, Journal(q)
        PROVE  step'[p] = 1 \/ (pc[p] = "making" /\ plan'[p] = plan[p] /\ step'[p] = step[p])
    BY <1>2 DEF Journal
  <1>3. ASSUME NEW q \in Installer,
               \/ Start(q, "migrate") \/ Start(q, "switch") \/ Clear(q) \/ Ends(q) \/ Fail(q)
               \/ Die(q) \/ Reread(q) \/ Check(q) \/ SetLauncher(q) \/ SetManifest(q)
        PROVE  pc[p] = "making" /\ plan'[p] = plan[p] /\ step'[p] = step[p]
    BY <1>3 DEF Start, Clear, Ends, RemoveJournal, Finish, SyncFails, Fail, Die, Reread, Check,
                SetLauncher, SetManifest
  <1>4. CASE Commit \/ Reregister \/ Drift \/ UNCHANGED vars
    BY <1>4 DEF Commit, Reregister, Drift, vars
  <1>. QED
    BY <1>1, <1>2, <1>3, <1>4 DEF Next, Ends

(* A run at work keeps what it has made.                                    *)
LEMMA HasMadeStep ==
  ASSUME TypeOK, HasMade, [Next]_vars
  PROVE  HasMade'
  <1> SUFFICES ASSUME NEW p \in Installer, pc'[p] = "making"
               PROVE  /\ \A k \in 1 .. step'[p] - 1 :
                           Order[k] \in Custody => Holds(Order[k], plan'[p]) \in files'
                      /\ step'[p] > 7 => Trusted'
    BY DEF HasMade, Holds, Path, Order, Kept, Chain, Custody
  <1>1. CASE step'[p] = 1
    BY <1>1
  <1>2. CASE step'[p] # 1
    <2>1. pc[p] = "making" /\ plan'[p] = plan[p] /\ step[p] \in Nat
      BY <1>2, MakingSteps DEF TypeOK
    <2>2. /\ \A k \in 1 .. step[p] - 1 :
               Order[k] \in Custody => Holds(Order[k], plan[p]) \in files'
          /\ step[p] > 7 => Trusted'
      BY <2>1, FilesStay, ReadyStays, HoldsFields DEF HasMade
    <2>3. CASE step'[p] = step[p]
      BY <2>1, <2>2, <2>3
    <2>4. CASE step'[p] = step[p] + 1 /\ Make(p)
      <3>1. Order[step[p]] # "home" => Holds(Order[step[p]], plan[p]) \in files'
        BY <2>4, MakeKeeps
      <3>2. step[p] = 7 => Trusted'
        BY <3>1, OrderFacts, HoldsFields DEF Trusted
      <3>3. "home" \notin Custody
        BY DEF Custody, Kept, Chain
      <3>. QED
        BY <2>1, <2>2, <2>4, <3>1, <3>2, <3>3
    <2>5. CASE step'[p] = step[p] + 1 /\ Verify(p)
      <3>1. Order[step[p]] = "verify" /\ "verify" \notin Custody
        BY <2>5 DEF Verify, Custody, Kept, Chain
      <3>2. step[p] # 7
        BY <3>1, OrderFacts
      <3>. QED
        BY <2>1, <2>2, <2>5, <3>1, <3>2
    <2>. QED
      BY <1>2, <2>3, <2>4, <2>5, MakingSteps
  <1>. QED
    BY <1>1, <1>2

(* While a run works behind its trusted tree no preparation is finished:    *)
(* none was when it made the tree, and nobody else works.                   *)
LEMMA NoneSealedStep ==
  ASSUME TypeOK, OneAtWork, FilesOfPlans, SealedIsWhole, NoneSealed, [Next]_vars
  PROVE  NoneSealed'
  <1> SUFFICES ASSUME NEW p \in Installer, pc'[p] = "making", step'[p] \in 8 .. 17,
                      NEW pl \in Plan, Holds("after-hash", pl) \in files'
               PROVE  FALSE
    BY DEF NoneSealed, Sealed, Holds, Path, Kept, Chain
  <1> DEFINE f == Holds("after-hash", pl)
  <1>1. pc[p] = "making" /\ step[p] \in 1 .. 18
    BY MakingSteps, OrderFacts DEF TypeOK
  <1>2. f \notin files
    <2>1. CASE step[p] \in 8 .. 17
      BY <1>1, <2>1 DEF NoneSealed, Sealed
    <2>2. CASE step[p] \notin 8 .. 17
      <3>1. step[p] = 7 /\ (Make(p) \/ Verify(p))
        BY <1>1, <2>2, MakingSteps
      <3>2. Order[step[p]] = "trusted" /\ Make(p)
        BY <3>1, OrderFacts DEF Verify
      <3>3. ~Exists("trusted", plan[p])
        BY <3>2 DEF Make, MayMake, Pinned
      <3>4. ~Trusted
        BY <3>3, TrustedIsFound
      <3>. QED
        BY <3>4 DEF SealedIsWhole, Sealed
    <2>. QED
      BY <2>1, <2>2
  <1>3. f.whole /\ f.path.name = "after-hash"
    BY HoldsFields
  <1>4. PICK q \in Installer : pc[q] = "making" /\ step[q] < End /\ Order[step[q]] = "after-hash" /\ Make(q)
    BY <1>2, <1>3, NewFiles
  <1>5. q = p /\ step[p] = 17
    BY <1>1, <1>4, OrderFacts DEF OneAtWork, Working, TypeOK
  <1>6. step'[p] = 18
    BY <1>4, <1>5 DEF Make, Advance, TypeOK
  <1>. QED
    BY <1>6

(* A file is lost, a pin replaced or a tree changed, only while nobody runs *)
(* or no preparation is finished.                                           *)
LEMMA LosesFiles ==
  ASSUME TypeOK, NoneSealed, [Next]_vars, NEW f \in files, f \notin files'
  PROVE  (\A p \in Installer : pc[p] = "off") \/ (\A pl \in Plan : ~Sealed(pl))
  <1> USE DEF Registration, Goes, Own
  <1>1. ASSUME NEW q \in Installer, Make(q)
        PROVE  \A pl \in Plan : ~Sealed(pl)
    <2>1. Order[step[q]] \in Pinned /\ step[q] \in 1 .. 17
      BY <1>1, MakeKeeps
    <2>2. pc[q] = "making" /\ step[q] \in 8 .. 17
      BY <1>1, <2>1, OrderFacts DEF Make
    <2>. QED
      BY <2>2 DEF NoneSealed
  <1>2. ASSUME NEW q \in Installer, Fail(q) \/ Die(q)
        PROVE  files \subseteq files'
    BY <1>2, TornAdds DEF Fail, Die
  <1>3. ASSUME \/ Commit \/ Reregister \/ UNCHANGED vars
               \/ \E q \in Installer :
                    \/ Start(q, "migrate") \/ Start(q, "switch") \/ Clear(q) \/ Journal(q)
                    \/ Verify(q) \/ Ends(q) \/ Reread(q) \/ Check(q) \/ SetLauncher(q) \/ SetManifest(q)
        PROVE  files' = files
    BY <1>3 DEF Commit, Reregister, vars, Start, Clear, Journal, Verify, Ends, RemoveJournal,
                Finish, SyncFails, Reread, Check, SetLauncher, SetManifest
  <1>4. Drift => \A p \in Installer : pc[p] = "off"
    BY DEF Drift
  <1>. QED
    BY <1>1, <1>2, <1>3, <1>4 DEF Next, Ends

(* What a switch checked stays while it switches.                           *)
LEMMA CheckedStays ==
  ASSUME TypeOK, FilesOfPlans, SealedIsWhole, NoneSealed, [Next]_vars,
         NEW p \in Installer, pc[p] = "launcher", Stored(plan[p]), plan'[p] = plan[p],
         Ready(Custody \cup Trees \cup Pinned, plan[p])
  PROVE  Ready(Custody \cup Trees \cup Pinned, plan[p])'
  <1>1. Sealed(plan[p]) /\ plan[p] \in Plan
    BY StoredIsSealed DEF TypeOK
  <1>2. \A f \in files : f \in files'
    BY <1>1, LosesFiles
  <1>. QED
    BY <1>2 DEF Ready

(* How a run comes past the reading of the registration, or goes on.        *)
LEMMA WriterSteps ==
  ASSUME TypeOK, [Next]_vars
  PROVE  \A p \in Installer : pc'[p] \in {"read", "launcher", "manifest"} =>
           /\ plan'[p] = plan[p]
           /\ \/ Reread(p) /\ pc'[p] = "read"
              \/ current'[p] = current[p] /\ \/ pc'[p] = pc[p]
                                             \/ Check(p) /\ pc'[p] = "launcher"
                                             \/ SetLauncher(p) /\ pc'[p] = "manifest"
  <1> USE DEF Registration, Goes, Own, TypeOK
  <1> TAKE p \in Installer
  <1> HAVE pc'[p] \in {"read", "launcher", "manifest"}
  <1> DEFINE Right == /\ plan'[p] = plan[p]
                      /\ \/ Reread(p) /\ pc'[p] = "read"
                         \/ current'[p] = current[p] /\ \/ pc'[p] = pc[p]
                                                        \/ Check(p) /\ pc'[p] = "launcher"
                                                        \/ SetLauncher(p) /\ pc'[p] = "manifest"
  <1>1. ASSUME NEW q \in Installer, Reread(q)
        PROVE  Right
    <2>1. CASE q = p
      BY <1>1, <2>1 DEF Reread
    <2>2. CASE q # p
      BY <1>1, <2>2 DEF Reread
    <2>. QED
      BY <2>1, <2>2
  <1>2. ASSUME NEW q \in Installer, Check(q) \/ SetLauncher(q) \/ SetManifest(q)
        PROVE  Right
    BY <1>2 DEF Check, SetLauncher, SetManifest
  <1>3. ASSUME NEW q \in Installer,
               \/ Start(q, "migrate") \/ Start(q, "switch") \/ Clear(q) \/ Journal(q) \/ Make(q)
               \/ Verify(q) \/ Ends(q) \/ Fail(q) \/ Die(q)
        PROVE  Right
    BY <1>3 DEF Start, Clear, Journal, Make, Verify, Ends, RemoveJournal, Finish, SyncFails,
                Fail, Die
  <1>4. CASE Commit \/ Reregister \/ Drift \/ UNCHANGED vars
    BY <1>4 DEF Commit, Reregister, Drift, vars
  <1>. QED
    BY <1>1, <1>2, <1>3, <1>4 DEF Next, Ends

(* What a switch read and checked holds until it has switched.              *)
LEMMA ChecksHoldStep ==
  ASSUME TypeOK, FilesOfPlans, SealedIsWhole, NoneSealed, ChecksHold, [Next]_vars
  PROVE  ChecksHold'
  <1> SUFFICES ASSUME NEW p \in Installer, pc'[p] \in {"read", "launcher", "manifest"}
               PROVE  /\ current'[p] = Of(plan'[p])
                      /\ pc'[p] \in {"launcher", "manifest"} => Stored(plan[p])'
                      /\ pc'[p] = "launcher" => Ready(Custody \cup Trees \cup Pinned, plan[p])'
                      /\ pc'[p] = "manifest" => launcher' = "v2"
    BY DEF ChecksHold, Of
  <1>1. plan'[p] = plan[p] /\ plan[p] \in Plan
    BY WriterSteps DEF TypeOK
  <1>2. CASE Reread(p) /\ pc'[p] = "read"
    <2>1. current'[p] = Live /\ Registered(p)
      BY <1>2 DEF Reread, TypeOK
    <2>. QED
      BY <1>1, <1>2, <2>1 DEF Live, Registered, Of
  <1>3. ASSUME Stored(plan[p])
        PROVE  Stored(plan[p])'
    <2>1. \A n \in Chain : Holds(n, plan[p]) \in files'
      BY <1>1, <1>3, FilesStay, HoldsFields DEF Stored, Ready, Custody
    <2>. QED
      BY <1>1, <2>1 DEF Stored, Ready
  <1>4. CASE current'[p] = current[p] /\ Check(p) /\ pc'[p] = "launcher"
    <2>1. Stored(plan[p]) /\ pc[p] = "read"
      BY <1>4 DEF Check
    <2>2. Ready(Custody \cup Trees \cup Pinned, plan[p])
      BY <1>1, <1>4, <2>1, StoredIsSealed DEF Check, Ready
    <2>3. UNCHANGED <<files, plan>>
      BY <1>4 DEF Check, Goes
    <2>. QED
      BY <1>1, <1>3, <1>4, <2>1, <2>2, <2>3 DEF ChecksHold, Ready
  <1>5. CASE current'[p] = current[p] /\ SetLauncher(p) /\ pc'[p] = "manifest"
    <2>1. pc[p] = "launcher" /\ launcher' = "v2"
      BY <1>5 DEF SetLauncher
    <2>. QED
      BY <1>1, <1>3, <1>5, <2>1 DEF ChecksHold
  <1>6. CASE current'[p] = current[p] /\ pc'[p] = pc[p]
    <2>1. pc[p] = "launcher" => Ready(Custody \cup Trees \cup Pinned, plan[p])'
      BY <1>1, CheckedStays DEF ChecksHold
    <2>2. pc[p] = "manifest" => launcher' = "v2"
      BY RegistrationSteps DEF ChecksHold
    <2>. QED
      BY <1>1, <1>3, <1>6, <2>1, <2>2 DEF ChecksHold
  <1>. QED
    BY <1>2, <1>4, <1>5, <1>6, WriterSteps

-----------------------------------------------------------------------------
(* The strengthening holds at first and is kept by every step.              *)
LEMMA InductiveInit == Init => Inductive
  <1> SUFFICES ASSUME Init
               PROVE  Inductive
    OBVIOUS
  <1>1. TypeOK
    BY InstallationAssumption, OrderFacts DEF Init, TypeOK, Current, Live,
       Registrations, Plan, Launcher, Manifest
  <1>2. OneAtWork /\ MakesOverOld /\ HasMade /\ NoneSealed /\ ChecksHold
    BY DEF Init, OneAtWork, Working, MakesOverOld, HasMade, NoneSealed, ChecksHold
  <1>3. FilesOfPlans /\ SealedIsWhole /\ NewHasTrusted /\ WayBack
    BY DEF Init, FilesOfPlans, SealedIsWhole, Sealed, NewHasTrusted, WayBack
  <1>. QED
    BY <1>1, <1>2, <1>3 DEF Inductive

(* Each part by its lemma above.                                            *)
LEMMA InductiveStep == Inductive /\ [Next]_vars => Inductive'
  <1> SUFFICES ASSUME Inductive, [Next]_vars
               PROVE  Inductive'
    OBVIOUS
  <1>1. TypeOK' /\ OneAtWork' /\ FilesOfPlans' /\ SealedIsWhole'
    BY TypeStep, OneAtWorkStep, FilesOfPlansStep, SealedStep DEF Inductive
  <1>2. NewHasTrusted' /\ MakesOverOld' /\ HasMade' /\ NoneSealed'
    BY NewHasTrustedStep, MakesOverOldStep, HasMadeStep, NoneSealedStep DEF Inductive
  <1>3. ChecksHold' /\ WayBack'
    BY ChecksHoldStep, WayBackStep DEF Inductive
  <1>. QED
    BY <1>1, <1>2, <1>3 DEF Inductive

(* So it always holds.                                                      *)
LEMMA InductiveHolds == Spec => []Inductive
  BY InductiveInit, InductiveStep, PTL DEF Spec

(* The state is typed and no two files have one path: migrateInstallation,  *)
(* switchRegistration and whatever runs beside them.                        *)
THEOREM TypeCorrect == Spec => []TypeOK
  <1>1. Inductive => TypeOK
    BY DEF Inductive
  <1>. QED
    BY <1>1, InductiveHolds, PTL

(* The exclusive creation of the journal (writeExclusive) lets one          *)
(* migration work, and its journal stands while it does.                    *)
THEOREM OneMigration == Spec => []OneAtWork
  <1>1. Inductive => OneAtWork
    BY DEF Inductive
  <1>. QED
    BY <1>1, InductiveHolds, PTL

(* A switch past its checks stands over a preparation that is whole and was *)
(* made for the registration it read at line 412: the comparison of line    *)
(* 413 stops whatever changed since the review.                             *)
THEOREM SwitchIsPrepared == Spec => []SwitchesPrepared
  <1>1. Inductive => SwitchesPrepared
    <2> SUFFICES ASSUME Inductive, NEW p \in Installer, pc[p] = "launcher"
                 PROVE  /\ plan[p] \in Plan /\ Prepared(plan[p])
                        /\ current[p] = [launcher |-> plan[p].launcher,
                                         manifest |-> plan[p].manifest]
      BY DEF SwitchesPrepared
    <2>1. Ready(Custody \cup Trees \cup Pinned, plan[p]) /\ current[p] = Of(plan[p])
      BY DEF Inductive, ChecksHold
    <2>. QED
      BY <2>1 DEF Inductive, TypeOK, Prepared, Custody, Of
  <1>. QED
    BY <1>1, InductiveHolds, PTL

(* What a switch replaces is kept: however often the command dies between   *)
(* two files, a registration any part of which is new leaves the whole old  *)
(* one and its receipts to go back by.                                      *)
THEOREM AlwaysRecoverable == Spec => []Recoverable
  <1>1. Inductive /\ SwitchesPrepared => Recoverable
    BY DEF Inductive, Recoverable
  <1>. QED
    BY <1>1, InductiveHolds, SwitchIsPrepared, PTL

(* What migrateInstallation finished, no later or racing preparation        *)
(* writes again.                                                            *)
THEOREM FinishedStays == Spec => PreparedStays
  <1> DEFINE Stays == Working # {} => \A f \in files : (f.whole /\ Stored(f.plan)) => f \in files'
  <1>1. Inductive /\ [Next]_vars => [Stays]_vars
    <2> SUFFICES ASSUME Inductive, [Next]_vars, Working # {},
                        NEW f \in files, Stored(f.plan), f \notin files'
                 PROVE  FALSE
      OBVIOUS
    <2> USE DEF Inductive
    <2>1. f.plan \in Plan
      BY DEF TypeOK
    <2>2. Sealed(f.plan)
      BY <2>1, StoredIsSealed
    <2>3. \E p \in Installer : pc[p] = "making"
      BY DEF Working
    <2>. QED
      BY <2>1, <2>2, <2>3, LosesFiles
  <1>2. Spec => [][Stays]_vars
    BY <1>1, InductiveHolds, PTL DEF Spec
  <1>. QED
    BY <1>2 DEF PreparedStays

(* switchRegistration writes nothing over a registration it read half       *)
(* switched: no preparation was made for one.                               *)
THEOREM HalfStays == Spec => []HalfIsLeft
  <1>1. Inductive => HalfIsLeft
    <2> SUFFICES ASSUME Inductive, NEW p \in Installer, pc[p] \in {"launcher", "manifest"},
                        Half(current[p])
                 PROVE  FALSE
      BY DEF HalfIsLeft
    <2> USE DEF Inductive
    <2>1. plan[p] \in Plan /\ Stored(plan[p]) /\ current[p] = Of(plan[p])
      BY DEF ChecksHold, TypeOK
    <2>2. plan[p].launcher = "v2"
      BY <2>1 DEF Half, Of
    <2>. QED
      BY <2>1, <2>2, StoredIsSealed DEF OldPlan
  <1>. QED
    BY <1>1, InductiveHolds, PTL

=============================================================================
