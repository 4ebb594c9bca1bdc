---------------------------- MODULE SetupProofs ----------------------------
(***************************************************************************)
(* Proofs about Setup, for every way upstream may have moved and any       *)
(* number of kills.                                                        *)
(*                                                                         *)
(* The argument: the patches run in a fixed order and each one, when it    *)
(* starts, lists what it has to write, so a site whose patch is over reads *)
(* as patched, provided it read as upstream or as patched before.  A kill  *)
(* spoils only the file it interrupts.  The shim is the exception that     *)
(* needs more: it is found through its importers, and is therefore         *)
(* written before them.                                                    *)
(***************************************************************************)
EXTENDS Setup, TLAPS

\* The patch that writes a site.
PatchOf == [imports |-> 1, attributes |-> 2, llama |-> 3, mixtral |-> 4,
            sizing |-> 5, descriptors |-> 6, subpackage |-> 7, models |-> 7, alias |-> 8,
            headsConvert |-> 9, headsBackend |-> 9,
            shim |-> 10, fromPretrained |-> 10, peft |-> 10,
            field |-> 11, announce |-> 11, flag |-> 12, cache |-> 12,
            guard |-> 13, cpufeature |-> 14]

Created == {"subpackage", "alias", "shim"}

Types ==
    /\ text \in [Sites -> Texts]
    /\ stage \in Stages
    /\ step \in 0..14
    /\ todo \subseteq Sites

\* Only the codemod has anything to write, and only a command that is over has ended.
Busy ==
    /\ stage # "port" => todo = {} /\ step = 0
    /\ result = "ready" => stage = "idle"

\* The shim is written before its importers are.
Importing ==
    /\ todo \cap Importers # {} => "shim" \in todo \/ text["shim"] = "new"
    /\ "shim" \in todo => Old(Importers) # {}
    /\ ShimComesBack
    /\ drift = {} /\ text["shim"] # "new" => Old(Importers) # {}

\* No patch finds something else than what it expects, but in a file that was cut.
Expected ==
    drift = {} => \A s \in Sites \ Created : FileOf[s] \in cut \/ text[s] \in {"old", "new"}

\* Where the codemod is: the site is patched, or will be before this patch ends.
Comes(s) == text[s] = "new" \/ s \in todo \/ (s = "cache" /\ "flag" \in todo)

Progress ==
    stage = "port" =>
       /\ \A s \in todo : PatchOf[s] = step
       /\ drift = {} =>
             \A s \in Sites : Mendable(s) =>
                /\ PatchOf[s] < step => text[s] = "new"
                /\ PatchOf[s] = step => Comes(s)
       /\ step = 7 /\ "subpackage" \notin todo => text["alias"] = "old"

IInv == Types /\ Busy /\ Importing /\ Expected /\ Progress /\ RerunCompletes

-----------------------------------------------------------------------------
(* Facts about the sites. *)

LEMMA SitesAre ==
    Sites = {"imports", "attributes", "llama", "mixtral", "sizing", "announce",
             "descriptors", "headsBackend", "subpackage", "alias", "models",
             "headsConvert", "shim", "fromPretrained", "peft", "field", "flag", "cache",
             "guard", "cpufeature"}
  BY DEF Sites, FileOf

LEMMA FilesApart ==
    ASSUME NEW s \in Sites
    PROVE  /\ FileOf[s] = FileOf["shim"] => s = "shim"
           /\ FileOf[s] = FileOf["fromPretrained"] => s = "fromPretrained"
           /\ FileOf[s] = FileOf["peft"] => s = "peft"
           /\ FileOf["flag"] = FileOf["cache"]
  BY SitesAre DEF FileOf

LEMMA PatchesApart ==
    ASSUME NEW s \in Sites
    PROVE  /\ PatchOf[s] \in 1..14
           /\ PatchOf[s] = 7 => s \in {"subpackage", "models"}
           /\ PatchOf[s] = 8 => s = "alias"
           /\ PatchOf[s] = 10 => s \in {"shim", "fromPretrained", "peft"}
           /\ PatchOf[s] = 12 => s \in {"flag", "cache"}
           /\ PatchOf["subpackage"] = 7 /\ PatchOf["alias"] = 8 /\ PatchOf["shim"] = 10
           /\ PatchOf["fromPretrained"] = 10 /\ PatchOf["peft"] = 10
           /\ PatchOf["flag"] = 12 /\ PatchOf["cache"] = 12
  BY SitesAre DEF PatchOf

\* A patch writes its own sites.
LEMMA TodoIsOwn ==
    ASSUME Types, NEW k \in 1..14, NEW s \in Todo(k)
    PROVE  s \in Sites /\ PatchOf[s] = k
<1>1. CASE k \in 1..4
  BY <1>1, SitesAre DEF Todo, PatchOf, Old, ImportFix, AttributeFix, BlockPort, MixtralPort
<1>2. CASE k \in 5..8
  BY <1>2, SitesAre DEF Todo, PatchOf, Old, CacheSizing, CacheDescriptors, Subpackage, KimiAlias
<1>3. CASE k = 9
  BY <1>3, SitesAre DEF Todo, PatchOf, Old, NumHeads
<1>4. CASE k = 10
  BY <1>4, SitesAre DEF Todo, PatchOf, Old, HfCompat, Importers
<1>5. CASE k \in 11..12
  BY <1>5, SitesAre DEF Todo, PatchOf, Old, AttnPublication, Generation
<1>6. CASE k \in 13..14
  BY <1>6, SitesAre DEF Todo, PatchOf, Old, VersionGuard, Cpufeature
<1> QED BY <1>1, <1>2, <1>3, <1>4, <1>5, <1>6

\* A patch lists everything of its own that is not patched yet and can be mended.
LEMMA TodoIsComplete ==
    ASSUME Types, Importing, Expected, drift = {}, NEW k \in 1..14,
           NEW s \in Sites, PatchOf[s] = k, Mendable(s),
           k = 8 => text["subpackage"] = "new" /\ text["alias"] = "old"
    PROVE  \/ text[s] = "new" \/ s \in Todo(k)
           \/ s = "cache" /\ "flag" \in Todo(k)
<1>1. /\ s \notin Created \cup {"llama", "mixtral"} => text[s] \in {"old", "new"}
      /\ s \in {"headsConvert", "headsBackend"} => text["headsConvert"] # "odd"
      /\ s \in {"field", "announce"} => text["field"] # "odd"
  <2>1. "headsConvert" \in Sites \ Created /\ "field" \in Sites \ Created
    BY SitesAre DEF Created
  <2>2. s \notin Created => FileOf[s] \notin cut \/ s \in {"llama", "mixtral"}
    BY DEF Mendable, Created
  <2>3. s \in {"headsConvert", "headsBackend"} => FileOf["headsConvert"] \notin cut
    BY DEF Mendable, Earlier
  <2>4. s \in {"field", "announce"} => FileOf["field"] \notin cut
    BY DEF Mendable, Earlier
  <2> QED BY <2>1, <2>2, <2>3, <2>4 DEF Expected, Created
<1>2. CASE k \in 1..4
  BY <1>1, <1>2, SitesAre DEF Todo, PatchOf, Old, ImportFix, AttributeFix, BlockPort, MixtralPort, Created
<1>3. CASE k \in 5..7
  BY <1>1, <1>3, SitesAre DEF Todo, PatchOf, Old, CacheSizing, CacheDescriptors, Subpackage, Created
<1>4. CASE k = 8
  BY <1>4, SitesAre DEF Todo, PatchOf, KimiAlias
<1>5. CASE k = 9
  BY <1>1, <1>5, SitesAre DEF Todo, PatchOf, Old, NumHeads, Created
<1>6. CASE k = 10
  BY <1>1, <1>6, SitesAre DEF Todo, PatchOf, Old, HfCompat, Importers, Importing, Created
<1>7. CASE k \in 11..12
  BY <1>1, <1>7, SitesAre DEF Todo, PatchOf, Old, AttnPublication, Generation, Created
<1>8. CASE k \in 13..14
  BY <1>1, <1>8, SitesAre DEF Todo, PatchOf, Old, VersionGuard, Cpufeature, Created
<1> QED BY <1>2, <1>3, <1>4, <1>5, <1>6, <1>7, <1>8

-----------------------------------------------------------------------------
(* The steps of the command. *)

LEMMA InitIInv == Init => IInv
<1> SUFFICES ASSUME Init PROVE IInv
  OBVIOUS
<1>1. \A s \in Sites : text[s] = IF s \in Created THEN "absent" ELSE "old"
  BY DEF Init, Fresh, Created
<1>2. text = [s \in Sites |-> IF s \in Created THEN "absent" ELSE "old"]
  BY DEF Init, Fresh, Created
<1>3. Types
  BY <1>2 DEF Init, Types, Texts, Stages
<1>4. Importing
  BY <1>1, SitesAre DEF Init, Importing, ShimComesBack, Old, Importers, Created
<1>5. Busy /\ Expected /\ Progress /\ RerunCompletes
  BY <1>1 DEF Init, Busy, Expected, Progress, RerunCompletes
<1> QED BY <1>3, <1>4, <1>5 DEF IInv

\* A step that leaves the checkout alone and ends with nothing to write.
LEMMA Settled ==
    ASSUME IInv, UNCHANGED <<text, drift, cut>>, stage' \in Stages, todo' = {}, step' = 0,
           result' = "ready" => stage' = "idle",
           (stage' \in {"link", "verify"} \/ result' = "ready") /\ drift = {}
              => \A s \in Sites : Mendable(s) => text[s] = "new"
    PROVE  IInv'
<1>1. Types' /\ Busy'
  BY DEF IInv, Types, Busy
<1>2. Importing'
  BY DEF IInv, Importing, ShimComesBack, Old
<1>3. Expected'
  BY DEF IInv, Expected
<1>4. Progress'
  BY PatchesApart DEF Progress
<1>5. RerunCompletes'
  BY DEF RerunCompletes, Mendable
<1> QED BY <1>1, <1>2, <1>3, <1>4, <1>5 DEF IInv

LEMMA StartKeeps ==
    ASSUME IInv, NEW m \in Machines, NEW force \in BOOLEAN, NEW skip \in BOOLEAN,
           Start(m, force, skip)
    PROVE  IInv'
<1>1. /\ stage = "idle" /\ stage' \in {"idle", "clone"} /\ result' \in {"refused", "none"}
      /\ UNCHANGED <<text, drift, cut>>
  BY DEF Start, Running, Stop, Checkout
<1>2. todo' = {} /\ step' = 0
  BY <1>1 DEF Start, Stop, IInv, Busy
<1> QED BY <1>1, <1>2, Settled DEF Stages

LEMMA CloneKeeps ==
    ASSUME IInv, Clone
    PROVE  IInv'
<1>1. /\ stage = "clone" /\ todo = {} /\ step = 0 /\ result # "ready" /\ cut' = cut
  BY DEF Clone, Running, Checkout, IInv, Busy
<1>2. CASE UNCHANGED Checkout
  <2>1. /\ stage' \in {"idle", "install"} /\ todo' = {} /\ step' = 0
        /\ result' # "ready"
    <3>1. CASE GoOn("install")
      BY <1>1, <3>1 DEF GoOn
    <3>2. CASE Stop("failed")
      BY <3>2 DEF Stop
    <3> QED BY <3>1, <3>2 DEF Clone
  <2> QED BY <1>2, <2>1, Settled DEF Checkout, Stages
<1>3. CASE \E d \in Drifts : text' = Fresh(d) /\ drift' = d /\ GoOn("install")
  <2>1. PICK d \in Drifts : text' = Fresh(d) /\ drift' = d
    BY <1>3
  <2>2. /\ \A s \in Sites : text'[s] = IF s \in Created THEN "absent"
                                      ELSE IF s \in d THEN "odd" ELSE "old"
        /\ text' \in [Sites -> Texts]
    <3>1. \A s \in Sites : text'[s] = IF s \in Created THEN "absent"
                                   ELSE IF s \in d THEN "odd" ELSE "old"
      <4> TAKE s \in Sites
      <4>1. text'[s] = CASE s \in {"subpackage", "alias", "shim"} -> "absent"
                         [] s \in d -> "odd"
                         [] OTHER -> "old"
        BY <2>1 DEF Fresh
      <4>2. d \subseteq Sites \ {"subpackage", "alias", "shim"}
        BY <2>1, DriftsAreSites
      <4> QED BY <4>1, <4>2 DEF Created
    <3>2. \A s \in Sites : text'[s] \in Texts
      BY <3>1 DEF Texts
    <3>3. text' = [s \in Sites |-> text'[s]]
      BY <2>1 DEF Fresh
    <3> QED BY <3>1, <3>2, <3>3
  <2>3. stage' = "install" /\ todo' = {} /\ step' = 0 /\ result' # "ready"
    BY <1>1, <1>3 DEF GoOn
  <2>4. Types' /\ Busy'
    BY <2>2, <2>3 DEF Types, Busy, Stages
  <2>5. Importing'
    BY <2>1, <2>2, <2>3, SitesAre DEF Importing, ShimComesBack, Old, Importers, Created
  <2>6. Expected' /\ Progress' /\ RerunCompletes'
    BY <2>1, <2>2, <2>3 DEF Expected, Progress, RerunCompletes
  <2> QED BY <2>4, <2>5, <2>6 DEF IInv
<1> QED BY <1>2, <1>3 DEF Clone

LEMMA InstallKeeps ==
    ASSUME IInv, Install
    PROVE  IInv'
<1>1. /\ stage = "install" /\ todo = {} /\ step = 0 /\ result # "ready"
      /\ UNCHANGED <<text, drift, cut>>
  BY DEF Install, Running, Checkout, IInv, Busy
<1>2. CASE GoOn("port")
  BY <1>1, <1>2, Settled DEF GoOn, Stages
<1>3. CASE Stop("failed")
  BY <1>1, <1>3, Settled DEF Stop, Stages
<1> QED BY <1>2, <1>3 DEF Install

LEMMA LinkKeeps ==
    ASSUME IInv, Link
    PROVE  IInv'
<1>1. /\ stage = "link" /\ todo = {} /\ step = 0 /\ result # "ready"
      /\ UNCHANGED <<text, drift, cut>>
  BY DEF Link, Running, Checkout, IInv, Busy
<1>2. CASE GoOn("verify")
  BY <1>1, <1>2, Settled DEF GoOn, Stages, IInv, RerunCompletes
<1>3. CASE Stop("failed")
  BY <1>1, <1>3, Settled DEF Stop, Stages
<1> QED BY <1>2, <1>3 DEF Link

LEMMA VerifyKeeps ==
    ASSUME IInv, Verify
    PROVE  IInv'
<1>1. /\ stage = "verify" /\ UNCHANGED <<text, drift, cut>>
  BY DEF Verify, Running, Checkout
<1>2. CASE Stop("ready")
  BY <1>1, <1>2, Settled DEF Stop, Stages, IInv, RerunCompletes
<1>3. CASE Stop("failed")
  BY <1>1, <1>3, Settled DEF Stop, Stages
<1> QED BY <1>2, <1>3 DEF Verify

-----------------------------------------------------------------------------
(* The steps of the codemod. *)

\* The patch before k is over, and k lists its work.
LEMMA PatchStarts ==
    ASSUME IInv, NEW k \in 1..14, stage = "port", step = k - 1, todo = {},
           UNCHANGED <<text, drift, cut, stage, result>>, step' = k, todo' = Todo(k)
    PROVE  IInv'
<1>1. \A s \in todo' : s \in Sites /\ PatchOf[s] = k
  BY TodoIsOwn DEF IInv
<1>2. Types' /\ Busy'
  BY <1>1 DEF IInv, Types, Busy
<1>3. Importing'
  <2>1. ASSUME todo' \cap {"shim", "fromPretrained", "peft"} # {}
        PROVE  k = 10 /\ "shim" \in todo' /\ Old(Importers) # {}
    <3>1. k = 10
      BY <1>1, <2>1, PatchesApart
    <3>2. todo' = HfCompat
      BY <3>1 DEF Todo
    <3> QED BY <2>1, <3>1, <3>2 DEF HfCompat
  <2> QED BY <2>1 DEF IInv, Importing, ShimComesBack, Old, Importers
<1>4. Expected' /\ RerunCompletes'
  BY DEF IInv, Expected, RerunCompletes, Busy
<1>5. ASSUME drift = {}, NEW s \in Sites, Mendable(s), PatchOf[s] < k
      PROVE  text[s] = "new"
  <2>1. PatchOf[s] \in 1..14
    BY PatchesApart
  <2>2. PatchOf[s] < step \/ PatchOf[s] = step
    BY <1>5, <2>1
  <2>3. Comes(s) => text[s] = "new"
    BY DEF Comes
  <2> QED BY <1>5, <2>2, <2>3 DEF IInv, Progress
<1>6. ASSUME drift = {}, NEW s \in Sites, Mendable(s), PatchOf[s] = k
      PROVE  Comes(s)'
  <2>1. k = 8 => text["alias"] = "old"
    BY DEF IInv, Progress
  <2>2. k = 8 => text["subpackage"] = "new"
    BY <1>5, <1>6, PatchesApart, SitesAre DEF Mendable
  <2>3. \/ text[s] = "new" \/ s \in Todo(k)
        \/ s = "cache" /\ "flag" \in Todo(k)
    BY <1>6, <2>1, <2>2, TodoIsComplete DEF IInv
  <2> QED BY <2>3 DEF Comes
<1>7. step' = 7 /\ "subpackage" \notin todo' => text["alias"] = "old"
  <2>1. k = 7 => todo' = Subpackage
    BY DEF Todo
  <2> QED BY <2>1 DEF Subpackage
<1>8. Progress'
  <2>1. \A s \in Sites : Mendable(s)' = Mendable(s)
    BY DEF Mendable
  <2> QED BY <1>1, <1>5, <1>6, <1>7, <2>1 DEF Progress
<1> QED BY <1>2, <1>3, <1>4, <1>8 DEF IInv

LEMMA OpenPortKeeps ==
    ASSUME IInv, OpenPort
    PROVE  IInv'
<1>1. stage = "port" /\ step = 0 /\ UNCHANGED <<text, drift, cut>>
  BY DEF OpenPort, Running, Checkout
<1>2. todo = {}
  <2>1. \A s \in todo : PatchOf[s] = 0
    BY <1>1 DEF IInv, Progress
  <2> QED BY <2>1, PatchesApart DEF IInv, Types
<1>3. CASE Stop("failed")
  BY <1>1, <1>3, Settled DEF Stop, Stages
<1>4. CASE step' = 1 /\ todo' = Todo(1) /\ UNCHANGED <<stage, result>>
  BY <1>1, <1>2, <1>4, PatchStarts
<1> QED BY <1>3, <1>4 DEF OpenPort

LEMMA NextPatchKeeps ==
    ASSUME IInv, NextPatch
    PROVE  IInv'
<1>1. /\ stage = "port" /\ step \in 1..14 /\ todo = {}
      /\ UNCHANGED <<text, drift, cut>>
  BY DEF NextPatch, Running, Checkout, Steps
<1>2. CASE step < 14
  <2>1. step + 1 \in 1..14 /\ step = (step + 1) - 1
    BY <1>1, <1>2
  <2>2. step' = step + 1 /\ todo' = Todo(step + 1) /\ UNCHANGED <<stage, result>>
    BY <1>2 DEF NextPatch
  <2> QED BY <1>1, <2>1, <2>2, PatchStarts
<1>3. CASE Stop("failed")
  BY <1>1, <1>3, Settled DEF Stop, Stages
<1>4. CASE step = 14 /\ stage' \in {"link", "verify"} /\ step' = 0 /\ UNCHANGED <<todo, result>>
  <2>1. ASSUME drift = {}, NEW s \in Sites, Mendable(s) PROVE text[s] = "new"
    <3>1. PatchOf[s] \in 1..14
      BY PatchesApart
    <3>2. PatchOf[s] < step \/ PatchOf[s] = step
      BY <1>4, <3>1
    <3>3. Comes(s) => text[s] = "new"
      BY <1>1 DEF Comes
    <3> QED BY <1>1, <2>1, <3>2, <3>3 DEF IInv, Progress
  <2>2. result' # "ready"
    BY <1>1, <1>4 DEF IInv, Busy
  <2> QED BY <1>1, <1>4, <2>1, <2>2, Settled DEF Stages
<1> QED BY <1>1, <1>2, <1>3, <1>4 DEF NextPatch

\* One write completes its own sites and touches no other but the alias, which
\* comes after.
LEMMA WriteKeeps ==
    ASSUME IInv, NEW s \in Sites, Write(s)
    PROVE  IInv'
<1>1. /\ stage = "port" /\ s \in todo /\ Earlier(s) \cap todo = {}
      /\ text' = Written(s) /\ todo' = todo \ {s}
      /\ UNCHANGED <<stage, step, result, drift, cut>>
  BY DEF Write, Running
<1>2. PatchOf[s] = step /\ step \in 1..14
  BY <1>1, PatchesApart DEF IInv, Progress
<1>3. /\ text' \in [Sites -> Texts]
      /\ text'[s] = "new" \/ (s = "flag" /\ text[s] # "old")
      /\ \A t \in Sites \ {s} :
            \/ text'[t] = text[t]
            \/ s = "flag" /\ t = "cache" /\ text'[t] = "new"
            \/ s = "subpackage" /\ t = "alias" /\ text'[t] = "old"
      /\ s = "subpackage" => text'["alias"] = "old"
      /\ (s = "flag" /\ text["flag"] = "old") => text'["flag"] = "new"
      /\ (s = "flag" /\ text["cache"] = "old") => text'["cache"] = "new"
      /\ s = "flag" => text'["flag"] = text["flag"] \/ text'["flag"] = "new"
  <2>1. text \in [Sites -> Texts] /\ {"old", "new"} \subseteq Texts
    BY DEF IInv, Types, Texts
  <2>2. "alias" \in Sites /\ "flag" \in Sites /\ "cache" \in Sites
    BY SitesAre
  <2>3. CASE s = "flag"
    BY <1>1, <2>1, <2>2, <2>3 DEF Written, Old
  <2>4. CASE s = "subpackage"
    BY <1>1, <2>1, <2>2, <2>4 DEF Written
  <2>5. CASE s \notin {"flag", "subpackage"}
    BY <1>1, <2>1, <2>2, <2>5 DEF Written
  <2> QED BY <2>3, <2>4, <2>5
<1>4. Types' /\ Busy'
  BY <1>1, <1>3 DEF IInv, Types, Busy
<1>5. Importing'
  <2>1. \A t \in {"shim", "fromPretrained", "peft"} :
           t \in Sites /\ (t = s => text'[t] = "new") /\ (t # s => text'[t] = text[t])
    BY <1>3, SitesAre
  <2>2. CASE s = "shim"
    BY <1>1, <2>1, <2>2 DEF IInv, Importing, ShimComesBack, Old, Importers
  <2>3. CASE s \in Importers
    <3>1. "shim" \notin todo
      BY <1>1, <2>3 DEF Earlier, Importers
    <3>2. text["shim"] = "new"
      BY <1>1, <2>3, <3>1 DEF IInv, Importing
    <3> QED BY <1>1, <2>1, <2>3, <3>1, <3>2 DEF Importing, ShimComesBack, Importers
  <2>4. CASE s \notin {"shim", "fromPretrained", "peft"}
    BY <1>1, <2>1, <2>4 DEF IInv, Importing, ShimComesBack, Old, Importers
  <2> QED BY <2>2, <2>3, <2>4 DEF Importers
<1>6. Expected'
  BY <1>1, <1>3 DEF IInv, Expected, Created
<1>7. RerunCompletes'
  BY <1>1 DEF IInv, Busy, RerunCompletes
<1>8. Progress'
  <2>1. \A t \in Sites : Mendable(t)' = Mendable(t)
    BY <1>1 DEF Mendable
  <2>2. ASSUME drift = {}, NEW t \in Sites, Mendable(t), PatchOf[t] < step
        PROVE  text'[t] = "new"
    <3>1. text[t] = "new"
      BY <1>1, <2>2 DEF IInv, Progress
    <3>2. t # s /\ ~(s = "subpackage" /\ t = "alias")
      BY <1>2, <2>2, PatchesApart
    <3> QED BY <1>3, <3>1, <3>2
  <2>3. ASSUME drift = {}, NEW t \in Sites, Mendable(t), PatchOf[t] = step
        PROVE  Comes(t)'
    <3>1. Comes(t)
      BY <1>1, <2>3 DEF IInv, Progress
    <3>2. ~(s = "subpackage" /\ t = "alias")
      BY <1>2, <2>3, PatchesApart
    <3>3. ASSUME t \in {"flag", "cache"}, s = "flag" PROVE text'[t] = "new"
      <4>1. FileOf[t] \notin cut /\ t \notin Created
        BY <2>3, <3>3 DEF Mendable, Created
      <4>2. text[t] \in {"old", "new"}
        BY <2>3, <4>1 DEF IInv, Expected
      <4> QED BY <1>3, <3>3, <4>2, SitesAre
    <3> QED BY <1>1, <1>3, <3>1, <3>2, <3>3 DEF Comes
  <2>4. \A t \in todo' : PatchOf[t] = step
    BY <1>1 DEF IInv, Progress
  <2>5. step = 7 /\ "subpackage" \notin todo' => text'["alias"] = "old"
    <3>1. step = 7 => s \in {"subpackage", "models"}
      BY <1>2, PatchesApart
    <3> QED BY <1>1, <1>3, <3>1, SitesAre DEF IInv, Progress
  <2> QED BY <1>1, <2>1, <2>2, <2>3, <2>4, <2>5 DEF Progress
<1> QED BY <1>4, <1>5, <1>6, <1>7, <1>8 DEF IInv

-----------------------------------------------------------------------------
(* The kills. *)

LEMMA KillKeeps ==
    ASSUME IInv, Kill
    PROVE  IInv'
<1>1. stage' = "idle" /\ step' = 0 /\ todo' = {} /\ result' = "none"
  BY DEF Kill, Stop
<1>2. CASE UNCHANGED <<text, drift, cut>>
  BY <1>1, <1>2, Settled DEF Stages
<1>3. CASE \E s \in todo, left \in {"odd", "half"} :
              /\ Running("port") /\ Earlier(s) \cap todo = {}
              /\ text' = [t \in Sites |-> IF FileOf[t] = FileOf[s] THEN left ELSE text[t]]
              /\ cut' = cut \cup {FileOf[s]}
              /\ UNCHANGED <<checkout, drift>>
  <2>1. PICK s \in todo, left \in {"odd", "half"} :
           /\ Earlier(s) \cap todo = {}
           /\ text' = [t \in Sites |-> IF FileOf[t] = FileOf[s] THEN left ELSE text[t]]
           /\ cut' = cut \cup {FileOf[s]} /\ drift' = drift
    BY <1>3
  <2>2. s \in Sites
    BY DEF IInv, Types
  <2>3. \A t \in Sites : text'[t] = IF FileOf[t] = FileOf[s] THEN left ELSE text[t]
    BY <2>1
  <2>4. Types' /\ Busy'
    BY <1>1, <2>1 DEF IInv, Types, Texts, Busy, Stages
  <2>5. Importing'
    <3>1. \A t \in {"shim", "fromPretrained", "peft"} :
             /\ t \in Sites /\ text'[t] # "old" => text[t] # "old" \/ t = s
             /\ t = s => text'[t] = left
             /\ t # s => text'[t] = text[t]
      BY <2>2, <2>3, FilesApart, SitesAre
    <3>2. CASE s = "shim"
      BY <1>1, <2>1, <3>1, <3>2 DEF IInv, Importing, ShimComesBack, Old, Importers
    <3>3. CASE s \in Importers
      <4>1. "shim" \notin todo
        BY <2>1, <3>3 DEF Earlier, Importers
      <4>2. text["shim"] = "new"
        BY <3>3, <4>1 DEF IInv, Importing
      <4> QED BY <1>1, <3>1, <3>3, <4>2 DEF Importing, ShimComesBack, Importers
    <3>4. CASE s \notin {"shim", "fromPretrained", "peft"}
      BY <1>1, <2>1, <3>1, <3>4 DEF IInv, Importing, ShimComesBack, Old, Importers
    <3> QED BY <3>2, <3>3, <3>4 DEF Importers
  <2>6. Expected'
    BY <2>1, <2>3 DEF IInv, Expected, Created
  <2>7. Progress' /\ RerunCompletes'
    BY <1>1 DEF Progress, RerunCompletes
  <2> QED BY <2>4, <2>5, <2>6, <2>7 DEF IInv
<1>4. CASE checkout' = "partial" /\ UNCHANGED <<text, drift, cut>>
  BY <1>2, <1>4
<1> QED BY <1>2, <1>3, <1>4 DEF Kill, Checkout

-----------------------------------------------------------------------------

LEMMA NextIInv == IInv /\ [Next]_vars => IInv'
<1> SUFFICES ASSUME IInv, [Next]_vars PROVE IInv'
  OBVIOUS
<1>1. CASE UNCHANGED vars
  BY <1>1 DEF vars, IInv, Types, Busy, Importing, ShimComesBack, Old, Expected, Progress,
              Comes, Mendable, RerunCompletes
<1>2. CASE \E m \in Machines, force, skip \in BOOLEAN : Start(m, force, skip)
  BY <1>2, StartKeeps
<1>3. CASE \E s \in Sites : Write(s)
  BY <1>3, WriteKeeps
<1> QED BY <1>1, <1>2, <1>3, CloneKeeps, InstallKeeps, OpenPortKeeps, NextPatchKeeps,
           LinkKeeps, VerifyKeeps, KillKeeps DEF Next

\* The invariant: what the patches that are over, or running, have left behind them.
THEOREM Inductive == Spec => []IInv
BY InitIInv, NextIInv, PTL DEF Spec

\* What else a state of the command is made of; the codemod's share is in Types.
Around ==
    /\ checkout \in {"none", "partial", "whole"}
    /\ hivemind \in {"absent", "current", "other"}
    /\ linked \in BOOLEAN /\ skipping \in BOOLEAN
    /\ result \in {"none", "refused", "failed", "ready"}
    /\ drift \in Drifts \cup {{}} /\ cut \subseteq Files /\ kills \in 0..MaxKills

LEMMA InitAround == Init => Around
<1>1. 0 \in 0..MaxKills
  BY KillsAreFinite
<1> QED BY <1>1 DEF Init, Around

LEMMA NextAround ==
    ASSUME IInv, Around, [Next]_vars
    PROVE  Around'
<1>1. CASE UNCHANGED vars
  BY <1>1 DEF Around, vars
<1>2. ASSUME NEW m \in Machines, NEW force \in BOOLEAN, NEW skip \in BOOLEAN, Start(m, force, skip)
      PROVE  Around'
  BY <1>2 DEF Around, Start, Stop, Checkout
<1>3. CASE Clone
  BY <1>3 DEF Around, Clone, Stop, GoOn, Checkout
<1>4. CASE Install
  BY <1>4 DEF Around, Install, Stop, GoOn, Checkout
<1>5. CASE OpenPort
  BY <1>5 DEF Around, OpenPort, Stop, Checkout
<1>6. CASE NextPatch
  BY <1>6 DEF Around, NextPatch, Stop, Checkout
<1>7. CASE Link
  BY <1>7 DEF Around, Link, Stop, GoOn, Checkout
<1>8. CASE Verify
  BY <1>8 DEF Around, Verify, Stop, Checkout
<1>9. ASSUME NEW s \in Sites, Write(s)
      PROVE  Around'
  BY <1>9 DEF Around, Write
<1>10. CASE Kill
  <2>1. kills' \in 0..MaxKills /\ result' = "none" /\ UNCHANGED <<hivemind, linked, skipping>>
    BY <1>10, KillsAreFinite DEF Kill, Around, Stop
  <2>2. checkout' \in {"none", "partial", "whole"} /\ drift' = drift
    BY <1>10 DEF Kill, Around, Checkout
  <2>3. cut' \subseteq Files
    <3>1. cut' = cut \/ \E s \in todo : cut' = cut \cup {FileOf[s]}
      BY <1>10 DEF Kill, Checkout
    <3> QED BY <3>1 DEF IInv, Types, Around, Files
  <2> QED BY <2>1, <2>2, <2>3 DEF Around
<1> QED BY <1>1, <1>2, <1>3, <1>4, <1>5, <1>6, <1>7, <1>8, <1>9, <1>10 DEF Next

\* Every state of the command is one it can be in: no site reads a text no patch
\* leaves, the codemod is at one of its fourteen patches and has only its own
\* sites to write, and what was cut is a file of the checkout.
THEOREM TypesHold == Spec => []TypeOK
<1>1. Init => IInv /\ Around
  BY InitIInv, InitAround
<1>2. IInv /\ Around /\ [Next]_vars => IInv' /\ Around'
  BY NextIInv, NextAround
<1>3. IInv /\ Around => TypeOK
  BY DEF IInv, Types, Around, TypeOK
<1> QED BY <1>1, <1>2, <1>3, PTL DEF Spec

\* "Re-running is safe" (setup.py:8-9): on an upstream that reads as expected, once
\* the codemod has ended well every site it can mend is patched, however often and
\* wherever earlier runs were killed.
THEOREM RerunsComplete == Spec => []RerunCompletes
<1>1. IInv => RerunCompletes
  BY DEF IInv
<1> QED BY <1>1, Inductive, PTL

\* An importer is never left repointed at a missing or damaged shim without another
\* one that leads the next run back to it (apply_hf_compat), whatever upstream reads.
THEOREM TheShimComesBack == Spec => []ShimComesBack
<1>1. IInv => ShimComesBack
  BY DEF IInv, Importing
<1> QED BY <1>1, Inductive, PTL

=============================================================================
