------------------------------- MODULE Setup -------------------------------
(***************************************************************************)
(* `seedmesh setup` (cli/setup.py) and the two tools it runs: the codemod  *)
(* tools/port_petals.py, which patches a Petals checkout file by file, and *)
(* tools/verify_petals_port.py, which tries the result.  Files are written *)
(* one after the other and not atomically; the command may be killed at    *)
(* any moment and is meant to be run again.                                *)
(*                                                                         *)
(* A site is one piece of text a patch looks for.  The model keeps, for    *)
(* each site, whether it still has upstream's text ("old"), the patched    *)
(* one ("new"), something no patch knows ("odd"), the beginning of a       *)
(* patched text whose end was lost ("half"), or is "absent".               *)
(***************************************************************************)
EXTENDS Naturals

CONSTANTS Drifts,       \* sets of sites where upstream may not read as expected
          Machines,     \* what check_platform looks at
          MaxKills      \* bound on the number of times the command is killed

FileOf == [imports |-> "client", attributes |-> "client",
           llama |-> "llama/block", mixtral |-> "mixtral/block",
           sizing |-> "server", announce |-> "server",
           descriptors |-> "backend", headsBackend |-> "backend",
           subpackage |-> "deepseek", alias |-> "deepseek", models |-> "models/init",
           headsConvert |-> "convert", shim |-> "hf_compat",
           fromPretrained |-> "from_pretrained", peft |-> "peft",
           field |-> "data_structures", flag |-> "generation", cache |-> "generation",
           guard |-> "init", cpufeature |-> "lm_head"]
Sites == DOMAIN FileOf
Files == {FileOf[s] : s \in Sites}
Importers == {"fromPretrained", "peft"}
Texts == {"absent", "old", "new", "odd", "half"}
Stages == {"idle", "clone", "install", "port", "link", "verify"}

\* The sites verify_petals_port.py runs through; the others are read only by a
\* server that loads blocks, by a client, or for one kind of model.
Exercised == {"imports", "attributes", "llama", "mixtral", "headsConvert",
              "models", "subpackage", "shim", "fromPretrained", "peft", "guard"}

ASSUME DriftsAreSites == Drifts \subseteq SUBSET (Sites \ {"subpackage", "alias", "shim"})
ASSUME KillsAreFinite == MaxKills \in Nat

VARIABLES text,      \* what each site of the checkout reads
          checkout,  \* "none", "partial": .git without the files, or "whole"
          hivemind,  \* "absent", "current" or "other": the installed version
          linked,    \* the checkout is installed: petals can be imported
          stage,     \* what the running command is doing
          skipping,  \* --skip-install
          step,      \* the patch the codemod is at, 0 before the first
          todo,      \* the sites this patch still has to write
          result,    \* how the last finished command ended
          drift,     \* the sites where this clone of upstream was unexpected
          cut,       \* files whose writing was interrupted
          kills
vars == <<text, checkout, hivemind, linked, stage, skipping, step, todo,
          result, drift, cut, kills>>

-----------------------------------------------------------------------------
(* The patches: the sites each would write, given what it reads.           *)

Old(S) == {s \in S : text[s] = "old"}
Fresh(d) == [s \in Sites |-> CASE s \in {"subpackage", "alias", "shim"} -> "absent"
                               [] s \in d -> "odd"
                               [] OTHER -> "old"]

\* A statement with a symbol the mapping lacks is left entirely alone ("odd").
ImportFix == Old({"imports"})
AttributeFix == Old({"attributes"})
\* Whole files, compared with the ported text and replaced.
BlockPort == {"llama"} \ {s \in Sites : text[s] = "new"}
MixtralPort == {"mixtral"} \ {s \in Sites : text[s] = "new"}
CacheSizing == Old({"sizing"})
CacheDescriptors == Old({"descriptors"})
\* Once the alias is appended the file differs from its source: it is written
\* again, without the alias.
Subpackage == (IF text["subpackage"] = "new" /\ text["alias"] = "old" THEN {} ELSE {"subpackage"})
                \cup Old({"models"})
KimiAlias == IF text["subpackage"] = "absent" \/ text["alias"] \in {"new", "half"}
             THEN {} ELSE {"alias"}
\* The first unexpected file ends the patch; the files before it stay written.
MutNumHeads == IF text["headsConvert"] # "old" THEN {} ELSE Old({"headsConvert", "headsBackend"})
NumHeads == IF text["headsConvert"] = "odd" THEN {} ELSE Old({"headsConvert", "headsBackend"})
HfCompat == IF Old(Importers) = {} THEN {} ELSE {"shim"} \cup Old(Importers)
AttnPublication == IF text["field"] = "odd" THEN {} ELSE Old({"field", "announce"})
\* One write for both sites of the file.
Generation == IF "old" \in {text["flag"], text["cache"]} THEN {"flag"} ELSE {}
VersionGuard == Old({"guard"})
Cpufeature == Old({"cpufeature"})

Steps == 1..14
Todo(k) == CASE k = 1 -> ImportFix        [] k = 2 -> AttributeFix
             [] k = 3 -> BlockPort        [] k = 4 -> MixtralPort
             [] k = 5 -> CacheSizing      [] k = 6 -> CacheDescriptors
             [] k = 7 -> Subpackage       [] k = 8 -> KimiAlias
             [] k = 9 -> NumHeads         [] k = 10 -> HfCompat
             [] k = 11 -> AttnPublication [] k = 12 -> Generation
             [] k = 13 -> VersionGuard    [] OTHER -> Cpufeature

\* The sites written before s in the same patch.
MutEarlier(s) == IF s = "shim" THEN Importers ELSE {}
Earlier(s) == CASE s = "models" -> {"subpackage"}
                [] s = "headsBackend" -> {"headsConvert"}
                [] s = "fromPretrained" -> {"shim"}
                [] s = "peft" -> {"shim", "fromPretrained"}
                [] s = "announce" -> {"field"}
                [] OTHER -> {}
Written(s) == CASE s = "flag" -> [t \in Sites |-> IF t \in Old({"flag", "cache"})
                                                   THEN "new" ELSE text[t]]
                [] s = "subpackage" -> [text EXCEPT ![s] = "new", !["alias"] = "old"]
                [] OTHER -> [text EXCEPT ![s] = "new"]

-----------------------------------------------------------------------------
(* The command.                                                            *)

Problems(m) == m.windows \/ m.oldPython \/ (m.gpu /\ ~(m.headers /\ m.compiler))

Running(at) == stage = at
Stop(outcome) == /\ stage' = "idle"
                 /\ step' = 0
                 /\ todo' = {}
                 /\ result' = outcome
GoOn(at) == /\ stage' = at
            /\ UNCHANGED <<step, todo, result>>
Checkout == <<text, checkout, drift, cut>>

Start(m, force, skip) ==
    /\ Running("idle")
    /\ skipping' = skip
    /\ \/ /\ Problems(m) /\ ~force
          /\ Stop("refused")
       \/ /\ ~Problems(m) \/ force
          /\ stage' = "clone" /\ result' = "none"
          /\ UNCHANGED <<step, todo>>
    /\ UNCHANGED <<Checkout, hivemind, linked, kills>>

\* A directory with .git is left as it is, whole or not.
Clone ==
    /\ Running("clone")
    /\ \/ /\ checkout # "none"
          /\ GoOn("install")
          /\ UNCHANGED Checkout
       \/ /\ checkout = "none"
          /\ \E d \in Drifts : text' = Fresh(d) /\ drift' = d
          /\ checkout' = "whole"
          /\ GoOn("install")
          /\ UNCHANGED cut
       \/ checkout = "none" /\ Stop("failed") /\ UNCHANGED Checkout
    /\ UNCHANGED <<hivemind, linked, skipping, kills>>

Install ==
    /\ Running("install")
    /\ \/ skipping /\ GoOn("port") /\ UNCHANGED hivemind
       \/ ~skipping /\ GoOn("port") /\ hivemind' = "current"
       \/ ~skipping /\ Stop("failed") /\ UNCHANGED hivemind
    /\ UNCHANGED <<Checkout, linked, skipping, kills>>

\* Refuses to rewrite anything blind.
OpenPort ==
    /\ Running("port") /\ step = 0
    /\ \/ /\ checkout = "whole" /\ hivemind = "current"
          /\ step' = 1
          /\ todo' = Todo(1)
          /\ UNCHANGED <<stage, result>>
       \/ /\ checkout # "whole" \/ hivemind # "current"
          /\ Stop("failed")
    /\ UNCHANGED <<Checkout, hivemind, linked, skipping, kills>>

Write(s) ==
    /\ Running("port") /\ s \in todo
    /\ Earlier(s) \cap todo = {}
    /\ text' = Written(s)
    /\ todo' = todo \ {s}
    /\ UNCHANGED <<checkout, hivemind, linked, stage, skipping, step, result, drift, cut, kills>>

NextPatch ==
    /\ Running("port") /\ step \in Steps /\ todo = {}
    /\ IF step < 14
       THEN step' = step + 1 /\ todo' = Todo(step + 1) /\ UNCHANGED <<stage, result>>
       ELSE IF text["imports"] = "odd" THEN Stop("failed")
       ELSE /\ stage' = IF skipping THEN "verify" ELSE "link"
            /\ step' = 0
            /\ UNCHANGED <<todo, result>>
    /\ UNCHANGED <<Checkout, hivemind, linked, skipping, kills>>

Link ==
    /\ Running("link")
    /\ \/ linked' = TRUE /\ GoOn("verify")
       \/ Stop("failed") /\ UNCHANGED linked
    /\ UNCHANGED <<Checkout, hivemind, skipping, kills>>

Works == linked /\ \A s \in Exercised : text[s] = "new"

Verify ==
    /\ Running("verify")
    /\ \/ Works /\ Stop("ready")
       \/ Stop("failed")
    /\ UNCHANGED <<Checkout, hivemind, linked, skipping, kills>>

\* Killed between two writes, in the middle of one, or while cloning.
Kill ==
    /\ ~Running("idle") /\ kills < MaxKills
    /\ kills' = kills + 1
    /\ Stop("none")
    /\ \/ UNCHANGED Checkout
       \/ /\ Running("clone") /\ checkout = "none"
          /\ checkout' = "partial"
          /\ UNCHANGED <<text, drift, cut>>
       \/ \E s \in todo, left \in {"odd", "half"} :
             /\ Running("port") /\ Earlier(s) \cap todo = {}
             /\ text' = [t \in Sites |-> IF FileOf[t] = FileOf[s] THEN left ELSE text[t]]
             /\ cut' = cut \cup {FileOf[s]}
             /\ UNCHANGED <<checkout, drift>>
    /\ UNCHANGED <<hivemind, linked, skipping>>

Init ==
    /\ text = Fresh({}) /\ drift = {}
    /\ checkout = "none"
    /\ hivemind \in {"absent", "current", "other"}
    /\ linked = FALSE
    /\ stage = "idle" /\ skipping = FALSE /\ step = 0 /\ todo = {}
    /\ result = "none"
    /\ cut = {} /\ kills = 0

Next ==
    \/ \E m \in Machines, force, skip \in BOOLEAN : Start(m, force, skip)
    \/ Clone \/ Install \/ OpenPort \/ NextPatch \/ Link \/ Verify \/ Kill
    \/ \E s \in Sites : Write(s)

Spec == Init /\ [][Next]_vars

-----------------------------------------------------------------------------
TypeOK ==
    /\ text \in [Sites -> Texts]
    /\ checkout \in {"none", "partial", "whole"}
    /\ hivemind \in {"absent", "current", "other"}
    /\ linked \in BOOLEAN
    /\ stage \in Stages /\ skipping \in BOOLEAN
    /\ step \in 0..14 /\ todo \subseteq Sites
    /\ result \in {"none", "refused", "failed", "ready"}
    /\ drift \in Drifts \cup {{}} /\ cut \subseteq Files /\ kills \in 0..MaxKills

\* What a later run writes as a whole, whatever it finds there, and what no killed
\* run cut short.  A cut file also ends the two-file patches it comes first in.
Mendable(s) ==
    \/ s \in {"llama", "mixtral", "subpackage", "alias", "shim"}
    \/ \A t \in {s} \cup (Earlier(s) \cap {"headsConvert", "field"}) : FileOf[t] \notin cut

\* setup.py:8-9, "the codemod is idempotent, so re-running is safe": on an
\* upstream that reads as expected, once the codemod has ended well everything it
\* can mend is patched, wherever earlier runs of the command were killed.
RerunCompletes ==
    (stage \in {"link", "verify"} \/ result = "ready") /\ drift = {}
       => \A s \in Sites : Mendable(s) => text[s] = "new"

\* Importers are found by their old text only: whenever one of them has been
\* repointed at a shim that is missing or damaged, another is still unpatched, so
\* that the next run writes the shim again.
ShimComesBack ==
    text["shim"] # "new" /\ (\E s \in Importers : text[s] = "new") => Old(Importers) # {}
=============================================================================
