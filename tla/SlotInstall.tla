---------------------------- MODULE SlotInstall ----------------------------
(***************************************************************************)
(* The installation of a slot (src/doge/platform/slots/install.py) beside  *)
(* runtimes that load the installed slots (loader.py, registry.py and      *)
(* bootstrap/runtime_factories/slots.py).                                  *)
(*                                                                         *)
(* A slot is a directory with a manifest, perhaps a signature, perhaps the *)
(* package of a provider.  The installer copies the three into a stage     *)
(* directory beside the final one and renames it; a slot that is installed *)
(* already is topped up in place.  Processes die and copies fail at every  *)
(* file.  The slots are one slot: two of them have no file in common.      *)
(* Installations of it follow one another.                                 *)
(***************************************************************************)
EXTENDS Naturals, FiniteSets

CONSTANTS
    Manifest,  \* contents of the manifest
    Package,   \* provider packages; a signature that covers one names it
    Loader,    \* processes that build their registry of slots
    MaxFaults  \* bound: installers that die, and file operations that fail

SlotInstallAssumption ==
    /\ {"none", "torn", "manifest only"} \cap (Manifest \cup Package) = {}
    /\ MaxFaults \in Nat

VARIABLES
    stage, dest,   \* the two directories
    pc, src, open, \* the installer: its step, its source, TRUE inside a file copy
    faults,
    phase, seen, unread, loaded \* the loaders

installer == <<pc, src, open, faults>>
loaders   == <<phase, seen, unread, loaded>>
vars      == <<stage, dest, installer, loaders>>

-----------------------------------------------------------------------------
(* Directories. *)

File    == {"manifest", "signature", "package"}
Missing == [there |-> FALSE, manifest |-> "none", signature |-> "none", package |-> "none"]

(* What the installer accepts as a source: unsigned, with a signature that *)
(* covers the manifest, or with one that covers the package, too.  Only    *)
(* then is the package copied.                                             *)
Release ==
    {r \in [there : {TRUE}, manifest : Manifest,
            signature : {"none", "manifest only"} \cup Package, package : {"none"} \cup Package] :
        r.package = IF r.signature \in Package THEN r.signature ELSE "none"}

(* provider_execution_decision: the signature verifies against the files   *)
(* beside it and covers the package.                                       *)
Runnable(dir) ==
    /\ dir.manifest \in Manifest
    /\ dir.signature \in Package
    /\ dir.package = dir.signature

At(path) == IF path = "stage" THEN stage ELSE dest

Init ==
    /\ stage = Missing /\ dest = Missing
    /\ pc = "idle" /\ src \in Release /\ open = FALSE
    /\ faults = 0
    /\ phase = [l \in Loader |-> "idle"]
    /\ seen = [l \in Loader |-> {}]
    /\ unread = [l \in Loader |-> {}]
    /\ loaded = [l \in Loader |-> {}]

-----------------------------------------------------------------------------
(* The installer. *)

(* The source was inspected, its signature verified, the policy satisfied. *)
Begin ==
    /\ pc = "idle"
    /\ pc' = "look"
    /\ src' \in Release
    /\ UNCHANGED <<stage, dest, open, faults, loaders>>

(* Mutant: a stage directory means that somebody else is installing. *)
LookBusy ==
    /\ pc = "look"
    /\ pc' = CASE dest.manifest = "none" -> IF stage.there THEN "idle" ELSE "clear"
               [] dest.manifest = src.manifest /\ src.signature # "none" -> "top signature"
               [] dest.manifest = src.manifest /\ src.signature = "none" -> "done"
               [] OTHER -> "idle"
    /\ UNCHANGED <<stage, dest, src, open, faults, loaders>>

(* The installed manifest decides: none, the same one, or a different one, *)
(* which is an error.                                                      *)
Look ==
    /\ pc = "look"
    /\ pc' = CASE dest.manifest = "none" -> "clear"
               [] dest.manifest = src.manifest /\ src.signature # "none" -> "top signature"
               [] dest.manifest = src.manifest /\ src.signature = "none" -> "done"
               [] OTHER -> "idle"
    /\ UNCHANGED <<stage, dest, src, open, faults, loaders>>

(* Mutant: a stage directory that is there is used as it is. *)
ReuseStage ==
    /\ pc = "clear"
    /\ pc' = IF stage.there THEN "manifest" ELSE "make"
    /\ UNCHANGED <<stage, dest, src, open, faults, loaders>>

(* What is left of an earlier installation goes away, file by file. *)
Clear ==
    /\ pc = "clear"
    /\ \/ \E f \in File :
            stage[f] # "none" /\ stage' = [stage EXCEPT ![f] = "none"] /\ pc' = pc
       \/ /\ \A f \in File : stage[f] = "none"
          /\ stage' = Missing /\ pc' = "make"
    /\ UNCHANGED <<dest, src, open, faults, loaders>>

(* mkdir: a directory that is there would be an error. *)
Make ==
    /\ pc = "make" /\ ~stage.there
    /\ pc' = "manifest"
    /\ stage' = [stage EXCEPT !.there = TRUE]
    /\ UNCHANGED <<dest, src, open, faults, loaders>>

(* The next file that the source has. *)
After(file) ==
    IF file = "manifest" /\ src.signature # "none" THEN "signature"
    ELSE IF file = "signature" /\ src.package # "none" THEN "package"
    ELSE "promote"

(* A file is truncated or a directory made, and later it has its contents. *)
Copy ==
    /\ pc \in {"manifest", "signature", "package"}
    /\ open' = ~open
    /\ \/ ~open /\ stage' = [stage EXCEPT ![pc] = "torn"] /\ pc' = pc
       \/ open /\ stage' = [stage EXCEPT ![pc] = src[pc]] /\ pc' = After(pc)
    /\ UNCHANGED <<dest, src, faults, loaders>>

(* Mutant: the manifest is written when the directory has its name. *)
PromoteThenManifest ==
    /\ pc = "promote"
    /\ \/ /\ ~dest.there /\ pc' = pc
          /\ dest' = [stage EXCEPT !.manifest = "torn"] /\ stage' = Missing
       \/ /\ dest.there /\ pc' = "done"
          /\ dest' = [dest EXCEPT !.manifest = src.manifest] /\ stage' = stage
    /\ UNCHANGED <<src, open, faults, loaders>>

Promote ==
    /\ pc = "promote" /\ ~dest.there
    /\ pc' = "done"
    /\ dest' = stage /\ stage' = Missing
    /\ UNCHANGED <<src, open, faults, loaders>>

(* mkdir, a copy or the rename fails: the stage directory is removed, as   *)
(* far as that succeeds.                                                   *)
StagingFails ==
    /\ pc \in {"make", "manifest", "signature", "package", "promote"}
    /\ faults < MaxFaults /\ faults' = faults + 1
    /\ pc' = "idle" /\ open' = FALSE
    /\ \/ stage' = Missing
       \/ \E gone \in SUBSET File :
            stage' = [d \in DOMAIN stage |-> IF d \in gone THEN "none" ELSE stage[d]]
    /\ UNCHANGED <<dest, src, loaders>>

(* The slot is installed already: the signature is replaced in place. *)
TopUpSignature ==
    /\ pc = "top signature"
    /\ open' = ~open
    /\ \/ ~open /\ dest' = [dest EXCEPT !.signature = "torn"] /\ pc' = pc
       \/ /\ open /\ dest' = [dest EXCEPT !.signature = src.signature]
          /\ pc' = IF src.package # "none" THEN "top package" ELSE "done"
    /\ UNCHANGED <<stage, src, faults, loaders>>

(* Mutant: a package that is there is not compared. *)
TopUpAnyPackage ==
    /\ pc = "top package"
    /\ \/ open /\ dest' = [dest EXCEPT !.package = src.package] /\ open' = FALSE /\ pc' = "done"
       \/ ~open /\ dest.package = "none"
          /\ dest' = [dest EXCEPT !.package = "torn"] /\ open' = TRUE /\ pc' = pc
       \/ ~open /\ dest.package # "none" /\ pc' = "done" /\ UNCHANGED <<dest, open>>
    /\ UNCHANGED <<stage, src, faults, loaders>>

(* _copy_verified_package into the installed directory: a package that is  *)
(* there already is compared, and a different one, or the remains of an    *)
(* earlier copy, is an error.                                              *)
TopUpPackage ==
    /\ pc = "top package"
    /\ \/ open /\ dest' = [dest EXCEPT !.package = src.package] /\ open' = FALSE /\ pc' = "done"
       \/ ~open /\ dest.package = "none"
          /\ dest' = [dest EXCEPT !.package = "torn"] /\ open' = TRUE /\ pc' = pc
       \/ /\ ~open /\ dest.package # "none"
          /\ pc' = IF dest.package = src.package THEN "done" ELSE "idle"
          /\ UNCHANGED <<dest, open>>
    /\ UNCHANGED <<stage, src, faults, loaders>>

(* Outside the handler that removes the stage nothing is cleaned up. *)
OtherwiseFails ==
    /\ pc \in {"clear", "top signature", "top package"}
    /\ faults < MaxFaults /\ faults' = faults + 1
    /\ pc' = "idle" /\ open' = FALSE
    /\ UNCHANGED <<stage, dest, src, loaders>>

(* The audit row is appended and the result returned. *)
Return ==
    /\ pc = "done"
    /\ pc' = "idle"
    /\ UNCHANGED <<stage, dest, src, open, faults, loaders>>

Die ==
    /\ pc # "idle" /\ faults < MaxFaults
    /\ pc' = "idle" /\ open' = FALSE /\ faults' = faults + 1
    /\ UNCHANGED <<stage, dest, src, loaders>>

-----------------------------------------------------------------------------
(* A runtime that builds its registry. *)

(* The entries of the install directory are listed.  The pattern matches   *)
(* hidden names, and the stage directory is one.                           *)
Scan(l) ==
    LET found == {p \in {"stage", "dest"} : At(p).there} IN
    /\ phase[l] \in {"idle", "built", "failed"}
    /\ phase' = [phase EXCEPT ![l] = "probing"]
    /\ seen' = [seen EXCEPT ![l] = found]
    /\ unread' = [unread EXCEPT ![l] = found]
    /\ loaded' = [loaded EXCEPT ![l] = {}]
    /\ UNCHANGED <<stage, dest, installer>>

(* Those without a manifest are passed over. *)
Probe(l) ==
    /\ phase[l] = "probing"
    /\ phase' = [phase EXCEPT ![l] = "reading"]
    /\ unread' = [unread EXCEPT ![l] = {p \in @ : At(p).manifest # "none"}]
    /\ UNCHANGED <<stage, dest, installer, seen, loaded>>

(* A manifest that cannot be read any more, or not yet, is an error. *)
Read(l) ==
    /\ phase[l] = "reading"
    /\ \E p \in unread[l] :
         /\ p = "dest" => "stage" \notin unread[l]
         /\ unread' = [unread EXCEPT ![l] = @ \ {p}]
         /\ IF At(p).manifest \in Manifest
            THEN loaded' = [loaded EXCEPT ![l] = @ \cup {p}] /\ UNCHANGED phase
            ELSE phase' = [phase EXCEPT ![l] = "failed"] /\ UNCHANGED loaded
    /\ UNCHANGED <<stage, dest, installer, seen>>

(* And so are two manifests of one slot. *)
Register(l) ==
    /\ phase[l] = "reading" /\ unread[l] = {}
    /\ phase' = [phase EXCEPT ![l] = IF Cardinality(loaded[l]) > 1 THEN "failed" ELSE "built"]
    /\ UNCHANGED <<stage, dest, installer, seen, unread, loaded>>

-----------------------------------------------------------------------------
Install ==
    \/ Look \/ Clear \/ Make \/ Copy \/ Promote
    \/ TopUpSignature \/ TopUpPackage \/ Return

Next ==
    \/ Begin \/ Look \/ Clear \/ Make \/ Copy \/ Promote \/ StagingFails
    \/ TopUpSignature \/ TopUpPackage \/ OtherwiseFails \/ Return \/ Die
    \/ \E l \in Loader : Scan(l) \/ Probe(l) \/ Read(l) \/ Register(l)

Spec == Init /\ [][Next]_vars

(* An installer that has begun goes on. *)
FairSpec == Spec /\ WF_vars(Install)

-----------------------------------------------------------------------------
(* Properties. *)

(* What is renamed into place is a whole release, whatever died or failed  *)
(* before and whatever it left behind.                                     *)
PromotedWhole == [][~dest.there /\ dest'.there => dest' \in Release]_vars

(* An installation that reports success, a new one or one that topped up,  *)
(* left the slot as its source describes it, and able to run if the source *)
(* is.                                                                     *)
SuccessMeansInstalled ==
    pc = "done" =>
        /\ dest.manifest = src.manifest
        /\ src.signature # "none" => dest.signature = src.signature
        /\ Runnable(src) => Runnable(dest)

(* A runtime fails to build its registry only if it saw a stage directory, *)
(* and never sees the slot twice: an installed slot does not stand in its  *)
(* way, even while it is topped up.                                        *)
FailsOnlyAtAStage ==
    \A l \in Loader : /\ phase[l] = "failed" => "stage" \in seen[l]
                      /\ Cardinality(loaded[l]) <= 1

(* What a dead or failed installer left in the stage directory goes away   *)
(* when the slot is installed again (the faults end: they are bounded).    *)
Heals == []<>(pc = "look") => (stage.there ~> ~stage.there)
=============================================================================
