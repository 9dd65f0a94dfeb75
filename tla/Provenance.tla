------------------------------ MODULE Provenance ------------------------------
(***************************************************************************)
(* The release gate, tools/provenance: `generate` writes provenance.json   *)
(* and SHASUMS next to the wasm files of the release directory, `verify`   *)
(* compares them with what is there later.                                 *)
(*                                                                         *)
(* Every reading or writing of a file is a step, as is asking git for the  *)
(* revision and for the state of the tree: a build or a checkout may come  *)
(* in between, and the tool may be killed.  What decides the rest of the   *)
(* metadata, the toolchain, the lock file and the profile, is one thing,   *)
(* the setup, read in one step.  What a wasm file contains is what it was  *)
(* built from, and a digest stands for the contents.  One command runs at  *)
(* a time, on the default manifest path, as in script/provenance.sh.       *)
(*                                                                         *)
(* The manifests are those generate writes.  One edited by hand could also *)
(* fail to parse, name a file twice, or be of another schema or build      *)
(* type, which verify refuses.                                             *)
(***************************************************************************)
EXTENDS Integers, FiniteSets, FiniteSetsExt, Functions

CONSTANTS
    None, Torn,   \* no file; a file cut off while it was written
    Names,        \* wasm file names, numbered as they sort
    Tree,         \* the checkout with its toolchain, beside the files by name
    Revisions,    \* commits
    Setups,       \* what toolchain, lock file and profile may be
    Edits,        \* uncommitted changes a working tree may have
    Targets,      \* values of --target
    MaxMoves      \* bound: builds, removals and checkouts

ASSUME ProvenanceAssumption ==
    /\ Names \subseteq Nat /\ Tree \notin Names
    /\ None # Torn /\ None \notin Revisions

VARIABLES
    inputs,        \* the checkout and the toolchain
    artifacts,     \* the wasm files of the release directory
    manifest, manifest_tmp,  \* provenance.json and its temporary file
    shasums, shasums_tmp,    \* SHASUMS and its temporary file
    pc,            \* the next step of the command that runs
    command, target, todo, digests, meta, loaded,
                   \* its variables: loaded is the manifest read
    result,        \* of the command last run
    moves,         \* builds, removals and checkouts so far
    stale,         \* history: what changed since the command read it
    fresh,         \* history: what generate read last is as it was, and it finished
    cut_short      \* history: a generate was killed between its two files

files == <<manifest, manifest_tmp, shasums, shasums_tmp>>
locals == <<command, target, todo, digests, meta, loaded, stale>>
provVars == <<inputs, artifacts, files, locals, pc, result, moves, fresh, cut_short>>

Inputs == [revision: Revisions, setup: Setups, edits: Edits \cup {None}]

Artifacts == UNION {[names -> Inputs] : names \in SUBSET Names}

\* subject, and of build what identifies it; git_ref, host and started_on are
\* context that nothing compares.
Manifest ==
    [subject: Artifacts, target: Targets, revision: Revisions, setup: Setups, git_dirty: BOOLEAN]

nothing == [n \in {} |-> None]
unread == [revision |-> None, setup |-> None, edits |-> None]

ProvInit ==
    /\ inputs \in [revision: Revisions, setup: Setups, edits: {None}]
    /\ artifacts = nothing
    /\ manifest = None /\ manifest_tmp = None /\ shasums = None /\ shasums_tmp = None
    /\ pc = "idle" /\ result = None
    /\ command = "none" /\ target = None /\ todo = {} /\ digests = nothing
    /\ meta = unread /\ loaded = None /\ stale = {}
    /\ moves = 0 /\ fresh = FALSE /\ cut_short = FALSE

-----------------------------------------------------------------------------
(* Around the tool.                                                        *)

\* What the running command has read of it is stale from now on.
moved(what, seen) ==
    /\ moves < MaxMoves
    /\ moves' = moves + 1
    /\ stale' = IF seen THEN stale \cup {what} ELSE stale
    /\ fresh' = FALSE
    /\ UNCHANGED <<files, command, target, todo, digests, meta, loaded, pc, result, cut_short>>

\* It has listed the directory, and hashed the file if the list had it.
seen_file(n) == pc \notin {"idle", "list"} /\ n \notin todo

Checkout(i) ==
    /\ inputs' = i
    /\ UNCHANGED artifacts
    /\ moved(Tree, meta.revision # None)

Build(n) ==
    /\ artifacts' = [m \in DOMAIN artifacts \cup {n} |-> IF m = n THEN inputs ELSE artifacts[m]]
    /\ UNCHANGED inputs
    /\ moved(n, seen_file(n))

Remove(n) ==
    /\ artifacts' = Restrict(artifacts, DOMAIN artifacts \ {n})
    /\ UNCHANGED inputs
    /\ moved(n, seen_file(n))

outside == <<inputs, artifacts, moves>>

-----------------------------------------------------------------------------
(* What both commands do.                                                  *)

start(name, t, step) ==
    /\ pc = "idle"
    /\ command' = name /\ target' = t
    /\ result' = None /\ pc' = step

goto(step) == pc' = step /\ UNCHANGED result

\* The command's variables go with it.
finish(outcome) ==
    /\ pc' = "idle" /\ result' = outcome
    /\ command' = "none" /\ target' = None /\ todo' = {} /\ digests' = nothing
    /\ meta' = unread /\ loaded' = None /\ stale' = {}

\* list_wasm_files, and NoWasmArtifacts when there are none.
list_wasm_files ==
    /\ pc = "list"
    /\ IF artifacts = nothing
       THEN finish("failed")
       ELSE /\ todo' = DOMAIN artifacts
            /\ goto("hash")
            /\ UNCHANGED <<command, target, digests, meta, loaded, stale>>
    /\ UNCHANGED <<outside, files, fresh, cut_short>>

\* hash_file on the next name; a file that is gone by now is an error.
hash_file ==
    /\ pc = "hash"
    /\ LET n == Min(todo) IN
       IF n \in DOMAIN artifacts
       THEN /\ digests' = [m \in DOMAIN digests \cup {n} |->
                              IF m = n THEN artifacts[n] ELSE digests[m]]
            /\ todo' = todo \ {n}
            /\ IF todo # {n} THEN goto("hash")
               ELSE goto(IF command = "verify" THEN "check_artifacts" ELSE "revision")
            /\ UNCHANGED <<command, target, meta, loaded, stale>>
       ELSE finish("failed")
    /\ UNCHANGED <<outside, files, fresh, cut_short>>

\* git_metadata, which asks git twice.
read_revision ==
    /\ pc = "revision"
    /\ meta' = [meta EXCEPT !.revision = inputs.revision]
    /\ goto("status")
    /\ UNCHANGED <<outside, files, command, target, todo, digests, loaded, stale, fresh, cut_short>>

read_status ==
    /\ pc = "status"
    /\ meta' = [meta EXCEPT !.edits = inputs.edits]
    /\ goto("setup")
    /\ UNCHANGED <<outside, files, command, target, todo, digests, loaded, stale, fresh, cut_short>>

\* The rest of collect_metadata.  A dirty working tree is recorded, with a
\* warning.
read_setup ==
    /\ pc = "setup"
    /\ meta' = [meta EXCEPT !.setup = inputs.setup]
    /\ goto(IF command = "verify" THEN "check_environment" ELSE "write_manifest")
    /\ UNCHANGED <<outside, files, command, target, todo, digests, loaded, stale, fresh, cut_short>>

-----------------------------------------------------------------------------
(* generate.                                                               *)

start_generate(t) ==
    /\ start("generate", t, "list")
    /\ fresh' = FALSE
    /\ UNCHANGED <<outside, files, todo, digests, meta, loaded, stale, cut_short>>

described ==
    [subject |-> digests, target |-> target,
     revision |-> meta.revision, setup |-> meta.setup, git_dirty |-> meta.edits # None]

\* Mutant: no temporary file.
open_manifest_in_place ==
    /\ pc = "write_manifest"
    /\ manifest' = Torn
    /\ goto("fill_manifest")
    /\ UNCHANGED <<outside, manifest_tmp, shasums, shasums_tmp, locals, fresh, cut_short>>

\* write_atomic, in three steps: the temporary file is opened, filled and
\* renamed.
open_manifest ==
    /\ pc = "write_manifest"
    /\ manifest_tmp' = Torn
    /\ goto("fill_manifest")
    /\ UNCHANGED <<outside, manifest, shasums, shasums_tmp, locals, fresh, cut_short>>

fill_manifest ==
    /\ pc = "fill_manifest"
    /\ manifest_tmp' = described
    /\ goto("rename_manifest")
    /\ UNCHANGED <<outside, manifest, shasums, shasums_tmp, locals, fresh, cut_short>>

rename_manifest ==
    /\ pc = "rename_manifest"
    /\ manifest' = manifest_tmp /\ manifest_tmp' = None
    /\ goto("write_shasums")
    /\ UNCHANGED <<outside, shasums, shasums_tmp, locals, fresh, cut_short>>

open_shasums ==
    /\ pc = "write_shasums"
    /\ shasums_tmp' = Torn
    /\ goto("fill_shasums")
    /\ UNCHANGED <<outside, shasums, manifest, manifest_tmp, locals, fresh, cut_short>>

\* Mutant: lists the directory anew.
shasums_text_anew == artifacts

\* The digests of the manifest just written.
shasums_text == digests

fill_shasums ==
    /\ pc = "fill_shasums"
    /\ shasums_tmp' = shasums_text
    /\ goto("rename_shasums")
    /\ UNCHANGED <<outside, shasums, manifest, manifest_tmp, locals, fresh, cut_short>>

rename_shasums ==
    /\ pc = "rename_shasums"
    /\ shasums' = shasums_tmp /\ shasums_tmp' = None
    /\ finish("generated")
    /\ fresh' = (stale = {}) /\ cut_short' = FALSE
    /\ UNCHANGED <<outside, manifest, manifest_tmp>>

-----------------------------------------------------------------------------
(* verify.                                                                 *)

\* The manifest is read before anything else.
start_verify(t) ==
    /\ manifest # None
    /\ start("verify", t, "list")
    /\ loaded' = manifest
    /\ UNCHANGED <<outside, files, todo, digests, meta, stale, fresh, cut_short>>

ManifestMissing ==
    /\ manifest = None
    /\ pc = "idle" /\ result' = "failed"
    /\ UNCHANGED <<outside, files, locals, pc, fresh, cut_short>>

\* Mutant: a file the manifest does not name goes unseen.
intact_if_listed ==
    \A n \in DOMAIN loaded.subject : n \in DOMAIN digests /\ digests[n] = loaded.subject[n]

\* MissingArtifact, HashMismatch, UnlistedArtifact.
intact ==
    /\ \A n \in DOMAIN loaded.subject :
          n \in DOMAIN digests /\ digests[n] = loaded.subject[n]
    /\ DOMAIN digests \subseteq DOMAIN loaded.subject

check_artifacts ==
    /\ pc = "check_artifacts"
    /\ IF intact THEN goto("revision") /\ UNCHANGED locals ELSE finish("failed")
    /\ UNCHANGED <<outside, files, fresh, cut_short>>

\* Mutant: a dirty tree is refused.
consistent_when_clean ==
    /\ target = loaded.target /\ ~loaded.git_dirty
    /\ meta.revision = loaded.revision /\ meta.setup = loaded.setup

\* MetadataMismatch.  git_dirty is not compared, on either side.
consistent ==
    /\ target = loaded.target
    /\ meta.revision = loaded.revision /\ meta.setup = loaded.setup

check_environment ==
    /\ pc = "check_environment"
    /\ IF consistent THEN finish("verified") ELSE finish("failed")
    /\ UNCHANGED <<outside, files, fresh, cut_short>>

-----------------------------------------------------------------------------
\* The tool is killed.  What it has written so far stays.
Kill ==
    /\ pc # "idle"
    /\ finish("killed")
    /\ cut_short' = (cut_short \/ pc \in {"write_shasums", "fill_shasums", "rename_shasums"})
    /\ UNCHANGED <<outside, files, fresh>>

ProvNext ==
    \/ \E i \in Inputs : Checkout(i)
    \/ \E n \in Names : Build(n) \/ Remove(n)
    \/ \E t \in Targets : start_generate(t) \/ start_verify(t)
    \/ list_wasm_files \/ hash_file
    \/ read_revision \/ read_status \/ read_setup
    \/ open_manifest \/ fill_manifest \/ rename_manifest
    \/ open_shasums \/ fill_shasums \/ rename_shasums
    \/ ManifestMissing \/ check_artifacts \/ check_environment
    \/ Kill

ProvSpec == ProvInit /\ [][ProvNext]_provVars

-----------------------------------------------------------------------------
\* The two files are whole or absent whenever anybody looks, wherever the tool
\* was killed; only temporary files are ever torn.
FilesAreWhole ==
    /\ manifest \in Manifest \cup {None}
    /\ shasums \in Artifacts \cup {None}
    /\ manifest_tmp \in Manifest \cup {None, Torn}
    /\ shasums_tmp \in Artifacts \cup {None, Torn}

\* Between commands SHASUMS lists the digests of the manifest, whatever was
\* built in the meantime, unless a generate was killed between its two renames
\* and none has finished since.  In that state verify, which reads no SHASUMS,
\* may pass on a manifest that SHASUMS contradicts.
ShasumsAgree ==
    pc = "idle" /\ manifest # None /\ ~cut_short => shasums = manifest.subject

\* The directory has of a file what the manifest says: its contents, or that
\* it is not there.
pinned(n) ==
    /\ n \in DOMAIN artifacts <=> n \in DOMAIN manifest.subject
    /\ n \in DOMAIN artifacts => artifacts[n] = manifest.subject[n]

\* Whatever is built, removed or checked out while verify runs: when it
\* passes, each file is what the manifest pins, listed or not, and so are the
\* revision and the setup, but for those that changed after verify had read
\* them.  A change that comes before the reading never slips through.
VerifiedIsPinned ==
    [][ pc # "idle" /\ pc' = "idle" /\ result' = "verified" =>
            /\ \A n \in Names \ stale : pinned(n)
            /\ Tree \notin stale =>
                  manifest.revision = inputs.revision /\ manifest.setup = inputs.setup
            /\ manifest.target = target ]_provVars

\* The gate does not cry wolf: with the target it was generated for, a
\* manifest passes unless something changed after its generate had read it.
\* What was built or checked out under that generate before is in the
\* manifest.
FreshManifestPasses ==
    [][ /\ command = "verify" /\ fresh
           /\ pc # "idle" /\ pc' = "idle" /\ result' = "failed"
           => target # manifest.target ]_provVars
===============================================================================
