--------------------------- MODULE ProvenanceProofs ---------------------------
(***************************************************************************)
(* What the release gate promises, proved for any wasm files, revisions    *)
(* and targets, whatever is built or checked out between two steps of the  *)
(* tool and wherever it is killed.                                         *)
(*                                                                         *)
(* The invariant has three parts: what is in the files at each step of a   *)
(* generate, what a command has read so far and of that what still holds,  *)
(* and what an undisturbed sequence of generate and verify knows of the    *)
(* directory.                                                              *)
(***************************************************************************)
EXTENDS Provenance, WellFoundedInduction, TLAPS

Writing == {"write_manifest", "fill_manifest", "rename_manifest",
            "write_shasums", "fill_shasums", "rename_shasums"}
BetweenFiles == {"write_shasums", "fill_shasums", "rename_shasums"}
SetupRead == Writing \cup {"check_environment"}
RevisionRead == SetupRead \cup {"status", "setup"}
AfterHashing == RevisionRead \cup {"check_artifacts", "revision"}

ProvTypeOK ==
    /\ inputs \in Inputs /\ artifacts \in Artifacts
    /\ FilesAreWhole
    /\ command \in {"none", "generate", "verify"}
    /\ pc \in {"idle", "list", "hash"} \cup AfterHashing
    /\ target \in Targets \cup {None} /\ todo \in SUBSET Names /\ digests \in Artifacts
    /\ meta \in [revision: Revisions \cup {None}, setup: Setups \cup {None},
                 edits: Edits \cup {None}]
    /\ stale \in SUBSET (Names \cup {Tree})
    /\ fresh \in BOOLEAN /\ cut_short \in BOOLEAN

\* What generate has gathered and written when it comes to a step, and what
\* the two files have to do with each other when it is not between them.
FilesInv ==
    /\ pc # "idle" => command \in {"generate", "verify"} /\ target \in Targets
    /\ pc \in Writing => command = "generate"
    /\ pc \in RevisionRead => meta.revision \in Revisions
    /\ pc \in SetupRead => meta.setup \in Setups
    /\ pc = "rename_manifest" => manifest_tmp = described
    /\ pc \in BetweenFiles => manifest = described
    /\ pc = "rename_shasums" => shasums_tmp = digests
    /\ manifest # None /\ ~cut_short /\ pc \notin BetweenFiles => shasums = manifest.subject

\* What a command knows of the file n: what the directory has of it now.
known(n) ==
    /\ n \in DOMAIN digests <=> n \in DOMAIN artifacts
    /\ n \in DOMAIN digests => digests[n] = artifacts[n]

\* What a command has read is still so, but for what changed since.
HashInv ==
    /\ pc = "hash" <=> todo # {}
    /\ pc \in {"idle", "list"} => stale = {} /\ meta = unread /\ digests = nothing
    /\ pc \in AfterHashing => DOMAIN digests # {}
    /\ pc \notin {"idle", "list"} => \A n \in Names \ (stale \cup todo) : known(n)
    /\ Tree \notin stale =>
         /\ pc \in RevisionRead => meta.revision = inputs.revision
         /\ pc \in SetupRead => meta.setup = inputs.setup

\* What a verify compares with, and what is known since a generate that
\* nothing has disturbed.
GateInv ==
    /\ pc = "idle" => command = "none"
    /\ command = "verify" => loaded = manifest /\ manifest \in Manifest
    /\ pc \in {"check_artifacts", "check_environment"} => command = "verify"
    /\ command = "verify" /\ pc \in RevisionRead \cup {"revision"} => intact
    /\ command = "generate" => ~fresh
    /\ command = "verify" /\ fresh => stale = {} /\ todo \subseteq DOMAIN artifacts
    /\ fresh => /\ manifest \in Manifest
                /\ manifest.subject = artifacts /\ DOMAIN artifacts # {}
                /\ manifest.revision = inputs.revision /\ manifest.setup = inputs.setup

ToolInv == ProvTypeOK /\ FilesInv /\ HashInv /\ GateInv

-----------------------------------------------------------------------------
(* The directory and what was hashed of it.                                *)

LEMMA NamedBy ==
    ASSUME NEW f, NEW names \in SUBSET Names, f \in [names -> Inputs]
    PROVE  f \in Artifacts
BY DEF Artifacts

LEMMA ArtifactsShape ==
    ASSUME NEW f \in Artifacts
    PROVE  /\ DOMAIN f \subseteq Names /\ f \in [DOMAIN f -> Inputs]
           /\ f = nothing <=> DOMAIN f = {}
<1>1. PICK names \in SUBSET Names : f \in [names -> Inputs]
  BY DEF Artifacts
<1>2. nothing \in [{} -> Inputs]
  BY DEF nothing
<1> QED
  BY <1>1, <1>2

LEMMA NothingThere == nothing \in Artifacts /\ DOMAIN nothing = {}
<1>1. nothing \in [{} -> Inputs]
  BY DEF nothing
<1> QED
  BY <1>1, NamedBy

\* A file is built, or hashed.
LEMMA FileAdded ==
    ASSUME NEW f \in Artifacts, NEW n \in Names, NEW i \in Inputs
    PROVE  [m \in DOMAIN f \cup {n} |-> IF m = n THEN i ELSE f[m]] \in Artifacts
<1>1. DOMAIN f \subseteq Names /\ f \in [DOMAIN f -> Inputs]
  BY ArtifactsShape
<1>2. [m \in DOMAIN f \cup {n} |-> IF m = n THEN i ELSE f[m]] \in [DOMAIN f \cup {n} -> Inputs]
  BY <1>1
<1> QED
  BY <1>1, <1>2, NamedBy

LEMMA FileRemoved ==
    ASSUME NEW f \in Artifacts, NEW n
    PROVE  Restrict(f, DOMAIN f \ {n}) \in Artifacts
<1>1. DOMAIN f \subseteq Names /\ f \in [DOMAIN f -> Inputs]
  BY ArtifactsShape
<1>2. Restrict(f, DOMAIN f \ {n}) \in [DOMAIN f \ {n} -> Inputs]
  BY <1>1 DEF Restrict
<1>3. DOMAIN f \ {n} \in SUBSET Names
  BY <1>1
<1> QED
  BY <1>2, <1>3, NamedBy

\* Two directories with the same files are the same.
LEMMA SameFiles ==
    ASSUME NEW f \in Artifacts, NEW g \in Artifacts, DOMAIN f = DOMAIN g,
           \A n \in DOMAIN f : f[n] = g[n]
    PROVE  f = g
BY ArtifactsShape

\* The next name to hash is one that is left.
LEMMA NextName ==
    ASSUME NEW S \in SUBSET Names, S # {}
    PROVE  Min(S) \in S
<1>1. S \in SUBSET Nat
  BY ProvenanceAssumption
<1>2. PICK m \in S : \A k \in S : ~(<<k, m>> \in OpToRel(<, Nat))
  BY <1>1, NatLessThanWellFounded, WFMin
<1>3. ASSUME NEW k \in S PROVE m =< k
  <2>1. k \in Nat /\ m \in Nat
    BY <1>1
  <2>2. k < m => <<k, m>> \in OpToRel(<, Nat)
    BY <2>1 DEF OpToRel
  <2>3. ~(k < m)
    BY <1>2, <2>2
  <2> QED BY <2>1, <2>3
<1> QED
  BY <1>3 DEF Min

\* A manifest is what generate makes of digests and metadata.
LEMMA DescribedIsManifest ==
    ASSUME digests \in Artifacts, target \in Targets, meta.revision \in Revisions,
           meta.setup \in Setups
    PROVE  /\ described \in Manifest
           /\ described.subject = digests /\ described.target = target
           /\ described.revision = meta.revision /\ described.setup = meta.setup
BY DEF described, Manifest

-----------------------------------------------------------------------------
(* Every step keeps the invariant.                                         *)

LEMMA ToolStarts == ProvInit => ToolInv
<1> SUFFICES ASSUME ProvInit PROVE ToolInv
  OBVIOUS
<1> USE DEF Writing, BetweenFiles, SetupRead, RevisionRead, AfterHashing
<1>1. ProvTypeOK
  BY NothingThere DEF ProvInit, ProvTypeOK, FilesAreWhole, Inputs, unread
<1> QED
  BY <1>1 DEF ProvInit, ToolInv, FilesInv, HashInv, GateInv

\* The directory has of n what it had.
unmoved(n) ==
    /\ n \in DOMAIN artifacts <=> n \in DOMAIN artifacts'
    /\ n \in DOMAIN artifacts => artifacts'[n] = artifacts[n]

\* The world moves.  What the move makes stale is no longer claimed, and the
\* rest of what the command has read is as it was.
LEMMA MoveKeeps ==
    ASSUME ToolInv, NEW what \in Names \cup {Tree}, fresh' = FALSE,
           UNCHANGED <<files, pc, command, target, todo, digests, meta, loaded, cut_short>>,
           inputs' \in Inputs, artifacts' \in Artifacts,
           stale' = stale \/ stale' = stale \cup {what},
           pc \in {"idle", "list"} => UNCHANGED stale,
           pc \notin {"idle", "list"} => \A n \in Names \ (stale' \cup todo) : unmoved(n),
           Tree \notin stale' /\ pc \in RevisionRead => UNCHANGED inputs
    PROVE  ToolInv'
<1> USE DEF files
<1>u. UNCHANGED <<files, pc, command, target, todo, digests, meta, loaded, cut_short>> /\ ~fresh'
  OBVIOUS
<1>s. stale \subseteq stale' /\ stale' \in SUBSET (Names \cup {Tree})
  <2>1. stale \in SUBSET (Names \cup {Tree})
    BY DEF ToolInv, ProvTypeOK
  <2> QED BY <2>1
<1>1. ProvTypeOK'
  BY <1>u, <1>s DEF ToolInv, ProvTypeOK, FilesAreWhole
<1>2. FilesInv'
  BY <1>u DEF ToolInv, FilesInv, described
<1>3. HashInv'
  <2>1. ASSUME pc \notin {"idle", "list"}, NEW n \in Names \ (stale' \cup todo)
        PROVE  known(n)'
    BY <1>u, <1>s, <2>1 DEF ToolInv, HashInv, known, unmoved
  <2>2. Tree \notin stale' =>
            /\ pc \in RevisionRead => meta.revision = inputs.revision'
            /\ pc \in SetupRead => meta.setup = inputs.setup'
    BY <1>s DEF ToolInv, HashInv, RevisionRead
  <2> QED BY <1>u, <2>1, <2>2 DEF ToolInv, HashInv
<1>4. GateInv'
  BY <1>u DEF ToolInv, GateInv, intact
<1> QED
  BY <1>1, <1>2, <1>3, <1>4 DEF ToolInv

\* Nothing of the checkout has been read before the revision.
LEMMA TreeMoves ==
    ASSUME ToolInv, NEW i \in Inputs, Checkout(i)
    PROVE  ToolInv'
<1>1. /\ inputs' \in Inputs /\ UNCHANGED artifacts /\ fresh' = FALSE
      /\ UNCHANGED <<files, pc, command, target, todo, digests, meta, loaded, cut_short>>
      /\ stale' = IF meta.revision # None THEN stale \cup {Tree} ELSE stale
  BY DEF Checkout, moved
<1>2. artifacts' \in Artifacts
  BY <1>1 DEF ToolInv, ProvTypeOK
<1>3. (pc \in {"idle", "list"} => UNCHANGED stale) /\ \A n \in Names : unmoved(n)
  BY <1>1 DEF ToolInv, HashInv, unread, unmoved
<1>4. pc \in RevisionRead => Tree \in stale'
  BY <1>1, ProvenanceAssumption DEF ToolInv, FilesInv
<1> QED
  BY <1>1, <1>2, <1>3, <1>4, MoveKeeps

\* A file is built or removed.
LEMMA FileMoves ==
    ASSUME ToolInv, NEW n \in Names, moved(n, seen_file(n)), UNCHANGED inputs,
           artifacts' \in Artifacts,
           \A m \in Names \ {n} : unmoved(m)
    PROVE  ToolInv'
<1>1. /\ stale' = IF seen_file(n) THEN stale \cup {n} ELSE stale
      /\ fresh' = FALSE
      /\ UNCHANGED <<files, pc, command, target, todo, digests, meta, loaded, cut_short>>
  BY DEF moved
<1>2. pc \in {"idle", "list"} => UNCHANGED stale
  BY <1>1 DEF seen_file
<1>3. pc \notin {"idle", "list"} /\ n \notin todo => n \in stale'
  BY <1>1 DEF seen_file
<1>4. inputs' \in Inputs
  BY DEF ToolInv, ProvTypeOK
<1>5. pc \notin {"idle", "list"} => \A m \in Names \ (stale' \cup todo) : unmoved(m)
  BY <1>3
<1>6. n \in Names \cup {Tree} /\ (stale' = stale \/ stale' = stale \cup {n})
  BY <1>1
<1> HIDE DEF seen_file
<1> QED
  BY <1>1, <1>2, <1>4, <1>5, <1>6, MoveKeeps

LEMMA CommandStarts ==
    ASSUME ToolInv, NEW t \in Targets, start_generate(t) \/ start_verify(t)
    PROVE  ToolInv'
<1> USE DEF start_generate, start_verify, start, outside, files
<1> USE DEF Writing, BetweenFiles, SetupRead, RevisionRead, AfterHashing
<1>1. ProvTypeOK'
  BY DEF ToolInv, ProvTypeOK, FilesAreWhole
<1>2. FilesInv'
  BY DEF ToolInv, FilesInv
<1>3. HashInv'
  BY DEF ToolInv, HashInv
<1>4. GateInv'
  BY DEF ToolInv, ProvTypeOK, FilesAreWhole, HashInv, GateInv
<1> QED
  BY <1>1, <1>2, <1>3, <1>4 DEF ToolInv

\* A command ends, unless between its two renames: its variables go, and
\* what is in the files stays.
LEMMA CommandEnds ==
    ASSUME ToolInv, NEW outcome, finish(outcome), UNCHANGED <<inputs, artifacts, files, fresh>>,
           cut_short' \in BOOLEAN, cut_short => cut_short',
           pc \in BetweenFiles => cut_short'
    PROVE  ToolInv'
<1> USE DEF finish, files
<1> USE DEF Writing, BetweenFiles, SetupRead, RevisionRead, AfterHashing
<1>1. ProvTypeOK'
  BY NothingThere DEF ToolInv, ProvTypeOK, FilesAreWhole, unread
<1>2. FilesInv'
  BY DEF ToolInv, FilesInv
<1>3. HashInv'
  BY DEF HashInv
<1>4. GateInv'
  BY DEF ToolInv, GateInv
<1> QED
  BY <1>1, <1>2, <1>3, <1>4 DEF ToolInv

LEMMA ListKeeps ==
    ASSUME ToolInv, list_wasm_files
    PROVE  ToolInv'
<1> USE DEF list_wasm_files, goto, outside
<1>1. CASE artifacts = nothing
  BY <1>1, CommandEnds DEF ToolInv, ProvTypeOK, BetweenFiles
<1>2. CASE artifacts # nothing
  <2> USE DEF files, Writing, BetweenFiles, SetupRead, RevisionRead, AfterHashing
  <2>0. DOMAIN artifacts \subseteq Names /\ DOMAIN artifacts # {}
    BY <1>2, ArtifactsShape DEF ToolInv, ProvTypeOK
  <2>1. ProvTypeOK'
    BY <1>2, <2>0 DEF ToolInv, ProvTypeOK, FilesAreWhole
  <2>2. FilesInv'
    BY <1>2 DEF ToolInv, FilesInv
  <2>3. HashInv'
    <3>1. DOMAIN digests = {}
      BY NothingThere DEF ToolInv, HashInv
    <3> QED BY <1>2, <2>0, <3>1 DEF ToolInv, HashInv, known
  <2>4. GateInv'
    BY <1>2 DEF ToolInv, GateInv
  <2> QED BY <2>1, <2>2, <2>3, <2>4 DEF ToolInv
<1> QED
  BY <1>1, <1>2

LEMMA HashKeeps ==
    ASSUME ToolInv, hash_file
    PROVE  ToolInv'
<1> USE DEF hash_file, goto, outside
<1> DEFINE n == Min(todo)
<1>0. /\ pc = "hash" /\ n \in todo /\ n \in Names
      /\ n \in DOMAIN artifacts => artifacts[n] \in Inputs
  <2>1. todo # {} /\ todo \in SUBSET Names /\ artifacts \in [DOMAIN artifacts -> Inputs]
    BY ArtifactsShape DEF ToolInv, ProvTypeOK, HashInv
  <2> QED BY <2>1, NextName
<1>1. CASE n \notin DOMAIN artifacts
  BY <1>1, CommandEnds DEF ToolInv, ProvTypeOK, BetweenFiles
<1>2. CASE n \in DOMAIN artifacts
  <2>d. /\ digests' = [m \in DOMAIN digests \cup {n} |->
                          IF m = n THEN artifacts[n] ELSE digests[m]]
        /\ todo' = todo \ {n}
        /\ \/ todo # {n} /\ pc' = "hash"
           \/ todo = {n} /\ command = "verify" /\ pc' = "check_artifacts"
           \/ todo = {n} /\ command # "verify" /\ pc' = "revision"
        /\ UNCHANGED <<inputs, artifacts, manifest, manifest_tmp, shasums, shasums_tmp,
                       command, target, meta, loaded, stale, fresh, cut_short>>
    BY <1>2 DEF files
  <2> HIDE DEF hash_file, n
  <2> USE DEF Writing, BetweenFiles, SetupRead, RevisionRead, AfterHashing
  <2>1. ProvTypeOK'
    <3>1. digests' \in Artifacts
      BY <1>0, <1>2, <2>d, FileAdded DEF ToolInv, ProvTypeOK
    <3> QED BY <2>d, <3>1 DEF ToolInv, ProvTypeOK, FilesAreWhole
  <2>2. FilesInv'
    BY <1>0, <2>d DEF ToolInv, FilesInv
  <2>3. HashInv'
    <3>1. ASSUME NEW m \in Names \ (stale' \cup todo') PROVE known(m)'
      BY <1>0, <1>2, <2>d, <3>1 DEF ToolInv, HashInv, known
    <3> QED BY <1>0, <2>d, <3>1 DEF ToolInv, HashInv
  <2>4. GateInv'
    BY <1>0, <2>d DEF ToolInv, GateInv
  <2> QED BY <2>1, <2>2, <2>3, <2>4 DEF ToolInv
<1> QED
  BY <1>1, <1>2

\* The three steps that read the metadata.
Read == read_revision \/ read_status \/ read_setup

LEMMA ReadKeeps ==
    ASSUME ToolInv, Read
    PROVE  ToolInv'
<1> USE DEF Read, read_revision, read_status, read_setup, goto, outside
<1>0. inputs \in Inputs
      /\ meta \in [revision: Revisions \cup {None}, setup: Setups \cup {None},
                   edits: Edits \cup {None}]
  BY DEF ToolInv, ProvTypeOK
<1>m. \/ pc = "revision" /\ pc' = "status" /\ meta'.revision = inputs.revision
      \/ pc = "status" /\ pc' = "setup" /\ meta'.revision = meta.revision
      \/ /\ pc = "setup" /\ meta'.revision = meta.revision /\ meta'.setup = inputs.setup
         /\ \/ command = "verify" /\ pc' = "check_environment"
            \/ command # "verify" /\ pc' = "write_manifest"
  BY <1>0
<1>t. meta' \in [revision: Revisions \cup {None}, setup: Setups \cup {None},
                edits: Edits \cup {None}]
  BY <1>0 DEF Inputs
<1>i. inputs.revision \in Revisions /\ inputs.setup \in Setups
  BY <1>0 DEF Inputs
<1>u. UNCHANGED <<inputs, artifacts, manifest, manifest_tmp, shasums, shasums_tmp, command, target,
                  todo, digests, loaded, stale, fresh, cut_short>>
  BY DEF files
<1> HIDE DEF Read
<1> USE DEF Writing, BetweenFiles, SetupRead, RevisionRead, AfterHashing
<1>1. ProvTypeOK'
  BY <1>m, <1>t, <1>u DEF ToolInv, ProvTypeOK, FilesAreWhole
<1>2. FilesInv'
  BY <1>m, <1>i, <1>u DEF ToolInv, FilesInv
<1>3. HashInv'
  BY <1>m, <1>u DEF ToolInv, HashInv, known
<1>4. GateInv'
  BY <1>m, <1>u DEF ToolInv, GateInv, intact
<1> QED
  BY <1>1, <1>2, <1>3, <1>4 DEF ToolInv

\* The steps that write, but the last.
Write ==
    \/ open_manifest \/ fill_manifest \/ rename_manifest
    \/ open_shasums \/ fill_shasums

LEMMA WriteKeeps ==
    ASSUME ToolInv, Write
    PROVE  ToolInv'
<1> USE DEF goto, outside, locals, Writing, BetweenFiles, SetupRead, RevisionRead, AfterHashing
<1> USE DEF Write, open_manifest, fill_manifest, rename_manifest, open_shasums, fill_shasums,
            shasums_text
<1>0. /\ command = "generate" /\ ~fresh
      /\ digests \in Artifacts /\ target \in Targets
      /\ described \in Manifest /\ described.subject = digests
  BY DescribedIsManifest DEF ToolInv, ProvTypeOK, FilesInv, GateInv
<1>u. UNCHANGED <<inputs, artifacts, command, target, todo, digests, meta, loaded, stale, fresh,
                  cut_short>>
      /\ UNCHANGED described
  BY DEF described
<1>1. ProvTypeOK'
  BY <1>0, <1>u DEF ToolInv, ProvTypeOK, FilesAreWhole, FilesInv
<1>2. FilesInv'
  BY <1>0, <1>u DEF ToolInv, FilesInv
<1>3. HashInv'
  BY <1>0, <1>u DEF ToolInv, HashInv, known
<1>4. GateInv'
  BY <1>0, <1>u DEF ToolInv, GateInv
<1> QED
  BY <1>1, <1>2, <1>3, <1>4 DEF ToolInv

\* Nothing that generate read has changed: the directory is what it hashed.
LEMMA NothingStale ==
    ASSUME ToolInv, stale = {}, pc \in AfterHashing
    PROVE  digests = artifacts
<1>1. todo = {} /\ digests \in Artifacts /\ artifacts \in Artifacts
  BY DEF ToolInv, ProvTypeOK, HashInv, AfterHashing, RevisionRead, SetupRead, Writing
<1>2. DOMAIN digests \subseteq Names /\ DOMAIN artifacts \subseteq Names
  BY <1>1, ArtifactsShape
<1>3. \A n \in Names : known(n)
  BY <1>1 DEF ToolInv, HashInv, AfterHashing, RevisionRead, SetupRead, Writing
<1> QED
  BY <1>1, <1>2, <1>3, SameFiles DEF known

\* generate ends.
LEMMA GenerateEnds ==
    ASSUME ToolInv, rename_shasums
    PROVE  ToolInv'
<1> USE DEF rename_shasums, finish, outside
<1> USE DEF Writing, BetweenFiles, SetupRead, RevisionRead, AfterHashing
<1>0. /\ digests \in Artifacts /\ target \in Targets
      /\ described \in Manifest /\ described.subject = digests
      /\ described.revision = meta.revision /\ described.setup = meta.setup
      /\ manifest = described /\ shasums' = digests
  BY DescribedIsManifest DEF ToolInv, ProvTypeOK, FilesInv
<1>1. ProvTypeOK'
  BY <1>0, NothingThere DEF ToolInv, ProvTypeOK, FilesAreWhole, unread
<1>2. FilesInv'
  BY <1>0 DEF FilesInv
<1>3. HashInv'
  BY DEF HashInv
<1>4. GateInv'
  <2>1. ASSUME stale = {}
        PROVE  digests = artifacts /\ DOMAIN artifacts # {}
               /\ meta.revision = inputs.revision /\ meta.setup = inputs.setup
    BY <2>1, NothingStale DEF ToolInv, HashInv
  <2> QED BY <1>0, <2>1 DEF GateInv
<1> QED
  BY <1>1, <1>2, <1>3, <1>4 DEF ToolInv

\* The two comparisons of verify, and the command that finds no manifest.
LEMMA CheckKeeps ==
    ASSUME ToolInv, check_artifacts \/ check_environment \/ ManifestMissing
    PROVE  ToolInv'
<1>1. CASE check_artifacts /\ intact
  <2> USE <1>1 DEF check_artifacts, goto, outside, files, locals
  <2> USE DEF Writing, BetweenFiles, SetupRead, RevisionRead, AfterHashing
  <2>1. ProvTypeOK'
    BY DEF ToolInv, ProvTypeOK, FilesAreWhole
  <2>2. FilesInv'
    BY DEF ToolInv, FilesInv
  <2>3. HashInv'
    BY DEF ToolInv, HashInv, known
  <2>4. GateInv'
    BY DEF ToolInv, GateInv, intact
  <2> QED BY <2>1, <2>2, <2>3, <2>4 DEF ToolInv
<1>2. CASE check_artifacts /\ ~intact
  BY <1>2, CommandEnds DEF check_artifacts, outside, ToolInv, ProvTypeOK, BetweenFiles
<1>3. CASE check_environment
  BY <1>3, CommandEnds DEF check_environment, outside, ToolInv, ProvTypeOK, BetweenFiles
<1>4. CASE ManifestMissing
  <2> USE <1>4 DEF ManifestMissing, outside, files, locals
  <2>1. ProvTypeOK'
    BY DEF ToolInv, ProvTypeOK, FilesAreWhole
  <2> QED BY <2>1 DEF ToolInv, FilesInv, HashInv, GateInv, known, intact, described
<1> QED
  BY <1>1, <1>2, <1>3, <1>4

LEMMA KillKeeps ==
    ASSUME ToolInv, Kill
    PROVE  ToolInv'
<1>1. cut_short \in BOOLEAN
  BY DEF ToolInv, ProvTypeOK
<1>2. cut_short' = (cut_short \/ pc \in BetweenFiles)
  BY DEF Kill, BetweenFiles
<1>3. cut_short' \in BOOLEAN /\ (cut_short => cut_short') /\ (pc \in BetweenFiles => cut_short')
  BY <1>1, <1>2, Zenon
<1> QED
  BY <1>3, CommandEnds DEF Kill, outside

LEMMA ToolKeeps == ToolInv /\ [ProvNext]_provVars => ToolInv'
<1> SUFFICES ASSUME ToolInv, [ProvNext]_provVars PROVE ToolInv'
  OBVIOUS
<1>0. inputs \in Inputs /\ artifacts \in Artifacts
  BY DEF ToolInv, ProvTypeOK
<1>1. CASE UNCHANGED provVars
  <2>1. ProvTypeOK'
    BY <1>1 DEF provVars, files, locals, ToolInv, ProvTypeOK, FilesAreWhole
  <2> QED BY <1>1, <2>1 DEF provVars, files, locals, ToolInv, FilesInv, HashInv, GateInv,
                          described, intact, known
<1>2. ASSUME NEW n \in Names, Build(n) PROVE ToolInv'
  <2>1. /\ artifacts' \in Artifacts /\ UNCHANGED inputs /\ moved(n, seen_file(n))
        /\ artifacts' = [m \in DOMAIN artifacts \cup {n} |->
                            IF m = n THEN inputs ELSE artifacts[m]]
    BY <1>0, <1>2, FileAdded DEF Build
  <2>2. \A m \in Names \ {n} : m \in DOMAIN artifacts <=> m \in DOMAIN artifacts'
    BY <2>1
  <2>3. \A m \in DOMAIN artifacts \ {n} : artifacts'[m] = artifacts[m]
    BY <2>1
  <2>4. \A m \in Names \ {n} : unmoved(m)
    BY <2>2, <2>3 DEF unmoved
  <2> QED BY <2>1, <2>4, FileMoves
<1>3. ASSUME NEW n \in Names, Remove(n) PROVE ToolInv'
  <2>1. /\ artifacts' \in Artifacts /\ UNCHANGED inputs /\ moved(n, seen_file(n))
        /\ artifacts' = [m \in DOMAIN artifacts \ {n} |-> artifacts[m]]
    BY <1>0, <1>3, FileRemoved DEF Remove, Restrict
  <2>2. \A m \in Names \ {n} : m \in DOMAIN artifacts <=> m \in DOMAIN artifacts'
    BY <2>1
  <2>3. \A m \in DOMAIN artifacts \ {n} : artifacts'[m] = artifacts[m]
    BY <2>1
  <2>4. \A m \in Names \ {n} : unmoved(m)
    BY <2>2, <2>3 DEF unmoved
  <2> QED BY <2>1, <2>4, FileMoves
<1> QED
  BY <1>1, <1>2, <1>3, TreeMoves, CommandStarts, ListKeeps, HashKeeps, ReadKeeps, WriteKeeps,
     GenerateEnds, CheckKeeps, KillKeeps DEF ProvNext, Write, Read

-----------------------------------------------------------------------------
(* The theorems.                                                           *)

\* Wherever generate is killed and whatever is built meanwhile: what is in the
\* files at each step, what was hashed, and what an undisturbed command knows.
THEOREM ToolSafe == ProvSpec => []ToolInv
<1> QED
  BY ToolStarts, ToolKeeps, PTL DEF ProvSpec

\* provenance.json and SHASUMS are never torn: write_atomic fills a temporary
\* file and renames it.
THEOREM FilesAlwaysWhole == ProvSpec => []FilesAreWhole
<1>1. ToolInv => FilesAreWhole
  BY DEF ToolInv, ProvTypeOK
<1> QED
  BY <1>1, ToolSafe, PTL

\* SHASUMS never contradicts the manifest, but after a kill between the two
\* renames of generate, until one finishes.
THEOREM ShasumsAlwaysAgree == ProvSpec => []ShasumsAgree
<1>1. ToolInv => ShasumsAgree
  BY DEF ToolInv, FilesInv, ShasumsAgree, BetweenFiles
<1> QED
  BY <1>1, ToolSafe, PTL

\* Whatever moves while verify runs, it passes only on files, a revision and a
\* setup that the manifest pins, but for what moved after it was read.
THEOREM VerifiedAlwaysPinned == ProvSpec => VerifiedIsPinned
<1> DEFINE Passes == pc # "idle" /\ pc' = "idle" /\ result' = "verified"
           Pinned == /\ \A n \in Names \ stale : pinned(n)
                     /\ Tree \notin stale =>
                           manifest.revision = inputs.revision /\ manifest.setup = inputs.setup
                     /\ manifest.target = target
<1>1. ToolInv /\ [ProvNext]_provVars => [Passes => Pinned]_provVars
  <2> SUFFICES ASSUME ToolInv, ProvNext, Passes PROVE Pinned
    OBVIOUS
  <2>1. check_environment /\ consistent
    BY DEF ProvNext, Checkout, Build, Remove, moved, start, start_generate, start_verify,
           list_wasm_files, hash_file, read_revision, read_status, read_setup, open_manifest,
           fill_manifest, rename_manifest, open_shasums, fill_shasums, rename_shasums,
           ManifestMissing, check_artifacts, check_environment, Kill, goto, finish
  <2>2. /\ pc = "check_environment" /\ loaded = manifest /\ intact /\ todo = {}
    BY <2>1 DEF check_environment, ToolInv, HashInv, GateInv, RevisionRead, SetupRead
  <2>3. ASSUME NEW n \in Names \ stale PROVE pinned(n)
    <3>1. known(n)
      BY <2>2 DEF ToolInv, HashInv
    <3> QED BY <2>2, <3>1 DEF known, intact, pinned
  <2>4. Tree \notin stale => meta.revision = inputs.revision /\ meta.setup = inputs.setup
    BY <2>2 DEF ToolInv, HashInv, RevisionRead, SetupRead
  <2> QED BY <2>1, <2>2, <2>3, <2>4 DEF consistent
<1> QED
  BY <1>1, ToolSafe, PTL DEF ProvSpec, VerifiedIsPinned

\* verify does not fail, given its target, on what is as generate read it.
THEOREM FreshManifestAlwaysPasses == ProvSpec => FreshManifestPasses
<1> DEFINE Fails == /\ command = "verify" /\ fresh
                    /\ pc # "idle" /\ pc' = "idle" /\ result' = "failed"
<1>1. ToolInv /\ [ProvNext]_provVars => [Fails => target # manifest.target]_provVars
  <2> SUFFICES ASSUME ToolInv, ProvNext, Fails PROVE target # manifest.target
    OBVIOUS
  <2>1. \/ list_wasm_files /\ artifacts = nothing
        \/ hash_file /\ Min(todo) \notin DOMAIN artifacts
        \/ check_artifacts /\ ~intact
        \/ check_environment /\ ~consistent
    BY DEF ProvNext, Checkout, Build, Remove, moved, start, start_generate, start_verify,
           list_wasm_files, hash_file, read_revision, read_status, read_setup, open_manifest,
           fill_manifest, rename_manifest, open_shasums, fill_shasums, rename_shasums,
           ManifestMissing, check_artifacts, check_environment, Kill, goto, finish
  <2>2. /\ stale = {} /\ loaded = manifest /\ manifest.subject = artifacts
        /\ DOMAIN artifacts # {} /\ todo \subseteq DOMAIN artifacts
        /\ manifest.revision = inputs.revision /\ manifest.setup = inputs.setup
    BY DEF ToolInv, GateInv
  <2>3. CASE list_wasm_files /\ artifacts = nothing
    BY <2>2, <2>3, NothingThere
  <2>4. CASE hash_file /\ Min(todo) \notin DOMAIN artifacts
    <3>1. todo # {} /\ todo \in SUBSET Names
      BY <2>4 DEF hash_file, ToolInv, ProvTypeOK, HashInv
    <3> QED BY <2>2, <2>4, <3>1, NextName
  <2>5. CASE check_artifacts /\ ~intact
    <3>1. digests = artifacts
      BY <2>2, <2>5, NothingStale DEF check_artifacts, AfterHashing
    <3> QED BY <2>2, <2>5, <3>1 DEF intact
  <2>6. CASE check_environment /\ ~consistent
    <3>1. meta.revision = inputs.revision /\ meta.setup = inputs.setup
      BY <2>2, <2>6 DEF check_environment, ToolInv, HashInv, RevisionRead, SetupRead
    <3> QED BY <2>2, <2>6, <3>1 DEF consistent
  <2> QED BY <2>1, <2>3, <2>4, <2>5, <2>6
<1> QED
  BY <1>1, ToolSafe, PTL DEF ProvSpec, FreshManifestPasses
===============================================================================
