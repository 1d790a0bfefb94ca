----------------------------- MODULE PackRelease -----------------------------
(***************************************************************************)
(* The official tutorial packs: orag-pack-release builds a release in a    *)
(* directory of its own, publishes it with create-only writes and verifies *)
(* it through the public URL; clone executors read the public pack and     *)
(* store its corpus in the private store of the project.                   *)
(*                                                                         *)
(* Two machines may build the same version from different checkouts.  What *)
(* a file holds is the machine that built it and whether it is whole: a    *)
(* build that dies leaves the file it was writing in part, and its root.   *)
(***************************************************************************)
EXTENDS Integers, FiniteSets, Sequences, FiniteSetsExt

CONSTANTS
    Machine,       \* release machines
    PackExecutor,  \* executors of one clone job, on several processes
    CloneTier,     \* the tier of the clone job
    QuickMaxBytes, \* the budget of the quick corpus
    Checkout,      \* the source of each machine: a sequence of files [text, bytes]
    MaxPublish,    \* bound of the model: publications tried in all
    MaxPackFaults  \* bound of the model: builds and publications that fail

ASSUME PackAssumption ==
    /\ CloneTier \in {"quick", "benchmark"}
    /\ QuickMaxBytes \in Nat \ {0}
    /\ MaxPublish \in Nat /\ MaxPackFaults \in Nat
    /\ \A m \in Machine : Checkout[m] \in Seq([text : BOOLEAN, bytes : Nat \ {0}])

VARIABLES
    building,   \* the root of each machine: [pc, files, quick], quick the records of its quick corpus
    publishing, \* Publish of each machine: [pc, files, left], left the files of its phase still to do
    publicPack, \* the bucket: what is stored under the key of each file
    verifying,  \* VerifyPublic of each machine: [pc, left], left the files still to fetch
    published,  \* publications so far
    packFaults, \* builds and publications that failed
    installing, \* its executors: [pc, manifest, temp]
    privatePack \* the private store: what is stored under the digest of each corpus

packVars == <<building, publishing, publicPack, verifying, published, packFaults, installing, privatePack>>

-----------------------------------------------------------------------------
\* The files of a release, in the order Build writes them and in that of
\* their paths.
PackFile == {"archive", "quick", "benchmark", "quick_manifest", "benchmark_manifest", "source", "sums"}

BuildPlace ==
    [archive |-> 1, quick |-> 2, benchmark |-> 3, quick_manifest |-> 4, benchmark_manifest |-> 5, source |-> 6,
     sums |-> 7]

PathPlace ==
    [sums |-> 1, source |-> 2, benchmark |-> 3, benchmark_manifest |-> 4, quick |-> 5, quick_manifest |-> 6,
     archive |-> 7]

Tier == {"quick", "benchmark"}

ManifestOf(tier) == IF tier = "quick" THEN "quick_manifest" ELSE "benchmark_manifest"

Manifests == {ManifestOf(tier) : tier \in Tier}

NoFile == [of |-> "", state |-> "absent"]

WholeFile(m) == [of |-> m, state |-> "whole"]

CutFile(m) == [of |-> m, state |-> "part"]

IdleVerify == [pc |-> "idle", left |-> {}]

IdleInstall == [pc |-> "idle", manifest |-> NoFile, temp |-> NoFile]

PackInit ==
    /\ building = [m \in Machine |-> [pc |-> "none", quick |-> {}, files |-> [f \in PackFile |-> NoFile]]]
    /\ publishing = [m \in Machine |-> [pc |-> "idle", files |-> {}, left |-> {}]]
    /\ publicPack = [f \in PackFile |-> NoFile]
    /\ verifying = [m \in Machine |-> IdleVerify]
    /\ published = 0
    /\ packFaults = 0
    /\ installing = [e \in PackExecutor |-> IdleInstall]
    /\ privatePack = [m \in Machine |-> NoFile]

-----------------------------------------------------------------------------
\* Build.

\* The positions of the files that are no archives.
textCorpusFiles(source) == {i \in DOMAIN source : source[i].text}

UpTo(records, k) == {i \in records : i <= k}

Bytes(source, records) == MapThenSumSet(LAMBDA i : source[i].bytes, records)

\* writeCorpus: the first record always, then records while they fit.
CorpusRecords(source, limit) ==
    LET texts == textCorpusFiles(source)
    IN  {k \in texts : \A j \in UpTo(texts, k) :
            (\A i \in texts : j <= i) \/ Bytes(source, UpTo(texts, j)) <= limit}

\* The root after the first n files of a build, and what it left of the next.
Root(m, n, left) ==
    [f \in PackFile |->
        IF BuildPlace[f] <= n THEN WholeFile(m) ELSE IF BuildPlace[f] = n + 1 THEN left ELSE NoFile]

\* A clean checkout with text files, and no output yet.  Nobody else reads the
\* root while Build writes it, so a build is one step to its end or to the
\* error, or the end of the process, that stops it.
Build(m) ==
    /\ building[m].pc = "none"
    /\ textCorpusFiles(Checkout[m]) # {}
    /\ LET ended(pc, root) == [pc |-> pc, quick |-> CorpusRecords(Checkout[m], QuickMaxBytes), files |-> root]
       IN  \/ /\ building' = [building EXCEPT ![m] = ended("built", Root(m, 7, NoFile))]
              /\ UNCHANGED packFaults
           \/ /\ packFaults < MaxPackFaults /\ packFaults' = packFaults + 1
              /\ \E n \in 0..6, left \in {NoFile, CutFile(m)} :
                    building' = [building EXCEPT ![m] = ended("failed", Root(m, n, left))]
    /\ UNCHANGED <<publishing, publicPack, verifying, published, installing, privatePack>>

-----------------------------------------------------------------------------
\* Publish of a root, whether or not its Build came to its end; a machine runs
\* one command at a time.

releaseFiles(m) == {f \in PackFile : building[m].files[f] # NoFile}

\* Mutant: by path alone.
PrecedesByPath(f, g) == PathPlace[f] < PathPlace[g]

\* The order they are taken in: manifests last, then by path.
Precedes(f, g) ==
    IF (f \in Manifests) # (g \in Manifests) THEN g \in Manifests ELSE PathPlace[f] < PathPlace[g]

Publish(m) ==
    /\ building[m].pc \in {"built", "failed"} /\ releaseFiles(m) # {}
    /\ publishing[m].pc \in {"idle", "failed"} /\ verifying[m].pc = "idle"
    /\ published < MaxPublish /\ published' = published + 1
    /\ publishing' = [publishing EXCEPT ![m] = [pc |-> "check", files |-> releaseFiles(m), left |-> releaseFiles(m)]]
    /\ UNCHANGED <<building, publicPack, verifying, packFaults, installing, privatePack>>

\* The file a publication is at.
PublishedFile(m) ==
    CHOOSE f \in publishing[m].left : \A g \in publishing[m].left : f = g \/ Precedes(f, g)

\* One more file done in a phase; after the last one the next phase begins.
Proceeds(m, pc, phase) ==
    LET files == publishing[m].files
        rest  == publishing[m].left \ {PublishedFile(m)}
    IN  IF rest = {} THEN [pc |-> phase, files |-> files, left |-> files]
        ELSE [pc |-> pc, files |-> files, left |-> rest]

\* The HEAD of every key before anything is written.
CheckExisting(m) ==
    /\ publishing[m].pc = "check"
    /\ publishing' = [publishing EXCEPT ![m] =
           IF publicPack[PublishedFile(m)] = NoFile THEN Proceeds(m, "check", "head")
           ELSE [publishing[m] EXCEPT !.pc = "failed"]]
    /\ UNCHANGED <<building, publicPack, verifying, published, packFaults, installing, privatePack>>

\* putNewObject asks again.
HeadObject(m) ==
    /\ publishing[m].pc = "head"
    /\ publishing' = [publishing EXCEPT ![m].pc = IF publicPack[PublishedFile(m)] = NoFile THEN "put" ELSE "failed"]
    /\ UNCHANGED <<building, publicPack, verifying, published, packFaults, installing, privatePack>>

\* ForbidOverwrite.
Creates(f) == publicPack[f] = NoFile

PutObject(m) ==
    /\ publishing[m].pc = "put"
    /\ LET f == PublishedFile(m)
       IN  IF Creates(f)
           THEN /\ publicPack' = [publicPack EXCEPT ![f] = building[m].files[f]]
                /\ publishing' = [publishing EXCEPT ![m] = Proceeds(m, "head", "done")]
           ELSE /\ publishing' = [publishing EXCEPT ![m].pc = "failed"]
                /\ UNCHANGED publicPack
    /\ UNCHANGED <<building, verifying, published, packFaults, installing, privatePack>>

\* An error of the store or the end of the process; a write may have happened.
PublishFails(m) ==
    /\ publishing[m].pc \in {"check", "head", "put"}
    /\ packFaults < MaxPackFaults /\ packFaults' = packFaults + 1
    /\ publishing' = [publishing EXCEPT ![m].pc = "failed"]
    /\ \/ UNCHANGED publicPack
       \/ /\ publishing[m].pc = "put" /\ Creates(PublishedFile(m))
          /\ publicPack' = [publicPack EXCEPT ![PublishedFile(m)] = building[m].files[PublishedFile(m)]]
    /\ UNCHANGED <<building, verifying, published, installing, privatePack>>

-----------------------------------------------------------------------------
\* VerifyPublic: every line of SHA256SUMS is fetched and compared.

SumsListed == PackFile \ {"sums"}

\* What a list of checksums names.  One that was cut off after a line looks
\* whole; one cut off within a line fails there.
Listed(sums) ==
    IF sums.state = "whole" THEN {SumsListed}
    ELSE {{f \in SumsListed : PathPlace[f] <= k} : k \in 2..7}

VerifyPublic(m) ==
    /\ building[m].files["sums"] # NoFile /\ verifying[m].pc = "idle"
    /\ publishing[m].pc \in {"idle", "failed", "done"}
    /\ \E listed \in Listed(building[m].files["sums"]) :
          verifying' = [verifying EXCEPT ![m] = [pc |-> "fetch", left |-> listed]]
    /\ UNCHANGED <<building, publishing, publicPack, published, packFaults, installing, privatePack>>

ChecksumMatches(m, f) == publicPack[f] = building[m].files[f]

VerifyFile(m) ==
    /\ verifying[m].pc = "fetch"
    /\ LET f == CHOOSE g \in verifying[m].left : \A h \in verifying[m].left : PathPlace[g] <= PathPlace[h]
           rest == verifying[m].left \ {f}
       IN  verifying' = [verifying EXCEPT ![m] =
               IF ~ChecksumMatches(m, f) THEN IdleVerify
               ELSE [pc |-> IF rest = {} THEN "verified" ELSE "fetch", left |-> rest]]
    /\ UNCHANGED <<building, publishing, publicPack, published, packFaults, installing, privatePack>>

-----------------------------------------------------------------------------
\* A clone executor: the manifest of its tier, then the corpus it names.

MovesTo(e, install) == installing' = [installing EXCEPT ![e] = install]

FetchPackManifest(e) ==
    /\ installing[e].pc = "idle"
    /\ LET manifest == publicPack[ManifestOf(CloneTier)]
       IN  /\ manifest.state = "whole"
           /\ MovesTo(e, [pc |-> "fetch", manifest |-> manifest, temp |-> NoFile])
    /\ UNCHANGED <<building, publishing, publicPack, verifying, published, packFaults, privatePack>>

\* FetchObject: size and digest of the manifest.
VerifiesObject(e, answer) == answer = WholeFile(installing[e].manifest.of)

\* The answer may be cut off; one that does not verify is removed.
FetchPackObject(e) ==
    /\ installing[e].pc = "fetch"
    /\ LET bucket == publicPack[CloneTier]
       IN  \E answer \in {bucket, [of |-> bucket.of, state |-> IF bucket.state = "whole" THEN "part" ELSE bucket.state]} :
              IF VerifiesObject(e, answer)
              THEN MovesTo(e, [installing[e] EXCEPT !.pc = "stat", !.temp = answer])
              ELSE MovesTo(e, IdleInstall)
    /\ UNCHANGED <<building, publishing, publicPack, verifying, published, packFaults, privatePack>>

StoredPack(e) == privatePack[installing[e].manifest.of]

\* PutVerified of the local store: an object of the right size is kept, one of
\* another size is an error, otherwise the temporary file is copied.
StatPrivate(e) ==
    /\ installing[e].pc = "stat"
    /\ CASE StoredPack(e) = NoFile -> MovesTo(e, [installing[e] EXCEPT !.pc = "copy"])
         [] StoredPack(e).state = "whole" -> MovesTo(e, [installing[e] EXCEPT !.pc = "installed"])
         [] OTHER -> MovesTo(e, IdleInstall)
    /\ UNCHANGED <<building, publishing, publicPack, verifying, published, packFaults, privatePack>>

PutPrivate(e, content) ==
    privatePack' = [privatePack EXCEPT ![installing[e].manifest.of] = content]

\* The copy goes to a pending file that is renamed; Aliyun's put is as atomic.
CopyPrivate(e) ==
    /\ installing[e].pc = "copy"
    /\ PutPrivate(e, installing[e].temp)
    /\ MovesTo(e, [installing[e] EXCEPT !.pc = "installed"])
    /\ UNCHANGED <<building, publishing, publicPack, verifying, published, packFaults>>

\* An error or the end of the process; the clone is retried.
InstallFails(e) ==
    /\ installing[e].pc \in {"fetch", "stat", "copy"}
    /\ MovesTo(e, IdleInstall)
    /\ UNCHANGED <<building, publishing, publicPack, verifying, published, packFaults, privatePack>>

PackNext ==
    \/ \E m \in Machine :
          \/ Build(m) \/ Publish(m) \/ CheckExisting(m) \/ HeadObject(m) \/ PutObject(m) \/ PublishFails(m)
          \/ VerifyPublic(m) \/ VerifyFile(m)
    \/ \E e \in PackExecutor :
          FetchPackManifest(e) \/ FetchPackObject(e) \/ StatPrivate(e) \/ CopyPrivate(e) \/ InstallFails(e)

PackSpec == PackInit /\ [][PackNext]_packVars

-----------------------------------------------------------------------------
\* Records that are never none, a beginning of the texts, within the budget
\* unless there is only one, and that end only where the next one does not fit.
FitsBudget(source, quick) ==
    LET texts == textCorpusFiles(source)
    IN  /\ quick # {}
        /\ \A k \in quick : UpTo(texts, k) \subseteq quick
        /\ (\E i, j \in quick : i # j) => Bytes(source, quick) <= QuickMaxBytes
        /\ \A next \in texts \ quick : (\A i \in texts \ quick : next <= i) =>
              ~(Bytes(source, quick \cup {next}) <= QuickMaxBytes)

\* The quick corpus of every root is the beginning of the benchmark's that the
\* budget allows (writeCorpus).
QuickKeepsBudget == \A m \in Machine : building[m].pc # "none" => FitsBudget(Checkout[m], building[m].quick)

\* A manifest that can be read was put after everything else of its release:
\* two publications of one version, failures and lost answers never leave it
\* beside a corpus, an archive or checksums that are not those of its root
\* (the order of releaseFiles, the stop at the first error, ForbidOverwrite).
ManifestBacked ==
    \A manifest \in Manifests : publicPack[manifest].state = "whole" =>
        LET m == publicPack[manifest].of
        IN  \A f \in PackFile \ Manifests : building[m].files[f] \in {NoFile, publicPack[f]}

\* A release VerifyPublic accepted is public as it was built, and stays so:
\* the checksums too, which it does not compare.  A list that was cut off is
\* exempt: what it still names is all that is compared.
VerifiedIsPublic ==
    \A m \in Machine : verifying[m].pc = "verified" /\ building[m].files["sums"] = WholeFile(m) =>
        \A f \in PackFile : publicPack[f] = WholeFile(m)

\* Whatever the answers, the failures and the other executors of the job: what
\* the private store keeps under a digest is the whole content of that digest,
\* and an executor that goes on has it there (FetchObject, PutVerified).
StoredIsDeclared ==
    /\ \A m \in Machine : privatePack[m] \in {NoFile, WholeFile(m)}
    /\ \A e \in PackExecutor : installing[e].pc = "installed" => StoredPack(e) = WholeFile(installing[e].manifest.of)

\* From the checkout to the private store a pack is whole or refused, through
\* failures, lost answers and two machines that release one version.
PackIsSound == QuickKeepsBudget /\ ManifestBacked /\ VerifiedIsPublic /\ StoredIsDeclared
=============================================================================
