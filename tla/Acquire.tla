------------------------------- MODULE Acquire -----------------------------
(***************************************************************************)
(* One release channel, end to end: the publisher runs src/sign.rs into    *)
(* the served directory, release after release, while an app fetches,      *)
(* verifies, gates, downloads and extracts (src/update.rs, manifest.rs,    *)
(* download.rs and the throttle of commands.rs).  Each served file is      *)
(* fetched by a request of its own, so the app may see any two releases at *)
(* once.                                                                   *)
(*                                                                         *)
(* Module Update has the same pipeline against the rest of the plugin; in  *)
(* here it is one run after another against a channel, with real versions, *)
(* sizes and archives.                                                     *)
(***************************************************************************)
EXTENDS Semver, Extract

CONSTANTS
    Plans,          \* sequences of releases a publisher may sign
    Contents,       \* built dist -> its archive: [size, entries]
    TrustedKeys,    \* the configured pubkeys
    Shells,         \* embedded versions of the app
    ManifestMax,    \* MANIFEST_MAX_BYTES
    MaxMishaps,     \* bound: transfers and writes that fail
    Nothing         \* no file, no bundle

NoBase == <<>>          \* no baseVersion in the manifest
InvalidBase == <<0>>    \* one that is not a semver

\* What sign_release is given, and the length of the manifest it writes.
ReleaseType ==
    [version           : Semver,
     min_shell_version : Semver,
     base_version      : Semver \cup {NoBase, InvalidBase},
     content           : DOMAIN Contents,
     key               : STRING,
     bytes             : Nat]

ASSUME ContentsAssumption ==
    \A content \in DOMAIN Contents :
        Contents[content] \in [size : Nat \ {0}, entries : Seq(Entry)]
ASSUME PlansAssumption == Plans \subseteq Seq(ReleaseType) \ {<<>>}

VARIABLES
    plan,       \* the releases of this behaviour, in order
    pub,        \* the publisher: which release, which step
    served,     \* the files of the channel
    shell,      \* embedded_version
    watermark,  \* max_version_seen
    staged,     \* the bundle waiting for the next launch
    run,        \* the pipeline run under update_lock
    mishaps     \* failures so far

channelVars == <<plan, pub, served>>
appVars     == <<shell, watermark, staged>>
vars        == <<channelVars, appVars, run, ex, mishaps>>

RunPoints == {"idle", "signature", "verify", "get", "stream", "extract"}

NoRun == [pc |-> "idle", manifest |-> Nothing, signature |-> Nothing,
          body |-> Nothing, downloaded |-> 0, shown |-> 0, answer |-> "none"]

Init ==
    /\ plan \in Plans
    /\ pub = [next |-> 1, step |-> "archive"]
    /\ served = [manifest |-> Nothing, signature |-> Nothing,
                 archives |-> [version \in {plan[i].version : i \in DOMAIN plan}
                                   |-> Nothing]]
    /\ shell \in Shells
    /\ watermark = shell
    /\ staged = Nothing
    /\ run = NoRun
    /\ ExtractInit
    /\ mishaps = 0

(***************************************************************************)
(* sign_release.  The archive is named after the version, so that signing  *)
(* a version again overwrites it in place.                                 *)
(***************************************************************************)
Signing == plan[pub.next]

Full(content) == [content |-> content, size |-> Contents[content].size]

\* One file of the channel is written; the rest of the system stands still.
Publishes(step) ==
    /\ pub.next <= Len(plan)
    /\ pub.step = step
    /\ UNCHANGED <<plan, appVars, run, ex, mishaps>>

\* File::create truncates, and the encoder has written part of it.
CreateArchive ==
    /\ Publishes("archive")
    /\ \E size \in 0..(Contents[Signing.content].size - 1) :
           served' = [served EXCEPT !.archives[Signing.version] =
                          [content |-> Signing.content, size |-> size]]
    /\ pub' = [pub EXCEPT !.step = "finish"]

FinishArchive ==
    /\ Publishes("finish")
    /\ served' = [served EXCEPT !.archives[Signing.version] =
                      Full(Signing.content)]
    /\ pub' = [pub EXCEPT !.step = "manifest"]

WriteManifest ==
    /\ Publishes("manifest")
    /\ served' = [served EXCEPT !.manifest = Signing]
    /\ pub' = [pub EXCEPT !.step = "signature"]

NextRelease == pub' = [next |-> pub.next + 1, step |-> "archive"]

WriteSignature ==
    /\ Publishes("signature")
    /\ served' = [served EXCEPT !.signature = [over |-> Signing,
                                               key  |-> Signing.key]]
    /\ NextRelease

\* The tool is killed, or a write fails; the publisher turns to the next
\* release with whatever was written left on the channel.
SignAborted ==
    /\ pub.next < Len(plan)
    /\ NextRelease
    /\ UNCHANGED <<plan, served, appVars, run, ex, mishaps>>

Publisher ==
    \/ CreateArchive \/ FinishArchive \/ WriteManifest \/ WriteSignature
    \/ SignAborted

(***************************************************************************)
(* fetch_verified_manifest.                                                *)
(***************************************************************************)
Goto(pc) == run' = [run EXCEPT !.pc = pc]

RunEnds(answer) == run' = [NoRun EXCEPT !.answer = answer]

\* fetch_capped on the manifest.
FetchManifest ==
    /\ run.pc = "idle"
    /\ served.manifest # Nothing
    /\ IF served.manifest.bytes > ManifestMax
       THEN RunEnds("error")
       ELSE run' = [NoRun EXCEPT !.pc = "signature",
                                 !.manifest = served.manifest]
    /\ UNCHANGED <<channelVars, appVars, ex, mishaps>>

FetchSignature ==
    /\ run.pc = "signature"
    /\ IF served.signature = Nothing
       THEN RunEnds("error")
       ELSE run' = [run EXCEPT !.pc = "verify", !.signature = served.signature]
    /\ UNCHANGED <<channelVars, appVars, ex, mishaps>>

\* verify_and_parse: any trusted key may have signed these very bytes.
Verified(manifest, signature) ==
    /\ signature.over = manifest
    /\ signature.key \in TrustedKeys

DeclaredSize(manifest) == Contents[manifest.content].size

\* validate().
Valid(manifest) == DeclaredSize(manifest) \in 1..MaxBytes

(***************************************************************************)
(* gate(), over full versions, for an install without failed bundles.      *)
(***************************************************************************)
\* Mutant: versions are compared by their core only.
ShellNewerThanBaseByCore(manifest) ==
    /\ manifest.base_version \notin {NoBase, InvalidBase}
    /\ PrecedesByCore(manifest.base_version, shell)

ShellNewerThanBase(manifest) ==
    /\ manifest.base_version \notin {NoBase, InvalidBase}
    /\ Below(manifest.base_version, shell)

\* Mutant: a bundle is known by its version, not by its archive.
AlreadyStagedByVersion(manifest) ==
    staged # Nothing /\ staged.manifest.version = manifest.version

AlreadyStaged(manifest) ==
    staged # Nothing /\ staged.manifest.content = manifest.content

Gate(manifest) ==
    IF AtMost(manifest.version, watermark) THEN "UpToDate"
    ELSE IF Below(shell, manifest.min_shell_version) THEN "ShellTooOld"
    ELSE IF ShellNewerThanBase(manifest) THEN "ShellNewerThanBase"
    ELSE IF manifest.base_version = InvalidBase THEN "InvalidBaseVersion"
    ELSE IF AlreadyStaged(manifest) THEN "AlreadyStaged"
    ELSE "Available"

Verify ==
    /\ run.pc = "verify"
    /\ IF ~Verified(run.manifest, run.signature) \/ ~Valid(run.manifest)
       THEN RunEnds("error")
       ELSE IF Gate(run.manifest) = "Available" THEN Goto("get")
       ELSE RunEnds(Gate(run.manifest))
    /\ UNCHANGED <<channelVars, appVars, ex, mishaps>>

(***************************************************************************)
(* download_archive, chunk by chunk, with the progress throttle.           *)
(***************************************************************************)
\* The server answers with the file as it is now.
GetArchive ==
    /\ run.pc = "get"
    /\ LET file == served.archives[run.manifest.version]
       IN  IF file = Nothing
           THEN RunEnds("error")
           ELSE run' = [run EXCEPT !.pc = "stream", !.body = file]
    /\ UNCHANGED <<channelVars, appVars, ex, mishaps>>

\* Mutant: the last chunk is throttled like any other.
ShouldEmitWhenDue(downloaded, due) == due

\* should_emit: the last chunk always, another one when the interval is over,
\* which it is for the first.
ShouldEmit(downloaded, due) ==
    downloaded >= DeclaredSize(run.manifest) \/ due

ReceiveChunk ==
    /\ run.pc = "stream"
    /\ \E n \in 1..(run.body.size - run.downloaded),
          due \in IF run.shown = 0 THEN {TRUE} ELSE BOOLEAN :
           LET downloaded == run.downloaded + n
           IN  IF downloaded > DeclaredSize(run.manifest)
               THEN RunEnds("error")
               ELSE run' = [run EXCEPT
                                !.downloaded = downloaded,
                                !.shown = IF ShouldEmit(downloaded, due)
                                          THEN downloaded ELSE @]
    /\ UNCHANGED <<channelVars, appVars, ex, mishaps>>

\* Mutant: the size is checked, the digest is not.
IntactBySize(body) == body.size = DeclaredSize(run.manifest)

\* The exact size, and the sha256 of the signed manifest.
Intact(body) == body = Full(run.manifest.content)

EndOfStream ==
    /\ run.pc = "stream"
    /\ run.downloaded = run.body.size
    /\ IF Intact(run.body)
       THEN Goto("extract") /\ ExtractBegin(Contents[run.body.content].entries)
       ELSE RunEnds("error") /\ UNCHANGED ex
    /\ UNCHANGED <<channelVars, appVars, mishaps>>

(***************************************************************************)
(* Extraction, and what becomes of the bundle.                             *)
(***************************************************************************)
Unpack ==
    /\ run.pc = "extract"
    /\ ExtractStep
    /\ UNCHANGED <<channelVars, appVars, run, mishaps>>

\* extract_tar_gz returned: staged, or refused with its error.
ExtractReturns ==
    /\ run.pc = "extract"
    /\ ex.pc \in {"done", "failed"}
    /\ IF ex.pc = "done"
       THEN /\ staged' = [manifest |-> run.manifest, bytes |-> run.body]
            /\ RunEnds("Staged")
       ELSE /\ RunEnds("error")
            /\ UNCHANGED staged
    /\ ex' = NoExtract
    /\ UNCHANGED <<channelVars, shell, watermark, mishaps>>

\* A request fails, a connection breaks or a write does: the run is over.
Mishap ==
    /\ run.pc # "idle"
    /\ mishaps < MaxMishaps
    /\ mishaps' = mishaps + 1
    /\ RunEnds("error")
    /\ ex' = NoExtract
    /\ UNCHANGED <<channelVars, appVars>>

\* The staged bundle boots and is acked: the rest of the plugin, in brief.
Commit ==
    /\ run.pc = "idle"
    /\ staged # Nothing
    /\ watermark' = staged.manifest.version
    /\ staged' = Nothing
    /\ UNCHANGED <<channelVars, shell, run, ex, mishaps>>

AppStep ==
    \/ FetchManifest \/ FetchSignature \/ Verify \/ GetArchive
    \/ ReceiveChunk \/ EndOfStream \/ Unpack \/ ExtractReturns

Next == Publisher \/ AppStep \/ Mishap \/ Commit

\* The app keeps checking for updates, and a run goes on until it ends.
Spec == Init /\ [][Next]_vars /\ WF_vars(AppStep)

(***************************************************************************)
(* Extraction against what it should make of the archive as a whole.       *)
(***************************************************************************)
\* The sums of the first n sizes, for n from none to all of them.
Totals(sizes) ==
    LET total[n \in 0..Len(sizes)] ==
            IF n = 0 THEN 0 ELSE total[n - 1] + sizes[n]
    IN  total

Whole(sizes) == Totals(sizes)[Len(sizes)]

DeclaredOf(e) == IF e.kind = "file" THEN e.declared ELSE 0

DeclaredSizes(entries) == [i \in 1..Len(entries) |-> DeclaredOf(entries[i])]

StreamSizes(entries) == [i \in 1..Len(entries) |-> entries[i].head + entries[i].data]

Acceptable(entries) ==
    /\ Len(entries) <= MaxFiles
    /\ \A i \in DOMAIN entries : entries[i].kind # "other" /\ entries[i].plain
    /\ Whole(DeclaredSizes(entries)) <= MaxBytes
    /\ Whole(StreamSizes(entries)) + Trailer <= MaxBytes + StreamSlack

Unpacking == Contents[run.body.content].entries

\* Nothing gets through that breaks a rule of extract.rs: the running counts,
\* with a sum that saturates and a reader that is cut, judge an archive as
\* its true sums do, however its headers lie about its sizes.
OnlyAcceptable ==
    run.pc = "extract" /\ ex.pc = "done" => Acceptable(Unpacking)

\* And nothing is refused that keeps them, at the exact limits included: a
\* frontend of MAX_FILES files, or of MAX_UNCOMPRESSED_BYTES, is delivered.
LimitsAreInclusive ==
    run.pc = "extract" /\ ex.pc = "failed" => ~Acceptable(Unpacking)

(***************************************************************************)
(* The channel.                                                            *)
(***************************************************************************)
Published(manifest) ==
    \E i \in DOMAIN plan : i <= pub.next /\ plan[i] = manifest

\* Whatever pair of releases the separate requests saw, and however often a
\* version was signed again over its own archive: what is staged is exactly
\* one release as its publisher signed it, with a trusted key.
StagedIsOneRelease ==
    staged # Nothing =>
        /\ Published(staged.manifest)
        /\ staged.manifest.key \in TrustedKeys
        /\ staged.bytes = Full(staged.manifest.content)

\* A release is staged only if it was built from a base that does not precede
\* the running shell, a prerelease of the shell's own version included
\* (manifest.rs on base_version).
StagedKeepsBase ==
    staged # Nothing /\ staged.manifest.base_version \notin {NoBase, InvalidBase}
        => ~Precedes(staged.manifest.base_version, shell)

\* commands.rs on the throttle: the UI is guaranteed to see 100% of every
\* download that completes, however its chunks fall.
FullProgressShown ==
    run.pc = "extract" => run.shown = DeclaredSize(run.manifest)

Applicable(manifest) ==
    /\ manifest.key \in TrustedKeys
    /\ manifest.bytes <= ManifestMax
    /\ Valid(manifest)
    /\ Acceptable(Contents[manifest.content].entries)
    /\ AtMost(manifest.min_shell_version, shell)
    /\ manifest.base_version # InvalidBase
    /\ manifest.base_version # NoBase => AtMost(shell, manifest.base_version)

\* No half-published release, mixed pair of files, bad release or broken
\* transfer jams the channel: once the last release is out, an app that keeps
\* checking gets its content, or has committed a version as high.
LastReleaseArrives ==
    LET last == plan[Len(plan)]
    IN  pub.next > Len(plan) /\ Applicable(last)
            ~> \/ staged # Nothing /\ staged.manifest.content = last.content
               \/ AtMost(last.version, watermark)
=============================================================================
