--------------------------- MODULE AcquireProofs ---------------------------
(***************************************************************************)
(* The invariants of the release channel, for every set of publication     *)
(* plans, archives, keys and caps: extraction stays within its caps, what  *)
(* is staged is one release that fits the shell, progress ends complete,   *)
(* and the loop of extraction judges an archive as its true sums do.       *)
(***************************************************************************)
EXTENDS Acquire, WellFoundedInduction, TLAPS

(***************************************************************************)
(* Extraction.                                                             *)
(***************************************************************************)
\* The counters never pass their caps because what was read and what may
\* still be read add up to the stream cap, of which writing is a part.
ExtractInv ==
    /\ ex \in [pc : ExtractPoints, entries : Seq(Entry),
               entry_count : 0..MaxFiles, total_bytes : 0..MaxBytes,
               remaining : Nat, written : Nat]
    /\ ex.pc = "data" => ex.entries # <<>>
    /\ ex.written + ex.remaining <= MaxBytes + StreamSlack

LEMMA CapsNat ==
    /\ MaxFiles \in Nat /\ MaxBytes \in Nat /\ StreamSlack \in Nat
    /\ Trailer \in Nat /\ MaxU64 \in Nat /\ MaxBytes + StreamSlack \in Nat
  BY CapsAssumption

\* The invariant is strong enough for the caps.
LEMMA ExtractInvCaps == ExtractInv => CapsHold
  BY CapsAssumption DEF ExtractInv, CapsHold

\* An extraction that is off, or failed where it stood, is within the caps.
LEMMA NoExtractWithin == ASSUME ex' = NoExtract PROVE ExtractInv'
  BY CapsAssumption DEF ExtractInv, NoExtract, ExtractPoints

LEMMA BeginWithin ==
    ASSUME NEW archive \in Seq(Entry), ExtractBegin(archive)
    PROVE  ExtractInv'
<1>1. ex' = [pc |-> "entry", entries |-> archive, entry_count |-> 0,
             total_bytes |-> 0, remaining |-> MaxBytes + StreamSlack,
             written |-> 0]
  BY DEF ExtractBegin, NoExtract
<1> QED
  BY <1>1, CapsNat DEF ExtractInv, ExtractPoints

LEMMA FailsWithin == ASSUME ExtractInv, ExtractFails PROVE ExtractInv'
  BY DEF ExtractInv, ExtractFails, ExtractPoints

\* A file's declared size is added to the total before it is compared.
LEMMA BudgetNat ==
    ASSUME ExtractInv, NEW e \in Entry
    PROVE  Budget(e) \in Nat
  BY CapsAssumption DEF ExtractInv, Entry, Budget, SaturatingAdd

LEMMA NextEntryWithin == ASSUME ExtractInv, NextEntry PROVE ExtractInv'
<1> DEFINE e == Head(ex.entries)
<1>1. e \in Entry
  BY DEF ExtractInv, NextEntry
<1>2. CASE ~Pulls(e.head) \/ Refused(e)
  BY <1>2, FailsWithin DEF NextEntry
<1>3. CASE Pulls(e.head) /\ ~Refused(e)
  <2>1. ex' = [ex EXCEPT !.pc = "data", !.entry_count = @ + 1,
                         !.total_bytes = Budget(e), !.remaining = @ - e.head]
    BY <1>3 DEF NextEntry
  <2>2. ex.entry_count + 1 \in 0..MaxFiles
    BY <1>3, CapsAssumption DEF ExtractInv, Refused, TooMany
  <2>3. Budget(e) \in 0..MaxBytes
    BY <1>1, <1>3, BudgetNat, CapsAssumption DEF Refused, TooLarge
  <2>4. ex.remaining - e.head \in Nat /\ ex.remaining - e.head <= ex.remaining
    BY <1>1, <1>3 DEF ExtractInv, Entry, Pulls
  <2>5. ex.entries # <<>>
    BY DEF NextEntry
  <2>6. ex' \in [pc : ExtractPoints, entries : Seq(Entry),
                 entry_count : 0..MaxFiles, total_bytes : 0..MaxBytes,
                 remaining : Nat, written : Nat]
    BY <2>1, <2>2, <2>3, <2>4 DEF ExtractInv, ExtractPoints
  <2>7. /\ ex'.entries = ex.entries
        /\ ex'.written = ex.written
        /\ ex'.remaining = ex.remaining - e.head
    BY <2>1 DEF ExtractInv
  <2>8. ex'.written + ex'.remaining <= MaxBytes + StreamSlack
    BY <2>4, <2>6, <2>7, CapsNat DEF ExtractInv
  <2> QED
    BY <2>5, <2>6, <2>7, <2>8 DEF ExtractInv
<1> QED
  BY <1>2, <1>3

LEMMA EntryDataWithin == ASSUME ExtractInv, EntryData PROVE ExtractInv'
<1> DEFINE e == Head(ex.entries)
<1>1. e \in Entry /\ Tail(ex.entries) \in Seq(Entry)
  BY DEF ExtractInv, EntryData
<1>2. e.data \in Nat /\ ex.remaining \in Nat /\ ex.written \in Nat
  BY <1>1 DEF ExtractInv, Entry
<1>3. /\ Copied(e, e.data) \in {0, e.data}
      /\ Copied(e, ex.remaining) \in {0, ex.remaining}
  BY DEF Copied
<1>4. CASE Pulls(e.data)
  <2>1. ex' = [ex EXCEPT !.pc = "entry", !.entries = Tail(@),
                         !.remaining = @ - e.data,
                         !.written = @ + Copied(e, e.data)]
    BY <1>4 DEF EntryData
  <2>2. e.data <= ex.remaining
    BY <1>4 DEF Pulls
  <2>3. /\ ex.remaining - e.data \in Nat
        /\ ex.written + Copied(e, e.data) \in Nat
        /\ ex.written + Copied(e, e.data) + (ex.remaining - e.data)
               <= ex.written + ex.remaining
    BY <1>2, <1>3, <2>2
  <2>4. ex' \in [pc : ExtractPoints, entries : Seq(Entry),
                 entry_count : 0..MaxFiles, total_bytes : 0..MaxBytes,
                 remaining : Nat, written : Nat]
    BY <1>1, <2>1, <2>3 DEF ExtractInv, ExtractPoints
  <2>5. /\ ex'.pc = "entry"
        /\ ex'.remaining = ex.remaining - e.data
        /\ ex'.written = ex.written + Copied(e, e.data)
    BY <2>1 DEF ExtractInv
  <2>6. ex'.written + ex'.remaining <= MaxBytes + StreamSlack
    BY <1>2, <2>3, <2>5, CapsNat DEF ExtractInv
  <2> QED
    BY <2>4, <2>5, <2>6 DEF ExtractInv
<1>5. CASE ~Pulls(e.data)
  <2>1. ex' = [ex EXCEPT !.pc = "failed", !.remaining = 0,
                         !.written = @ + Copied(e, ex.remaining)]
    BY <1>5 DEF EntryData
  <2>2. /\ ex.written + Copied(e, ex.remaining) \in Nat
        /\ ex.written + Copied(e, ex.remaining) <= ex.written + ex.remaining
    BY <1>2, <1>3
  <2>3. ex' \in [pc : ExtractPoints, entries : Seq(Entry),
                 entry_count : 0..MaxFiles, total_bytes : 0..MaxBytes,
                 remaining : Nat, written : Nat]
    BY <2>1, <2>2 DEF ExtractInv, ExtractPoints
  <2>4. /\ ex'.pc = "failed"
        /\ ex'.remaining = 0
        /\ ex'.written = ex.written + Copied(e, ex.remaining)
    BY <2>1 DEF ExtractInv
  <2>5. ex'.written + ex'.remaining <= MaxBytes + StreamSlack
    BY <1>2, <2>2, <2>4, CapsNat DEF ExtractInv
  <2> QED
    BY <2>3, <2>4, <2>5 DEF ExtractInv
<1> QED
  BY <1>4, <1>5

LEMMA EndOfArchiveWithin == ASSUME ExtractInv, EndOfArchive PROVE ExtractInv'
<1>1. CASE Pulls(Trailer)
  <2>1. ex' = [ex EXCEPT !.pc = "done", !.remaining = @ - Trailer]
    BY <1>1 DEF EndOfArchive
  <2>2. ex.remaining - Trailer \in Nat /\ ex.remaining - Trailer <= ex.remaining
    BY <1>1, CapsNat DEF Pulls, ExtractInv
  <2>3. ex' \in [pc : ExtractPoints, entries : Seq(Entry),
                 entry_count : 0..MaxFiles, total_bytes : 0..MaxBytes,
                 remaining : Nat, written : Nat]
    BY <2>1, <2>2 DEF ExtractInv, ExtractPoints
  <2>4. /\ ex'.pc = "done"
        /\ ex'.remaining = ex.remaining - Trailer
        /\ ex'.written = ex.written
    BY <2>1 DEF ExtractInv
  <2>5. ex'.written + ex'.remaining <= MaxBytes + StreamSlack
    BY <2>2, <2>3, <2>4, CapsNat, SMTT(20) DEF ExtractInv
  <2> QED
    BY <2>3, <2>4, <2>5 DEF ExtractInv
<1>2. CASE ~Pulls(Trailer)
  BY <1>2, FailsWithin DEF EndOfArchive
<1> QED
  BY <1>1, <1>2

LEMMA ExtractStepWithin == ASSUME ExtractInv, ExtractStep PROVE ExtractInv'
  BY NextEntryWithin, EntryDataWithin, EndOfArchiveWithin DEF ExtractStep

(***************************************************************************)
(* The channel.                                                            *)
(***************************************************************************)
ArchiveFile == [content : DOMAIN Contents, size : Nat]
Answers == {"none", "error", "Staged", "UpToDate", "ShellTooOld",
            "ShellNewerThanBase", "InvalidBaseVersion", "AlreadyStaged"}
Signature == [over : ReleaseType, key : STRING]

RunTyped ==
    run \in [pc : RunPoints, manifest : ReleaseType \cup {Nothing},
             signature : Signature \cup {Nothing},
             body : ArchiveFile \cup {Nothing}, downloaded : Nat, shown : Nat,
             answer : Answers]

StagedTyped ==
    staged \in [manifest : ReleaseType, bytes : ArchiveFile] \cup {Nothing}

Typed ==
    /\ plan \in Seq(ReleaseType)
    /\ pub \in [next : Nat \ {0},
               step : {"archive", "finish", "manifest", "signature"}]
    /\ served \in [manifest : ReleaseType \cup {Nothing},
                   signature : Signature \cup {Nothing},
                   archives : [{plan[i].version : i \in DOMAIN plan}
                                   -> ArchiveFile \cup {Nothing}]]
    /\ RunTyped
    /\ StagedTyped

\* What each step of a run knows of the manifest it holds.
RunKnows ==
    /\ run.pc # "idle" => run.manifest # Nothing /\ Published(run.manifest)
    /\ run.pc = "verify" =>
           /\ run.signature # Nothing
           /\ run.signature.key = run.signature.over.key
    /\ run.pc \in {"get", "stream", "extract"} =>
           run.manifest.key \in TrustedKeys
    /\ run.pc = "stream" => run.body # Nothing
    /\ run.pc = "extract" => run.body = Full(run.manifest.content)

Provenance ==
    /\ served.manifest # Nothing => Published(served.manifest)
    /\ served.signature # Nothing =>
           served.signature.key = served.signature.over.key
    /\ RunKnows

ChannelInv == Typed /\ Provenance /\ StagedIsOneRelease /\ ExtractInv

LEMMA InitChannel == Init => ChannelInv
<1> SUFFICES ASSUME Init PROVE ChannelInv
  OBVIOUS
<1>1. plan \in Seq(ReleaseType)
  BY PlansAssumption DEF Init
<1>2. Typed
  <2>1. run \in [pc : RunPoints, manifest : ReleaseType \cup {Nothing},
                 signature : Signature \cup {Nothing},
                 body : ArchiveFile \cup {Nothing}, downloaded : Nat,
                 shown : Nat, answer : Answers]
    BY DEF Init, NoRun, RunPoints, Answers
  <2>2. served \in [manifest : ReleaseType \cup {Nothing},
                    signature : Signature \cup {Nothing},
                    archives : [{plan[i].version : i \in DOMAIN plan}
                                    -> ArchiveFile \cup {Nothing}]]
    BY DEF Init
  <2> QED
    BY <1>1, <2>1, <2>2 DEF Init, Typed, RunTyped, StagedTyped
<1>3. Provenance
  BY DEF Init, Provenance, RunKnows, NoRun
<1>4. StagedIsOneRelease
  BY DEF Init, StagedIsOneRelease
<1>5. ExtractInv
  BY CapsAssumption DEF Init, ExtractInit, NoExtract, ExtractInv, ExtractPoints
<1> QED
  BY <1>2, <1>3, <1>4, <1>5 DEF ChannelInv

\* What was published stays published while the publisher goes on.
LEMMA PublishedStays ==
    ASSUME Typed, UNCHANGED plan, pub'.next \in Nat, pub'.next >= pub.next
    PROVE  \A manifest : Published(manifest) => Published(manifest)'
<1> SUFFICES ASSUME NEW manifest, Published(manifest)
             PROVE  Published(manifest)'
  OBVIOUS
<1>1. PICK i \in DOMAIN plan : i <= pub.next /\ plan[i] = manifest
  BY DEF Published
<1>2. i \in DOMAIN plan' /\ i <= pub'.next /\ plan'[i] = manifest
  BY <1>1 DEF Typed
<1> QED
  BY <1>2 DEF Published

\* The release being signed is one of the plan.
LEMMA SigningTyped ==
    ASSUME Typed, pub.next <= Len(plan)
    PROVE  /\ pub.next \in DOMAIN plan
           /\ Signing \in ReleaseType
           /\ Signing.version \in {plan[i].version : i \in DOMAIN plan}
           /\ Signing.content \in DOMAIN Contents
           /\ Signing.key \in STRING
           /\ Published(Signing)
<1>1. pub.next \in DOMAIN plan
  BY DEF Typed
<1>2. Signing \in ReleaseType
  BY <1>1 DEF Typed, Signing
<1>3. Signing.version \in {plan[i].version : i \in DOMAIN plan}
  BY <1>1 DEF Signing
<1>4. Published(Signing)
  BY <1>1 DEF Published, Signing, Typed
<1> QED
  BY <1>1, <1>2, <1>3, <1>4 DEF ReleaseType

LEMMA FullTyped ==
    ASSUME NEW content \in DOMAIN Contents
    PROVE  Full(content) \in ArchiveFile
  BY ContentsAssumption DEF Full, ArchiveFile

\* The publisher disturbs nothing of the app.
LEMMA PublisherKeeps == ChannelInv /\ Publisher => ChannelInv'
<1> SUFFICES ASSUME ChannelInv, Publisher PROVE ChannelInv'
  OBVIOUS
<1>1. /\ Typed /\ Provenance /\ StagedIsOneRelease /\ ExtractInv
      /\ UNCHANGED <<plan, staged, run, ex>>
  BY DEF ChannelInv, Publisher, CreateArchive, FinishArchive, WriteManifest,
         WriteSignature, SignAborted, Publishes, appVars
<1>2. /\ pub' \in [next : Nat \ {0},
                   step : {"archive", "finish", "manifest", "signature"}]
      /\ pub'.next >= pub.next
  BY <1>1 DEF Typed, Publisher, CreateArchive, FinishArchive, WriteManifest,
              WriteSignature, SignAborted, Publishes, NextRelease
<1>3. \A manifest : Published(manifest) => Published(manifest)'
  BY <1>1, <1>2, PublishedStays
<1>4. /\ served' \in [manifest : ReleaseType \cup {Nothing},
                      signature : Signature \cup {Nothing},
                      archives : [{plan[i].version : i \in DOMAIN plan}
                                      -> ArchiveFile \cup {Nothing}]]
      /\ served'.manifest # Nothing => Published(served'.manifest)
      /\ served'.signature # Nothing =>
             served'.signature.key = served'.signature.over.key
  <2>1. CASE CreateArchive
    <3>1. PICK size \in 0..(Contents[Signing.content].size - 1) :
              served' = [served EXCEPT !.archives[Signing.version] =
                             [content |-> Signing.content, size |-> size]]
      BY <2>1 DEF CreateArchive
    <3>2. Signing.content \in DOMAIN Contents
      BY <1>1, <2>1, SigningTyped DEF CreateArchive, Publishes
    <3>3. [content |-> Signing.content, size |-> size] \in ArchiveFile
      BY <3>2, ContentsAssumption DEF ArchiveFile
    <3> QED
      BY <1>1, <3>1, <3>3 DEF Typed, Provenance
  <2>2. CASE FinishArchive
    <3>1. Full(Signing.content) \in ArchiveFile
      BY <1>1, <2>2, SigningTyped, FullTyped DEF FinishArchive, Publishes
    <3> QED
      BY <1>1, <2>2, <3>1 DEF FinishArchive, Typed, Provenance
  <2>3. CASE WriteManifest
    BY <1>1, <2>3, SigningTyped DEF WriteManifest, Publishes, Typed, Provenance
  <2>4. CASE WriteSignature
    <3>1. Signing \in ReleaseType /\ Signing.key \in STRING
      BY <1>1, <2>4, SigningTyped DEF WriteSignature, Publishes
    <3>2. [over |-> Signing, key |-> Signing.key] \in Signature
      BY <3>1 DEF Signature
    <3> QED
      BY <1>1, <2>4, <3>2 DEF WriteSignature, Typed, Provenance
  <2>5. CASE SignAborted
    BY <1>1, <2>5 DEF SignAborted, Typed, Provenance
  <2> QED
    BY <2>1, <2>2, <2>3, <2>4, <2>5 DEF Publisher
<1>5. Typed'
  BY <1>1, <1>2, <1>4 DEF Typed, RunTyped, StagedTyped
<1>6. Provenance'
  BY <1>1, <1>3, <1>4 DEF Provenance, RunKnows
<1>7. StagedIsOneRelease'
  BY <1>1, <1>3 DEF StagedIsOneRelease
<1>8. ExtractInv'
  BY <1>1 DEF ExtractInv
<1> QED
  BY <1>5, <1>6, <1>7, <1>8 DEF ChannelInv

(***************************************************************************)
(* The app.  Its steps leave the channel alone; what is left to show of    *)
(* each is the run, the staged bundle and the extraction.                  *)
(***************************************************************************)
LEMMA RunOfInv == ChannelInv => RunTyped /\ RunKnows /\ StagedTyped
  BY DEF ChannelInv, Typed, Provenance

\* The channel stands still: what the rest of the invariant says is enough.
LEMMA ChannelStill ==
    ASSUME ChannelInv, UNCHANGED channelVars, RunTyped', RunKnows',
           StagedTyped', StagedIsOneRelease', ExtractInv'
    PROVE  ChannelInv'
<1>1. Typed'
  BY DEF ChannelInv, Typed, channelVars
<1>2. \A manifest : Published(manifest) => Published(manifest)'
  BY DEF channelVars, Published
<1>3. Provenance'
  BY <1>2 DEF ChannelInv, Provenance, channelVars
<1> QED
  BY <1>1, <1>3 DEF ChannelInv

LEMMA PublishedStill ==
    ASSUME UNCHANGED channelVars
    PROVE  \A manifest : Published(manifest) => Published(manifest)'
  BY DEF channelVars, Published

\* A step that stages nothing and leaves the decoder alone.
LEMMA RunStep ==
    ASSUME ChannelInv, UNCHANGED <<channelVars, appVars, ex>>, RunTyped',
           RunKnows'
    PROVE  ChannelInv'
<1>1. StagedTyped'
  BY RunOfInv DEF StagedTyped, appVars
<1>2. StagedIsOneRelease'
  BY PublishedStill DEF ChannelInv, StagedIsOneRelease, appVars
<1>3. ExtractInv'
  BY DEF ChannelInv, ExtractInv
<1> QED
  BY <1>1, <1>2, <1>3, ChannelStill

\* A run that is over knows nothing.
LEMMA RunEndsKnows ==
    ASSUME NEW answer \in Answers, RunEnds(answer)
    PROVE  RunTyped' /\ RunKnows' /\ run'.pc = "idle"
<1>1. run' = [pc |-> "idle", manifest |-> Nothing, signature |-> Nothing,
              body |-> Nothing, downloaded |-> 0, shown |-> 0,
              answer |-> answer]
  BY DEF RunEnds, NoRun
<1> QED
  BY <1>1 DEF RunTyped, RunKnows, RunPoints

LEMMA FetchManifestKeeps == ChannelInv /\ FetchManifest => ChannelInv'
<1> SUFFICES ASSUME ChannelInv, FetchManifest PROVE ChannelInv'
  OBVIOUS
<1>1. UNCHANGED <<channelVars, appVars, ex>>
  BY DEF FetchManifest
<1>2. CASE RunEnds("error")
  BY <1>1, <1>2, RunEndsKnows, RunStep DEF Answers
<1>3. CASE run' = [NoRun EXCEPT !.pc = "signature",
                                !.manifest = served.manifest]
  <2>1. run' = [pc |-> "signature", manifest |-> served.manifest,
                signature |-> Nothing, body |-> Nothing, downloaded |-> 0,
                shown |-> 0, answer |-> "none"]
    BY <1>3 DEF NoRun
  <2>2. /\ served.manifest # Nothing
        /\ served.manifest \in ReleaseType \cup {Nothing}
        /\ Published(served.manifest)
    BY DEF FetchManifest, ChannelInv, Typed, Provenance
  <2>3. RunTyped'
    BY <2>1, <2>2 DEF RunTyped, RunPoints, Answers
  <2>4. RunKnows'
    BY <1>1, <2>1, <2>2, PublishedStill DEF RunKnows
  <2> QED
    BY <1>1, <2>3, <2>4, RunStep
<1> QED
  BY <1>2, <1>3 DEF FetchManifest

LEMMA FetchSignatureKeeps == ChannelInv /\ FetchSignature => ChannelInv'
<1> SUFFICES ASSUME ChannelInv, FetchSignature PROVE ChannelInv'
  OBVIOUS
<1>1. UNCHANGED <<channelVars, appVars, ex>>
  BY DEF FetchSignature
<1>2. CASE RunEnds("error")
  BY <1>1, <1>2, RunEndsKnows, RunStep DEF Answers
<1>3. CASE ~RunEnds("error")
  <2>1. /\ served.signature # Nothing
        /\ run' = [run EXCEPT !.pc = "verify", !.signature = served.signature]
    BY <1>3 DEF FetchSignature
  <2>2. /\ served.signature \in Signature \cup {Nothing}
        /\ served.signature.key = served.signature.over.key
    BY <2>1 DEF ChannelInv, Typed, Provenance
  <2>3. RunTyped'
    BY <2>1, <2>2, RunOfInv DEF RunTyped, RunPoints
  <2>4. run'.pc = "verify" /\ run'.manifest = run.manifest
        /\ run'.signature = served.signature
    BY <2>1, RunOfInv DEF RunTyped
  <2>5. RunKnows'
    BY <1>1, <2>1, <2>2, <2>4, RunOfInv, PublishedStill
       DEF RunKnows, FetchSignature
  <2> QED
    BY <1>1, <2>3, <2>5, RunStep
<1> QED
  BY <1>2, <1>3

\* A manifest goes on to the download only under a signature over itself, so
\* that the key of the signature is the key of the release.
LEMMA VerifyKeeps == ChannelInv /\ Verify => ChannelInv'
<1> SUFFICES ASSUME ChannelInv, Verify PROVE ChannelInv'
  OBVIOUS
<1>1. UNCHANGED <<channelVars, appVars, ex>>
  BY DEF Verify
<1>2. CASE \E answer \in Answers : RunEnds(answer)
  BY <1>1, <1>2, RunEndsKnows, RunStep DEF Answers
<1>3. CASE Verified(run.manifest, run.signature) /\ Goto("get")
  <2>1. run' = [run EXCEPT !.pc = "get"]
    BY <1>3 DEF Goto
  <2>2. RunTyped'
    BY <2>1, RunOfInv DEF RunTyped, RunPoints
  <2>3. run'.pc = "get" /\ run'.manifest = run.manifest
    BY <2>1, RunOfInv DEF RunTyped
  <2>4. run.manifest.key \in TrustedKeys
    BY <1>3, RunOfInv DEF Verify, Verified, RunKnows
  <2>5. RunKnows'
    BY <1>1, <2>3, <2>4, RunOfInv, PublishedStill DEF RunKnows, Verify
  <2> QED
    BY <1>1, <2>2, <2>5, RunStep
<1>4. ~Gate(run.manifest) = "Available" => Gate(run.manifest) \in Answers
  BY DEF Gate, Answers
<1>5. "error" \in Answers
  BY DEF Answers
<1> QED
  BY <1>2, <1>3, <1>4, <1>5 DEF Verify

LEMMA GetArchiveKeeps == ChannelInv /\ GetArchive => ChannelInv'
<1> SUFFICES ASSUME ChannelInv, GetArchive PROVE ChannelInv'
  OBVIOUS
<1> DEFINE file == served.archives[run.manifest.version]
<1>1. UNCHANGED <<channelVars, appVars, ex>>
  BY DEF GetArchive
<1>2. CASE file = Nothing
  BY <1>1, <1>2, RunEndsKnows, RunStep DEF GetArchive, Answers
<1>3. CASE file # Nothing
  <2>1. run' = [run EXCEPT !.pc = "stream", !.body = file]
    BY <1>3 DEF GetArchive
  <2>2. Published(run.manifest)
    BY RunOfInv DEF RunKnows, GetArchive
  <2>3. run.manifest.version \in {plan[i].version : i \in DOMAIN plan}
    BY <2>2 DEF Published
  <2>4. file \in ArchiveFile \cup {Nothing}
    BY <2>3 DEF ChannelInv, Typed
  <2>5. RunTyped'
    BY <2>1, <2>4, RunOfInv DEF RunTyped, RunPoints
  <2>6. /\ run'.pc = "stream"
        /\ run'.manifest = run.manifest
        /\ run'.body = file
    BY <2>1, RunOfInv DEF RunTyped
  <2>7. RunKnows'
    BY <1>1, <1>3, <2>6, RunOfInv, PublishedStill DEF RunKnows, GetArchive
  <2> QED
    BY <1>1, <2>5, <2>7, RunStep
<1> QED
  BY <1>2, <1>3

LEMMA ReceiveChunkKeeps == ChannelInv /\ ReceiveChunk => ChannelInv'
<1> SUFFICES ASSUME ChannelInv, ReceiveChunk PROVE ChannelInv'
  OBVIOUS
<1>1. UNCHANGED <<channelVars, appVars, ex>>
  BY DEF ReceiveChunk
<1>2. CASE RunEnds("error")
  BY <1>1, <1>2, RunEndsKnows, RunStep DEF Answers
<1>3. CASE ~RunEnds("error")
  <2>1. PICK n \in 1..(run.body.size - run.downloaded), due \in BOOLEAN :
            run' = [run EXCEPT
                        !.downloaded = run.downloaded + n,
                        !.shown = IF ShouldEmit(run.downloaded + n, due)
                                  THEN run.downloaded + n ELSE @]
    BY <1>3 DEF ReceiveChunk
  <2>2. run.downloaded + n \in Nat
    BY RunOfInv DEF RunTyped
  <2>3. RunTyped'
    BY <2>1, <2>2, RunOfInv DEF RunTyped, RunPoints
  <2>4. /\ run'.pc = run.pc
        /\ run'.manifest = run.manifest
        /\ run'.body = run.body
    BY <2>1, RunOfInv DEF RunTyped
  <2>5. RunKnows'
    BY <1>1, <2>4, RunOfInv, PublishedStill DEF RunKnows, ReceiveChunk
  <2> QED
    BY <1>1, <2>3, <2>5, RunStep
<1> QED
  BY <1>2, <1>3

LEMMA EndOfStreamKeeps == ChannelInv /\ EndOfStream => ChannelInv'
<1> SUFFICES ASSUME ChannelInv, EndOfStream PROVE ChannelInv'
  OBVIOUS
<1>1. UNCHANGED <<channelVars, appVars>>
  BY DEF EndOfStream
<1>2. CASE RunEnds("error") /\ UNCHANGED ex
  BY <1>1, <1>2, RunEndsKnows, RunStep DEF Answers
<1>3. CASE /\ Intact(run.body)
           /\ Goto("extract")
           /\ ExtractBegin(Contents[run.body.content].entries)
  <2>1. run' = [run EXCEPT !.pc = "extract"]
    BY <1>3 DEF Goto
  <2>2. RunTyped'
    BY <2>1, RunOfInv DEF RunTyped, RunPoints
  <2>3. /\ run'.pc = "extract"
        /\ run'.manifest = run.manifest
        /\ run'.body = run.body
    BY <2>1, RunOfInv DEF RunTyped
  <2>4. RunKnows'
    BY <1>1, <1>3, <2>3, RunOfInv, PublishedStill
       DEF RunKnows, EndOfStream, Intact, Full
  <2>5. run.body.content \in DOMAIN Contents
    <3>1. run.body # Nothing /\ run.body \in ArchiveFile \cup {Nothing}
      BY RunOfInv DEF RunTyped, RunKnows, EndOfStream
    <3> QED
      BY <3>1 DEF ArchiveFile
  <2>6. Contents[run.body.content].entries \in Seq(Entry)
    BY <2>5, ContentsAssumption
  <2>7. ExtractInv'
    BY <1>3, <2>6, BeginWithin
  <2>8. StagedTyped'
    BY <1>1, RunOfInv DEF StagedTyped, appVars
  <2>9. StagedIsOneRelease'
    BY <1>1, PublishedStill DEF ChannelInv, StagedIsOneRelease, appVars
  <2> QED
    BY <1>1, <2>2, <2>4, <2>7, <2>8, <2>9, ChannelStill
<1> QED
  BY <1>2, <1>3 DEF EndOfStream

LEMMA UnpackKeeps == ChannelInv /\ Unpack => ChannelInv'
<1> SUFFICES ASSUME ChannelInv, Unpack PROVE ChannelInv'
  OBVIOUS
<1>1. UNCHANGED <<channelVars, appVars, run>>
  BY DEF Unpack
<1>2. ExtractInv'
  BY ExtractStepWithin DEF ChannelInv, Unpack
<1>3. RunTyped' /\ StagedTyped'
  BY <1>1, RunOfInv DEF RunTyped, StagedTyped, appVars
<1>4. RunKnows'
  BY <1>1, RunOfInv, PublishedStill DEF RunKnows
<1>5. StagedIsOneRelease'
  BY <1>1, PublishedStill DEF ChannelInv, StagedIsOneRelease, appVars
<1> QED
  BY <1>1, <1>2, <1>3, <1>4, <1>5, ChannelStill

\* What is staged is the body whose digest was checked.
LEMMA ExtractReturnsKeeps == ChannelInv /\ ExtractReturns => ChannelInv'
<1> SUFFICES ASSUME ChannelInv, ExtractReturns PROVE ChannelInv'
  OBVIOUS
<1>1. UNCHANGED channelVars /\ ex' = NoExtract
  BY DEF ExtractReturns
<1>2. RunTyped' /\ RunKnows'
  BY RunEndsKnows DEF ExtractReturns, Answers
<1>3. ExtractInv'
  BY <1>1, NoExtractWithin
<1>4. StagedTyped' /\ StagedIsOneRelease'
  <2>1. CASE staged' = [manifest |-> run.manifest, bytes |-> run.body]
    <3>1. /\ run.manifest # Nothing
          /\ run.manifest \in ReleaseType
          /\ run.body = Full(run.manifest.content)
          /\ Published(run.manifest)
          /\ run.manifest.key \in TrustedKeys
      BY RunOfInv DEF RunTyped, RunKnows, ExtractReturns
    <3>2. run.body \in ArchiveFile
      BY <3>1, FullTyped DEF ReleaseType
    <3> QED
      BY <1>1, <2>1, <3>1, <3>2, PublishedStill
         DEF StagedTyped, StagedIsOneRelease
  <2>2. CASE UNCHANGED staged
    BY <1>1, <2>2, RunOfInv, PublishedStill
       DEF ChannelInv, StagedTyped, StagedIsOneRelease
  <2> QED
    BY <2>1, <2>2 DEF ExtractReturns
<1> QED
  BY <1>1, <1>2, <1>3, <1>4, ChannelStill

LEMMA MishapKeeps == ChannelInv /\ Mishap => ChannelInv'
<1> SUFFICES ASSUME ChannelInv, Mishap PROVE ChannelInv'
  OBVIOUS
<1>1. UNCHANGED <<channelVars, appVars>> /\ ex' = NoExtract
  BY DEF Mishap
<1>2. RunTyped' /\ RunKnows'
  BY RunEndsKnows DEF Mishap, Answers
<1>3. ExtractInv'
  BY <1>1, NoExtractWithin
<1>4. StagedTyped' /\ StagedIsOneRelease'
  BY <1>1, RunOfInv, PublishedStill
     DEF ChannelInv, StagedTyped, StagedIsOneRelease, appVars
<1> QED
  BY <1>1, <1>2, <1>3, <1>4, ChannelStill

LEMMA CommitKeeps == ChannelInv /\ Commit => ChannelInv'
<1> SUFFICES ASSUME ChannelInv, Commit PROVE ChannelInv'
  OBVIOUS
<1>1. UNCHANGED <<channelVars, run, ex>> /\ staged' = Nothing
  BY DEF Commit
<1>2. RunTyped'
  BY <1>1, RunOfInv DEF RunTyped
<1>3. RunKnows'
  BY <1>1, RunOfInv, PublishedStill DEF RunKnows
<1>4. ExtractInv'
  BY <1>1 DEF ChannelInv, ExtractInv
<1>5. StagedTyped' /\ StagedIsOneRelease'
  BY <1>1 DEF StagedTyped, StagedIsOneRelease
<1> QED
  BY <1>1, <1>2, <1>3, <1>4, <1>5, ChannelStill

LEMMA StutterKeeps == ChannelInv /\ UNCHANGED vars => ChannelInv'
  BY PublishedStill DEF vars, channelVars, appVars, ChannelInv, Typed,
     Provenance, RunTyped, RunKnows, StagedTyped, StagedIsOneRelease,
     ExtractInv

\* The invariant is inductive.
THEOREM ChannelInvariant == Spec => []ChannelInv
<1>1. ChannelInv /\ [Next]_vars => ChannelInv'
  BY PublisherKeeps, FetchManifestKeeps, FetchSignatureKeeps, VerifyKeeps,
     GetArchiveKeeps, ReceiveChunkKeeps, EndOfStreamKeeps, UnpackKeeps,
     ExtractReturnsKeeps, MishapKeeps, CommitKeeps, StutterKeeps
     DEF Next, AppStep
<1> QED
  BY <1>1, InitChannel, PTL DEF Spec

\* extract.rs: for every archive, however its headers lie, and for every value
\* of the caps, no more is counted, promised, decoded or written than they
\* allow, at every moment of an extraction and of one that is refused.
THEOREM CapsAlwaysHold == Spec => []CapsHold
<1>1. ChannelInv => CapsHold
  BY ExtractInvCaps DEF ChannelInv
<1> QED
  BY <1>1, ChannelInvariant, PTL

\* update.rs: for every history of a channel, releases signed again over their
\* own archive and releases half published included, what is staged is one
\* release, signed with a trusted key, byte for byte.
THEOREM StagedStaysOneRelease == Spec => []StagedIsOneRelease
<1>1. ChannelInv => StagedIsOneRelease
  BY DEF ChannelInv
<1> QED
  BY <1>1, ChannelInvariant, PTL

(***************************************************************************)
(* What a run lets through, and what it shows of it.                       *)
(***************************************************************************)
\* Bytes are counted from none; the last one is always shown.
RunShows ==
    /\ run.pc \in {"signature", "verify", "get"} => run.downloaded = 0
    /\ run.pc = "stream" =>
           /\ run.downloaded <= DeclaredSize(run.manifest)
           /\ run.downloaded = DeclaredSize(run.manifest) =>
                  run.shown = run.downloaded
    /\ run.pc = "extract" => run.shown = DeclaredSize(run.manifest)

\* Past the gate, and once staged, a release is one the shell may take.
Gated ==
    /\ run.pc \in {"get", "stream", "extract"} => ~ShellNewerThanBase(run.manifest)
    /\ staged # Nothing => ~ShellNewerThanBase(staged.manifest)

\* A run that is over shows nothing, and stages nothing new.
LEMMA RunEndsGated ==
    ASSUME Gated, NEW answer, RunEnds(answer), UNCHANGED <<shell, staged>>
    PROVE  RunShows' /\ Gated'
<1>1. run'.pc = "idle"
  BY DEF RunEnds, NoRun
<1> QED
  BY <1>1 DEF RunShows, Gated, ShellNewerThanBase

\* The size a run waits for is the one of the archive, and not 0.
LEMMA DeclaredType ==
    ASSUME ChannelInv, run.pc # "idle"
    PROVE  DeclaredSize(run.manifest) \in Nat \ {0}
<1>1. run.manifest \in ReleaseType
  BY RunOfInv DEF RunTyped, RunKnows
<1>2. run.manifest.content \in DOMAIN Contents
  BY <1>1 DEF ReleaseType
<1> QED
  BY <1>2, ContentsAssumption DEF DeclaredSize

LEMMA FetchGated ==
    ASSUME ChannelInv, RunShows, Gated, FetchManifest \/ FetchSignature \/ Verify
    PROVE  RunShows' /\ Gated'
<1>1. UNCHANGED <<shell, staged>>
  BY DEF FetchManifest, FetchSignature, Verify, appVars
<1>2. CASE \E answer : RunEnds(answer)
  BY <1>1, <1>2, RunEndsGated
<1>3. CASE FetchManifest /\ ~RunEnds("error")
  <2>1. run'.pc = "signature" /\ run'.downloaded = 0
    BY <1>3 DEF FetchManifest, NoRun
  <2> QED
    BY <1>1, <2>1 DEF RunShows, Gated, ShellNewerThanBase
<1>4. CASE FetchSignature /\ ~RunEnds("error")
  <2>1. run'.pc = "verify" /\ run'.downloaded = 0
    BY <1>4, RunOfInv DEF FetchSignature, RunTyped, RunShows
  <2> QED
    BY <1>1, <2>1 DEF RunShows, Gated, ShellNewerThanBase
<1>5. CASE Verify /\ Gate(run.manifest) = "Available" /\ Goto("get")
  <2>1. /\ run'.pc = "get" /\ run'.downloaded = 0
        /\ run'.manifest = run.manifest
    BY <1>5, RunOfInv DEF Verify, Goto, RunTyped, RunShows
  <2>2. ~ShellNewerThanBase(run.manifest)
    BY <1>5 DEF Gate
  <2> QED
    BY <1>1, <2>1, <2>2 DEF RunShows, Gated, ShellNewerThanBase
<1> QED
  BY <1>2, <1>3, <1>4, <1>5 DEF Verify

LEMMA DownloadGated ==
    ASSUME ChannelInv, RunShows, Gated, GetArchive \/ ReceiveChunk \/ EndOfStream
    PROVE  RunShows' /\ Gated'
<1>1. UNCHANGED <<shell, staged>> /\ run.pc # "idle"
  BY DEF GetArchive, ReceiveChunk, EndOfStream, appVars
<1>2. /\ DeclaredSize(run.manifest) \in Nat \ {0}
      /\ run.downloaded \in Nat
  BY <1>1, DeclaredType, RunOfInv DEF RunTyped
<1>3. CASE \E answer : RunEnds(answer)
  BY <1>1, <1>3, RunEndsGated
<1>4. ASSUME run'.manifest = run.manifest, run.pc \in {"get", "stream"}
      PROVE  Gated'
  BY <1>1, <1>4 DEF Gated, ShellNewerThanBase
<1>5. CASE GetArchive /\ ~RunEnds("error")
  <2>1. /\ run.pc = "get" /\ run'.pc = "stream"
        /\ run'.manifest = run.manifest /\ run'.downloaded = 0
    BY <1>5, RunOfInv DEF GetArchive, RunTyped, RunShows
  <2> QED
    BY <1>2, <1>4, <2>1 DEF RunShows, DeclaredSize
<1>6. CASE ReceiveChunk /\ ~RunEnds("error")
  <2>1. PICK n \in 1..(run.body.size - run.downloaded), due \in BOOLEAN :
            /\ ~(run.downloaded + n > DeclaredSize(run.manifest))
            /\ run' = [run EXCEPT
                           !.downloaded = run.downloaded + n,
                           !.shown = IF ShouldEmit(run.downloaded + n, due)
                                     THEN run.downloaded + n ELSE @]
    BY <1>6 DEF ReceiveChunk
  <2>2. /\ run.pc = "stream" /\ run'.pc = "stream"
        /\ run'.manifest = run.manifest
        /\ run'.downloaded = run.downloaded + n
        /\ ShouldEmit(run.downloaded + n, due) => run'.shown = run'.downloaded
    BY <1>6, <2>1, RunOfInv DEF ReceiveChunk, RunTyped
  <2>3. run'.downloaded = DeclaredSize(run.manifest) => run'.shown = run'.downloaded
    BY <1>2, <2>2 DEF ShouldEmit
  <2>4. run'.downloaded <= DeclaredSize(run.manifest)
    BY <1>2, <2>1, <2>2
  <2> QED
    BY <1>4, <2>2, <2>3, <2>4 DEF RunShows, DeclaredSize
<1>7. CASE EndOfStream /\ Intact(run.body) /\ Goto("extract")
  <2>1. /\ run.pc = "stream" /\ run'.pc = "extract"
        /\ run'.manifest = run.manifest /\ run'.shown = run.shown
    BY <1>7, RunOfInv DEF EndOfStream, Goto, RunTyped
  <2>2. run.downloaded = DeclaredSize(run.manifest)
    BY <1>7 DEF EndOfStream, Intact, Full, DeclaredSize
  <2> QED
    BY <1>4, <2>1, <2>2 DEF RunShows, DeclaredSize
<1> QED
  BY <1>3, <1>5, <1>6, <1>7 DEF EndOfStream

LEMMA GatedStep ==
    ChannelInv /\ RunShows /\ Gated /\ [Next]_vars => RunShows' /\ Gated'
<1> SUFFICES ASSUME ChannelInv, RunShows, Gated, [Next]_vars
             PROVE  RunShows' /\ Gated'
  OBVIOUS
<1>1. CASE UNCHANGED <<run, shell, staged>>
  BY <1>1 DEF RunShows, Gated, ShellNewerThanBase, DeclaredSize
<1>2. CASE Publisher \/ Unpack \/ UNCHANGED vars
  BY <1>1, <1>2 DEF Publisher, CreateArchive, FinishArchive, WriteManifest,
     WriteSignature, SignAborted, Publishes, Unpack, vars, appVars
<1>3. CASE Mishap
  BY <1>3, RunEndsGated DEF Mishap, appVars
<1>4. CASE ExtractReturns
  <2>1. run'.pc = "idle"
    BY <1>4 DEF ExtractReturns, RunEnds, NoRun
  <2>2. staged' = staged \/ staged' = [manifest |-> run.manifest, bytes |-> run.body]
    BY <1>4 DEF ExtractReturns
  <2>3. UNCHANGED shell /\ run.pc = "extract"
    BY <1>4 DEF ExtractReturns
  <2> QED
    BY <2>1, <2>2, <2>3 DEF RunShows, Gated, ShellNewerThanBase
<1>5. CASE Commit
  <2>1. UNCHANGED <<run, shell>> /\ staged' = Nothing
    BY <1>5 DEF Commit
  <2> QED
    BY <2>1 DEF RunShows, Gated, ShellNewerThanBase, DeclaredSize
<1> QED
  BY <1>2, <1>3, <1>4, <1>5, FetchGated, DownloadGated DEF Next, AppStep

LEMMA GatedAlways == Spec => [](RunShows /\ Gated)
<1>1. Init => RunShows /\ Gated
  BY DEF Init, NoRun, RunShows, Gated
<1> QED
  BY <1>1, GatedStep, ChannelInvariant, PTL DEF Spec

\* commands.rs on the throttle: whatever the chunks of a download are, and
\* whenever its interval is over, the UI has seen the whole size by the time
\* the archive is complete.
THEOREM CompleteDownloadsShow100 == Spec => []FullProgressShown
<1>1. RunShows => FullProgressShown
  BY DEF RunShows, FullProgressShown
<1> QED
  BY <1>1, GatedAlways, PTL

\* update.rs, gate: nothing staged was built from a base that precedes the
\* running shell.  The code compares with a stricter order than precedence,
\* so that build metadata can refuse a release but never let one through.
THEOREM StagedFitsShell == Spec => []StagedKeepsBase
<1>1. Gated => StagedKeepsBase
  BY DEF Gated, ShellNewerThanBase, StagedKeepsBase, Below
<1> QED
  BY <1>1, GatedAlways, PTL

(***************************************************************************)
(* Sums.  Induction over a sequence goes through the least element of the  *)
(* set of counterexamples.                                                 *)
(***************************************************************************)
LEMMA LeastNatural ==
    ASSUME NEW T, T \subseteq Nat, T # {}
    PROVE  \E m \in T : \A n \in T : m <= n
<1> DEFINE R == OpToRel(<, Nat)
<1>1. IsWellFoundedOn(R, Nat)
  BY NatLessThanWellFounded
<1>2. \A x, y \in Nat : <<y, x>> \in R <=> y < x
  BY DEF OpToRel
<1> HIDE DEF R
<1>3. PICK x \in T : \A y \in T : ~(<<y, x>> \in R)
  BY <1>1, WFMin
<1>4. \A y \in T : ~(y < x)
  BY <1>2, <1>3
<1> QED
  BY <1>4

LEMMA UpTo ==
    ASSUME NEW N \in Nat, NEW S, 0 \in S,
           \A n \in 0..(N - 1) : n \in S => n + 1 \in S
    PROVE  0..N \subseteq S
<1> DEFINE T == {n \in 0..N : n \notin S}
<1> SUFFICES ASSUME T # {} PROVE FALSE
  OBVIOUS
<1>1. T \subseteq Nat
  OBVIOUS
<1> HIDE DEF T
<1>2. PICK m \in T : \A n \in T : m <= n
  BY <1>1, LeastNatural
<1> USE DEF T
<1>3. m - 1 \in 0..(N - 1) /\ m - 1 \notin T
  BY <1>2
<1> QED
  BY <1>2, <1>3

\* g sums the first n sizes.
SumsFirst(sizes, n, g) ==
    /\ g \in [0..n -> Nat]
    /\ g[0] = 0
    /\ \A i \in 1..n : g[i] = g[i - 1] + sizes[i]

LEMMA SumsExist ==
    ASSUME NEW sizes \in Seq(Nat)
    PROVE  \E g : SumsFirst(sizes, Len(sizes), g)
<1> DEFINE N == Len(sizes)
           S == {n \in 0..N : \E g : SumsFirst(sizes, n, g)}
<1>1. 0 \in S
  <2>1. SumsFirst(sizes, 0, [i \in 0..0 |-> 0])
    BY DEF SumsFirst
  <2> QED
    BY <2>1
<1>2. ASSUME NEW n \in 0..(N - 1), n \in S PROVE n + 1 \in S
  <2>1. PICK g : SumsFirst(sizes, n, g)
    BY <1>2
  <2> DEFINE h == [i \in 0..(n + 1) |-> IF i <= n THEN g[i] ELSE g[n] + sizes[n + 1]]
  <2>2. SumsFirst(sizes, n + 1, h)
    BY <2>1 DEF SumsFirst
  <2> QED
    BY <2>2
<1>3. 0..N \subseteq S
  <2>1. N \in Nat
    OBVIOUS
  <2> HIDE DEF S, N
  <2> QED
    BY <1>1, <1>2, <2>1, UpTo
<1>4. N \in 0..N
  OBVIOUS
<1>5. N \in S
  <2> HIDE DEF S, N
  <2> QED
    BY <1>3, <1>4
<1> QED
  BY <1>5

\* The recursion of Totals is well founded, and its sums grow.
LEMMA TotalsFacts ==
    ASSUME NEW sizes \in Seq(Nat)
    PROVE  /\ SumsFirst(sizes, Len(sizes), Totals(sizes))
           /\ \A i \in 0..Len(sizes) : \A n \in 0..Len(sizes) :
                  i <= n => Totals(sizes)[i] <= Totals(sizes)[n]
<1> DEFINE N == Len(sizes)
           Body(total) ==
               [n \in 0..N |-> IF n = 0 THEN 0 ELSE total[n - 1] + sizes[n]]
<1>1. PICK g : SumsFirst(sizes, N, g)
  BY SumsExist
<1>2. g = Body(g)
  BY <1>1 DEF SumsFirst
<1>3. Totals(sizes) = CHOOSE total : total = Body(total)
  BY DEF Totals
<1>4. Totals(sizes) = Body(Totals(sizes))
  BY <1>2, <1>3
<1> DEFINE total == Totals(sizes)
<1> HIDE DEF total
<1>5. total = Body(total)
  BY <1>4 DEF total
<1>6. total[0] = 0 /\ \A i \in 1..N : total[i] = total[i - 1] + sizes[i]
  <2>1. \A n \in 0..N : total[n] = IF n = 0 THEN 0 ELSE total[n - 1] + sizes[n]
    BY <1>5
  <2> QED
    BY <2>1
<1>7. \A n \in 0..N : total[n] \in Nat
  <2> DEFINE S == {n \in 0..N : total[n] \in Nat}
  <2>1. 0 \in S
    BY <1>6
  <2>2. \A n \in 0..(N - 1) : n \in S => n + 1 \in S
    BY <1>6
  <2>3. N \in Nat
    OBVIOUS
  <2>4. 0..N \subseteq S
    <3> HIDE DEF S, N
    <3> QED
      BY <2>1, <2>2, <2>3, UpTo
  <2> QED
    BY <2>4
<1>8. total \in [0..N -> Nat]
  BY <1>5, <1>7
<1>9. ASSUME NEW i \in 0..N
      PROVE  \A n \in 0..N : i <= n => total[i] <= total[n]
  <2> DEFINE S == {n \in 0..N : i <= n => total[i] <= total[n]}
  <2>1. 0 \in S
    BY <1>7
  <2>2. ASSUME NEW n \in 0..(N - 1), n \in S PROVE n + 1 \in S
    <3>1. /\ n + 1 \in 0..N /\ n \in 0..N
          /\ total[n + 1] = total[n] + sizes[n + 1]
          /\ sizes[n + 1] \in Nat
      BY <1>6
    <3>2. total[n] \in Nat /\ total[n + 1] \in Nat /\ total[i] \in Nat
      BY <1>7, <3>1
    <3> QED
      BY <2>2, <3>1, <3>2
  <2>3. N \in Nat
    OBVIOUS
  <2>4. 0..N \subseteq S
    <3> HIDE DEF S, N
    <3> QED
      BY <2>1, <2>2, <2>3, UpTo
  <2> QED
    BY <2>4
<1> QED
  BY <1>6, <1>8, <1>9 DEF SumsFirst, total

(***************************************************************************)
(* The judgement of the decoder against the archive as a whole.            *)
(***************************************************************************)
Declared(archive) == Totals(DeclaredSizes(archive))
Stream(archive) == Totals(StreamSizes(archive))

LEMMA SumsOfArchive ==
    ASSUME NEW archive \in Seq(Entry)
    PROVE  LET N == Len(archive)
           IN  /\ N \in Nat
               /\ Declared(archive) \in [0..N -> Nat] /\ Declared(archive)[0] = 0
               /\ Stream(archive) \in [0..N -> Nat] /\ Stream(archive)[0] = 0
               /\ \A i \in 1..N :
                      /\ archive[i] \in Entry
                      /\ Declared(archive)[i] =
                             Declared(archive)[i - 1] + DeclaredOf(archive[i])
                      /\ Stream(archive)[i] =
                             Stream(archive)[i - 1] + archive[i].head + archive[i].data
               /\ \A i \in 0..N : /\ Declared(archive)[i] <= Declared(archive)[N]
                                  /\ Stream(archive)[i] <= Stream(archive)[N]
               /\ Whole(DeclaredSizes(archive)) = Declared(archive)[N]
               /\ Whole(StreamSizes(archive)) = Stream(archive)[N]
<1> DEFINE N == Len(archive)
<1>1. N \in Nat /\ \A i \in 1..N : archive[i] \in Entry
  OBVIOUS
<1>2. \A e \in Entry : DeclaredOf(e) \in Nat /\ e.head \in Nat /\ e.data \in Nat
  BY CapsNat DEF DeclaredOf, Entry
<1>3. /\ DeclaredSizes(archive) \in Seq(Nat) /\ Len(DeclaredSizes(archive)) = N
      /\ \A i \in 1..N : DeclaredSizes(archive)[i] = DeclaredOf(archive[i])
  BY <1>1, <1>2 DEF DeclaredSizes
<1>4. /\ StreamSizes(archive) \in Seq(Nat) /\ Len(StreamSizes(archive)) = N
      /\ \A i \in 1..N : StreamSizes(archive)[i] = archive[i].head + archive[i].data
  BY <1>1, <1>2 DEF StreamSizes
<1>5. /\ SumsFirst(DeclaredSizes(archive), N, Declared(archive))
      /\ \A i \in 0..N : \A n \in 0..N :
             i <= n => Declared(archive)[i] <= Declared(archive)[n]
  BY <1>3, TotalsFacts DEF Declared
<1>6. /\ SumsFirst(StreamSizes(archive), N, Stream(archive))
      /\ \A i \in 0..N : \A n \in 0..N :
             i <= n => Stream(archive)[i] <= Stream(archive)[n]
  BY <1>4, TotalsFacts DEF Stream
<1>7. /\ Whole(DeclaredSizes(archive)) = Declared(archive)[N]
      /\ Whole(StreamSizes(archive)) = Stream(archive)[N]
  BY <1>3, <1>4 DEF Whole, Declared, Stream
<1>8. ASSUME NEW i \in 1..N
      PROVE  /\ Declared(archive)[i] =
                    Declared(archive)[i - 1] + DeclaredOf(archive[i])
             /\ Stream(archive)[i] =
                    Stream(archive)[i - 1] + archive[i].head + archive[i].data
  <2>1. Stream(archive)[i - 1] \in Nat
    BY <1>6 DEF SumsFirst
  <2> QED
    BY <1>1, <1>2, <1>3, <1>4, <1>5, <1>6, <2>1, SMTT(20) DEF SumsFirst
<1>9. \A i \in 0..N : /\ Declared(archive)[i] <= Declared(archive)[N]
                      /\ Stream(archive)[i] <= Stream(archive)[N]
  BY <1>1, <1>5, <1>6
<1> QED
  BY <1>1, <1>5, <1>6, <1>7, <1>8, <1>9 DEF SumsFirst

\* The first k entries break no rule.
Passes(archive, k) ==
    /\ k <= MaxFiles
    /\ \A i \in 1..k : archive[i].kind # "other" /\ archive[i].plain
    /\ Declared(archive)[k] <= MaxBytes

\* k entries are done with, and counted entries have been counted, of which
\* `read` is what went through the decoder.
Counted(archive, k, counted, read) ==
    /\ k \in 0..Len(archive) /\ counted \in 0..Len(archive)
    /\ Len(ex.entries) = Len(archive) - k
    /\ \A i \in 1..Len(ex.entries) : ex.entries[i] = archive[k + i]
    /\ Passes(archive, counted)
    /\ ex.entry_count = counted
    /\ ex.total_bytes = Declared(archive)[counted]
    /\ read + ex.remaining = MaxBytes + StreamSlack

Judged(archive) ==
    /\ ex.pc = "entry" =>
           \E k \in 0..Len(archive) : Counted(archive, k, k, Stream(archive)[k])
    /\ ex.pc = "data" =>
           \E k \in 0..(Len(archive) - 1) :
               Counted(archive, k, k + 1,
                       Stream(archive)[k] + archive[k + 1].head)
    /\ ex.pc = "done" => Acceptable(archive)
    /\ ex.pc = "failed" => ~Acceptable(archive)

\* What refuses an archive on its first k entries refuses it as a whole.
LEMMA NotAcceptable ==
    ASSUME NEW archive \in Seq(Entry), NEW k \in 0..Len(archive),
           \/ ~Passes(archive, k)
           \/ Stream(archive)[k] > MaxBytes + StreamSlack
    PROVE  ~Acceptable(archive)
<1> DEFINE N == Len(archive)
<1>1. /\ N \in Nat /\ k \in Nat /\ k <= N
      /\ Declared(archive)[k] \in Nat /\ Declared(archive)[N] \in Nat
      /\ Declared(archive)[k] <= Declared(archive)[N]
      /\ Stream(archive)[k] \in Nat /\ Stream(archive)[N] \in Nat
      /\ Stream(archive)[k] <= Stream(archive)[N]
      /\ Whole(DeclaredSizes(archive)) = Declared(archive)[N]
      /\ Whole(StreamSizes(archive)) = Stream(archive)[N]
  BY SumsOfArchive
<1>2. CASE k > MaxFiles
  BY <1>1, <1>2, CapsNat DEF Acceptable
<1>3. CASE \E i \in 1..k : archive[i].kind = "other" \/ ~archive[i].plain
  BY <1>1, <1>3 DEF Acceptable
<1>4. CASE Declared(archive)[k] > MaxBytes
  BY <1>1, <1>4, CapsNat DEF Acceptable
<1>5. CASE Stream(archive)[k] > MaxBytes + StreamSlack
  BY <1>1, <1>5, CapsNat DEF Acceptable
<1> QED
  BY <1>1, <1>2, <1>3, <1>4, <1>5, CapsNat DEF Passes

\* The sum that saturates is compared like the true one: the cap is below the
\* largest u64.
LEMMA BudgetIsTrue ==
    ASSUME ExtractInv, MaxBytes < MaxU64, NEW e \in Entry
    PROVE  /\ TooLarge(Budget(e)) <=> ex.total_bytes + DeclaredOf(e) > MaxBytes
           /\ ~TooLarge(Budget(e)) => Budget(e) = ex.total_bytes + DeclaredOf(e)
<1>1. ex.total_bytes \in 0..MaxBytes /\ e.declared \in Nat
  BY CapsNat DEF ExtractInv, Entry
<1> QED
  BY <1>1, CapsNat DEF TooLarge, Budget, SaturatingAdd, DeclaredOf

LEMMA BeginJudged ==
    ASSUME NEW archive \in Seq(Entry), ExtractBegin(archive)
    PROVE  Judged(archive)'
<1>1. ex' = [pc |-> "entry", entries |-> archive, entry_count |-> 0,
             total_bytes |-> 0, remaining |-> MaxBytes + StreamSlack,
             written |-> 0]
  BY DEF ExtractBegin, NoExtract
<1>2. Len(archive) \in Nat /\ Declared(archive)[0] = 0 /\ Stream(archive)[0] = 0
  BY SumsOfArchive
<1>3. Counted(archive, 0, 0, Stream(archive)[0])'
  BY <1>1, <1>2, CapsNat DEF Counted, Passes
<1> QED
  BY <1>1, <1>2, <1>3 DEF Judged

LEMMA NextEntryJudged ==
    ASSUME NEW archive \in Seq(Entry), ExtractInv, MaxBytes < MaxU64,
           Judged(archive), NextEntry
    PROVE  Judged(archive)'
<1> DEFINE N == Len(archive)
           e == Head(ex.entries)
<1>1. PICK k \in 0..N : Counted(archive, k, k, Stream(archive)[k])
  BY DEF NextEntry, Judged
<1>2. /\ ex.entries \in Seq(Entry) /\ ex.entries # <<>>
      /\ ex.remaining \in Nat /\ ex.total_bytes \in Nat
  BY CapsNat DEF NextEntry, ExtractInv
<1>3. k \in 0..(N - 1) /\ e = archive[k + 1] /\ e \in Entry
  BY <1>1, <1>2 DEF Counted
<1>4. /\ k + 1 \in 0..N
      /\ Declared(archive)[k] \in Nat /\ Stream(archive)[k] \in Nat
      /\ Declared(archive)[k + 1] = Declared(archive)[k] + DeclaredOf(e)
      /\ Stream(archive)[k + 1] = Stream(archive)[k] + e.head + e.data
  BY <1>3, SumsOfArchive, SMTT(20)
<1>5. e.head \in Nat /\ e.data \in Nat
  BY <1>3 DEF Entry
<1>6. Refused(e) <=> ~Passes(archive, k + 1)
  <2>1. TooLarge(Budget(e)) <=> Declared(archive)[k + 1] > MaxBytes
    BY <1>1, <1>3, <1>4, BudgetIsTrue DEF Counted
  <2>2. TooMany(ex.entry_count + 1) <=> k + 1 > MaxFiles
    BY <1>1 DEF Counted, TooMany
  <2>3. \A i \in 1..k : archive[i].kind # "other" /\ archive[i].plain
    BY <1>1 DEF Counted, Passes
  <2>4. (\A i \in 1..(k + 1) : archive[i].kind # "other" /\ archive[i].plain)
            <=> e.kind # "other" /\ e.plain
    BY <1>3, <2>3
  <2>5. Declared(archive)[k + 1] \in Nat
    BY <1>4, SumsOfArchive
  <2> QED
    BY <1>3, <2>1, <2>2, <2>4, <2>5, CapsNat DEF Refused, Passes
<1>7. CASE ~Pulls(e.head) \/ Refused(e)
  <2>1. ~Pulls(e.head) => Stream(archive)[k + 1] > MaxBytes + StreamSlack
    BY <1>1, <1>2, <1>4, <1>5, CapsNat, SMTT(20) DEF Pulls, Counted
  <2>2. ~Acceptable(archive)
    BY <1>4, <1>6, <1>7, <2>1, NotAcceptable
  <2>3. ex'.pc = "failed"
    BY <1>7 DEF NextEntry, ExtractFails, ExtractInv
  <2> QED
    BY <2>2, <2>3 DEF Judged
<1>8. CASE Pulls(e.head) /\ ~Refused(e)
  <2>1. /\ ex'.pc = "data"
        /\ ex'.entries = ex.entries
        /\ ex'.entry_count = ex.entry_count + 1
        /\ ex'.total_bytes = Budget(e)
        /\ ex'.remaining = ex.remaining - e.head
    BY <1>8 DEF NextEntry, ExtractInv
  <2>2. Budget(e) = Declared(archive)[k + 1]
    BY <1>1, <1>3, <1>4, <1>8, BudgetIsTrue DEF Refused, Counted
  <2>3. (Stream(archive)[k] + e.head) + ex'.remaining = MaxBytes + StreamSlack
    BY <1>1, <1>2, <1>4, <1>5, <2>1, CapsNat, SMTT(20) DEF Counted
  <2>4. Counted(archive, k, k + 1, Stream(archive)[k] + archive[k + 1].head)'
    BY <1>1, <1>3, <1>4, <1>6, <1>8, <2>1, <2>2, <2>3 DEF Counted
  <2> QED
    BY <1>3, <2>1, <2>4 DEF Judged
<1> QED
  BY <1>7, <1>8

LEMMA EntryDataJudged ==
    ASSUME NEW archive \in Seq(Entry), ExtractInv, Judged(archive), EntryData
    PROVE  Judged(archive)'
<1> DEFINE N == Len(archive)
           e == Head(ex.entries)
<1>1. PICK k \in 0..(N - 1) :
          Counted(archive, k, k + 1, Stream(archive)[k] + archive[k + 1].head)
  BY DEF EntryData, Judged
<1>2. /\ ex.entries \in Seq(Entry) /\ ex.entries # <<>> /\ ex.remaining \in Nat
      /\ N \in Nat
  BY DEF EntryData, ExtractInv
<1>3. k \in 0..(N - 1) /\ e = archive[k + 1] /\ e \in Entry
  BY <1>1, <1>2 DEF Counted
<1>4. /\ k + 1 \in 0..N
      /\ Stream(archive)[k] \in Nat
      /\ Stream(archive)[k + 1] = Stream(archive)[k] + e.head + e.data
  BY <1>3, SumsOfArchive
<1>5. e.head \in Nat /\ e.data \in Nat
  BY <1>3 DEF Entry
<1>6. (Stream(archive)[k] + e.head) + ex.remaining = MaxBytes + StreamSlack
  BY <1>1, <1>3 DEF Counted
<1>7. CASE Pulls(e.data)
  <2>1. /\ ex'.pc = "entry"
        /\ ex'.entries = Tail(ex.entries)
        /\ ex'.entry_count = ex.entry_count
        /\ ex'.total_bytes = ex.total_bytes
        /\ ex'.remaining = ex.remaining - e.data
    BY <1>7 DEF EntryData, ExtractInv
  <2>2. /\ Len(ex'.entries) = N - (k + 1)
        /\ \A i \in 1..Len(ex'.entries) : ex'.entries[i] = archive[(k + 1) + i]
    <3>1. /\ Len(ex.entries) = N - k
          /\ \A i \in 1..Len(ex.entries) : ex.entries[i] = archive[k + i]
      BY <1>1 DEF Counted
    <3>2. Len(ex'.entries) = Len(ex.entries) - 1
      BY <1>2, <2>1
    <3>3. \A i \in 1..Len(ex'.entries) : ex'.entries[i] = ex.entries[i + 1]
      BY <1>2, <2>1
    <3> QED
      BY <1>2, <3>1, <3>2, <3>3
  <2>3. Stream(archive)[k + 1] + ex'.remaining = MaxBytes + StreamSlack
    BY <1>2, <1>4, <1>5, <1>6, <2>1, CapsNat, SMTT(20)
  <2>4. Counted(archive, k + 1, k + 1, Stream(archive)[k + 1])'
    BY <1>1, <1>4, <2>1, <2>2, <2>3 DEF Counted
  <2> QED
    BY <1>4, <2>1, <2>4 DEF Judged
<1>8. CASE ~Pulls(e.data)
  <2>1. Stream(archive)[k + 1] > MaxBytes + StreamSlack
    BY <1>2, <1>4, <1>5, <1>6, <1>8, CapsNat DEF Pulls
  <2>2. ~Acceptable(archive)
    BY <1>4, <2>1, NotAcceptable
  <2>3. ex'.pc = "failed"
    BY <1>8 DEF EntryData, ExtractInv
  <2> QED
    BY <2>2, <2>3 DEF Judged
<1> QED
  BY <1>7, <1>8

LEMMA EndOfArchiveJudged ==
    ASSUME NEW archive \in Seq(Entry), ExtractInv, Judged(archive), EndOfArchive
    PROVE  Judged(archive)'
<1> DEFINE N == Len(archive)
<1>1. PICK k \in 0..N : Counted(archive, k, k, Stream(archive)[k])
  BY DEF EndOfArchive, Judged
<1>2. k = N /\ N \in Nat /\ ex.remaining \in Nat
  BY <1>1 DEF EndOfArchive, ExtractInv, Counted
<1>3. /\ Stream(archive)[N] \in Nat
      /\ Whole(DeclaredSizes(archive)) = Declared(archive)[N]
      /\ Whole(StreamSizes(archive)) = Stream(archive)[N]
  BY <1>2, SumsOfArchive
<1>4. Acceptable(archive) <=> Pulls(Trailer)
  <2>1. Passes(archive, N) /\ Stream(archive)[N] + ex.remaining = MaxBytes + StreamSlack
    BY <1>1, <1>2 DEF Counted
  <2>2. Pulls(Trailer) <=> Stream(archive)[N] + Trailer <= MaxBytes + StreamSlack
    BY <1>2, <1>3, <2>1, CapsNat DEF Pulls
  <2>3. DOMAIN archive = 1..N
    OBVIOUS
  <2> QED
    BY <1>3, <2>1, <2>2, <2>3 DEF Acceptable, Passes
<1>5. CASE Pulls(Trailer)
  <2>1. ex'.pc = "done"
    BY <1>5 DEF EndOfArchive, ExtractInv
  <2> QED
    BY <1>4, <1>5, <2>1 DEF Judged
<1>6. CASE ~Pulls(Trailer)
  <2>1. ex'.pc = "failed"
    BY <1>6 DEF EndOfArchive, ExtractFails, ExtractInv
  <2> QED
    BY <1>4, <1>6, <2>1 DEF Judged
<1> QED
  BY <1>5, <1>6

(***************************************************************************)
(* Every run of the pipeline has its archive judged.                       *)
(***************************************************************************)
ArchiveJudged == run.pc = "extract" => Judged(Unpacking)

LEMMA UnpackingType ==
    ASSUME ChannelInv, run.pc \in {"stream", "extract"}
    PROVE  Unpacking \in Seq(Entry)
<1>1. run.manifest # Nothing /\ run.manifest \in ReleaseType
  BY RunOfInv DEF RunTyped, RunKnows
<1>2. run.body.content \in DOMAIN Contents
  <2>1. CASE run.pc = "stream"
    BY <2>1, RunOfInv DEF RunTyped, RunKnows, ArchiveFile
  <2>2. CASE run.pc = "extract"
    BY <1>1, <2>2, RunOfInv DEF RunTyped, RunKnows, Full, ReleaseType
  <2> QED
    BY <2>1, <2>2
<1> QED
  BY <1>2, ContentsAssumption DEF Unpacking

LEMMA JudgedStep ==
    ASSUME MaxBytes < MaxU64
    PROVE  ChannelInv /\ ArchiveJudged /\ [Next]_vars => ArchiveJudged'
<1> SUFFICES ASSUME ChannelInv, ArchiveJudged, [Next]_vars, run'.pc = "extract"
             PROVE  Judged(Unpacking)'
  BY DEF ArchiveJudged
<1>1. CASE UNCHANGED <<run, ex>>
  BY <1>1 DEF ArchiveJudged, Judged, Counted, Unpacking
<1>2. CASE EndOfStream
  <2>1. /\ run.pc = "stream" /\ run'.body = run.body
        /\ ExtractBegin(Contents[run.body.content].entries)
    BY <1>2, RunOfInv DEF EndOfStream, RunEnds, NoRun, Goto, RunTyped
  <2>2. PICK archive \in Seq(Entry) : archive = Unpacking
    BY <2>1, UnpackingType
  <2>3. Unpacking' = archive /\ ExtractBegin(archive)
    BY <2>1, <2>2 DEF Unpacking
  <2>4. Judged(archive)'
    BY <2>3, BeginJudged
  <2> QED
    BY <2>3, <2>4 DEF Judged, Counted
<1>3. CASE Unpack
  <2>1. run.pc = "extract" /\ run' = run /\ ExtractStep
    BY <1>3 DEF Unpack
  <2>2. PICK archive \in Seq(Entry) : archive = Unpacking
    BY <2>1, UnpackingType
  <2>3. Unpacking' = archive /\ Judged(archive) /\ ExtractInv
    BY <2>1, <2>2 DEF Unpacking, ArchiveJudged, ChannelInv
  <2>4. Judged(archive)'
    BY <2>1, <2>3, NextEntryJudged, EntryDataJudged, EndOfArchiveJudged
       DEF ExtractStep
  <2> QED
    BY <2>3, <2>4 DEF Judged, Counted
<1>4. CASE Mishap \/ ExtractReturns
  BY <1>4 DEF Mishap, ExtractReturns, RunEnds, NoRun
<1>5. CASE FetchManifest \/ FetchSignature \/ Verify \/ GetArchive \/ ReceiveChunk
  <2>1. run'.pc # "extract"
    BY <1>5, RunOfInv DEF FetchManifest, FetchSignature, Verify, GetArchive,
       ReceiveChunk, RunEnds, Goto, NoRun, RunTyped
  <2> QED
    BY <2>1
<1>6. CASE Publisher \/ Commit \/ UNCHANGED vars
  BY <1>1, <1>6 DEF Publisher, CreateArchive, FinishArchive, WriteManifest,
     WriteSignature, SignAborted, Publishes, Commit, vars
<1> QED
  BY <1>2, <1>3, <1>4, <1>5, <1>6 DEF Next, AppStep

LEMMA JudgedAlways ==
    ASSUME MaxBytes < MaxU64
    PROVE  Spec => []ArchiveJudged
<1>1. Init => ArchiveJudged
  BY DEF Init, NoRun, ArchiveJudged
<1>2. ChannelInv /\ ArchiveJudged /\ [Next]_vars => ArchiveJudged'
  BY JudgedStep
<1> QED
  BY <1>1, <1>2, ChannelInvariant, PTL DEF Spec

\* extract.rs: for every archive, whatever its headers say, and every value of
\* the caps below the largest u64, an archive that gets through keeps every
\* rule: the running counts judge it as its true sums do.
THEOREM OnlyAcceptableDelivered ==
    ASSUME MaxBytes < MaxU64
    PROVE  Spec => []OnlyAcceptable
<1>1. ArchiveJudged => OnlyAcceptable
  BY DEF ArchiveJudged, Judged, OnlyAcceptable
<1>2. Spec => []ArchiveJudged
  BY JudgedAlways
<1> QED
  BY <1>1, <1>2, PTL

\* And an archive that is refused breaks one: the caps are inclusive, to the
\* last file and the last byte.
THEOREM AcceptableNeverRefused ==
    ASSUME MaxBytes < MaxU64
    PROVE  Spec => []LimitsAreInclusive
<1>1. ArchiveJudged => LimitsAreInclusive
  BY DEF ArchiveJudged, Judged, LimitsAreInclusive
<1>2. Spec => []ArchiveJudged
  BY JudgedAlways
<1> QED
  BY <1>1, <1>2, PTL
=============================================================================
