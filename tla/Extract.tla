------------------------------ MODULE Extract ------------------------------
(***************************************************************************)
(* src/extract.rs: one tar.gz unpacked entry by entry under three caps.    *)
(* The archive is trusted in nothing: headers may declare any size and     *)
(* stream any other, metadata records may be long, entries of any kind     *)
(* and name may occur.  Sizes are in units small enough for TLC.           *)
(*                                                                         *)
(* An archive is a sequence of entries:                                    *)
(*    kind      "file", "dir" or "other" (links, devices, sparse files)    *)
(*    plain     its name is a chain of normal components                   *)
(*    declared  the size field of its header                               *)
(*    head      bytes of header and metadata records before its data       *)
(*    data      bytes of its data, padding included                        *)
(***************************************************************************)
EXTENDS Integers, Sequences

CONSTANTS
    MaxFiles,       \* MAX_FILES
    MaxBytes,       \* MAX_UNCOMPRESSED_BYTES
    StreamSlack,    \* STREAM_SLACK_BYTES
    MaxU64,         \* where saturating_add stops
    Trailer         \* the zero blocks that end an archive

ASSUME CapsAssumption ==
    /\ {MaxFiles, MaxBytes, StreamSlack, Trailer} \subseteq Nat
    /\ MaxU64 \in Nat
    /\ MaxBytes + StreamSlack <= MaxU64

Entry == [kind     : {"file", "dir", "other"},
          plain    : BOOLEAN,
          declared : 0..MaxU64,
          head     : Nat,
          data     : Nat]

VARIABLE
    ex      \* the extraction in progress

ExtractPoints == {"off", "entry", "data", "done", "failed"}

NoExtract == [pc |-> "off", entries |-> <<>>, entry_count |-> 0,
              total_bytes |-> 0, remaining |-> 0, written |-> 0]

ExtractInit == ex = NoExtract

ExtractBegin(archive) ==
    ex' = [NoExtract EXCEPT !.pc = "entry", !.entries = archive,
                            !.remaining = MaxBytes + StreamSlack]

(***************************************************************************)
(* CappedReader: what has been read stays within the stream cap.           *)
(***************************************************************************)
\* Mutant: the reader fails only once it is past the cap.
PullsLate(n) == n <= ex.remaining + 1

Pulls(n) == n <= ex.remaining

ExtractFails == ex' = [ex EXCEPT !.pc = "failed"]

(***************************************************************************)
(* One turn of the loop, up to the entry's data.                           *)
(***************************************************************************)
\* Mutant: u64 addition that wraps.
Wrapping(a, b) == (a + b) % (MaxU64 + 1)

SaturatingAdd(a, b) == IF a + b > MaxU64 THEN MaxU64 ELSE a + b

\* Mutant: the cap itself is already refused.
TooManyEarly(count) == count >= MaxFiles

TooMany(count) == count > MaxFiles

TooLarge(total) == total > MaxBytes

Budget(e) == IF e.kind = "file" THEN SaturatingAdd(ex.total_bytes, e.declared)
             ELSE ex.total_bytes

Refused(e) ==
    \/ TooMany(ex.entry_count + 1)
    \/ e.kind = "other"
    \/ ~e.plain
    \/ TooLarge(Budget(e))

NextEntry ==
    /\ ex.pc = "entry"
    /\ ex.entries # <<>>
    /\ LET e == Head(ex.entries)
       IN  IF ~Pulls(e.head) \/ Refused(e)
           THEN ExtractFails
           ELSE ex' = [ex EXCEPT !.pc = "data",
                                 !.entry_count = @ + 1,
                                 !.total_bytes = Budget(e),
                                 !.remaining = @ - e.head]

Copied(e, bytes) == IF e.kind = "file" THEN bytes ELSE 0

\* io::copy of a file, or the next header's search past a directory's data.
\* At the cap, what was left of it has been written.
EntryData ==
    /\ ex.pc = "data"
    /\ LET e == Head(ex.entries)
       IN  IF Pulls(e.data)
           THEN ex' = [ex EXCEPT !.pc = "entry",
                                 !.entries = Tail(@),
                                 !.remaining = @ - e.data,
                                 !.written = @ + Copied(e, e.data)]
           ELSE ex' = [ex EXCEPT !.pc = "failed",
                                 !.remaining = 0,
                                 !.written = @ + Copied(e, ex.remaining)]

EndOfArchive ==
    /\ ex.pc = "entry"
    /\ ex.entries = <<>>
    /\ IF Pulls(Trailer)
       THEN ex' = [ex EXCEPT !.pc = "done", !.remaining = @ - Trailer]
       ELSE ExtractFails

ExtractStep == NextEntry \/ EntryData \/ EndOfArchive

(***************************************************************************)
(* What holds at every moment, of a refused extraction too.                *)
(***************************************************************************)
\* No more entries are counted, bytes promised, read through the decoder or
\* written to disk than the caps allow, however the headers lie; and the
\* reader's u64 never goes below zero.
CapsHold ==
    /\ ex.entry_count <= MaxFiles
    /\ ex.total_bytes <= MaxBytes
    /\ ex.remaining >= 0
    /\ ex.written <= MaxBytes + StreamSlack
=============================================================================
