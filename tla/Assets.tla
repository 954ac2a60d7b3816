------------------------------- MODULE Assets ------------------------------
(***************************************************************************)
(* The assets provider of src/assets.rs under a running HotUpdate: every   *)
(* request looks up the served directory again, then reads the file, then, *)
(* for the document's CSP header, looks it up once more.  Between any two  *)
(* of these steps serving may switch and directories may go.               *)
(*                                                                         *)
(* tauri's get_asset calls `get` for one candidate key after another, and  *)
(* `csp_hashes` for the one that answered; that order is external.  Keys   *)
(* are HTML documents; for any other file the last step is left out.       *)
(***************************************************************************)
EXTENDS HotUpdate, Sequences

CONSTANTS
    Keys,           \* asset keys a page may ask for
    Index,          \* index.html, the last candidate of every request
    EmbeddedKeys,   \* the keys the embedded frontend has
    Ships,          \* archive hash -> the keys in that bundle
    TornLacks       \* the keys a directory swept while being filled lacks

ASSUME KeysAssumption == Index \in EmbeddedKeys /\ EmbeddedKeys \subseteq Keys
ASSUME ShipsAssumption == Ships \in [Hashes -> SUBSET Keys]
ASSUME TornAssumption == TornLacks \subseteq Keys

VARIABLE
    fetch       \* each window's request: where it is and what it got

NoFetch == [pc     |-> "idle",      \* get, read, csp, then done or missing
            keys   |-> <<>>,        \* candidates left, the current one first
            from   |-> Embedded,    \* where the bytes come from
            hashes |-> FALSE,       \* the embedded CSP hashes were added
            error  |-> FALSE,       \* ghost: reading the current key failed
            moved  |-> FALSE]       \* ghost: serving changed since it began

AssetsInit == Init /\ fetch = [w \in Windows |-> NoFetch]

Candidates(key) == IF key = Index THEN <<Index>> ELSE <<key, Index>>

(***************************************************************************)
(* ota_file: whether the served bundle has the key's file.                 *)
(***************************************************************************)
Files(seq) == Ships[bundles[seq].meta.archive_sha256]
                  \ (IF bundles[seq].whole THEN {} ELSE TornLacks)

OtaFile(key) == {seq \in Present : seq = current.active /\ key \in Files(seq)}

(***************************************************************************)
(* get().                                                                  *)
(***************************************************************************)
Goto(w, pc) == fetch' = [fetch EXCEPT ![w].pc = pc]

Request(w, key) ==
    /\ proc = "up"
    /\ page[w] \in Pointer
    /\ fetch[w].pc \in {"idle", "done", "missing"}
    /\ fetch' = [fetch EXCEPT ![w] = [NoFetch EXCEPT !.pc = "get",
                                                     !.keys = Candidates(key)]]

\* The key's file is in the bundle that is served.
FindOta(w) ==
    /\ fetch[w].pc = "get"
    /\ \E seq \in OtaFile(Head(fetch[w].keys)) :
           fetch' = [fetch EXCEPT ![w].pc = "read", ![w].from = seq]

\* The embedded frontend answers, or tauri goes on to the next candidate.
Embed(w) ==
    LET keys == fetch[w].keys
    IN  \/ /\ Head(keys) \in EmbeddedKeys
           /\ fetch' = [fetch EXCEPT ![w].pc = "csp", ![w].from = Embedded,
                                     ![w].error = fetch[w].pc = "read"]
        \/ /\ Head(keys) \notin EmbeddedKeys
           /\ fetch' = [fetch EXCEPT
                  ![w].pc = IF Tail(keys) = <<>> THEN "missing" ELSE "get",
                  ![w].keys = Tail(keys), ![w].from = Embedded,
                  ![w].error = FALSE]

FallBack(w) ==
    /\ fetch[w].pc = "get"
    /\ OtaFile(Head(fetch[w].keys)) = {}
    /\ Embed(w)

Read(w) ==
    /\ fetch[w].pc = "read"
    /\ fetch[w].from \in Present
    /\ Goto(w, "csp")

ReadError(seq) == seq \notin Present \/ "read" \in Faults

\* Mutant: a read error is an answer of its own.
ReadFailsForGood(w) ==
    /\ fetch[w].pc = "read"
    /\ ReadError(fetch[w].from)
    /\ fetch' = [fetch EXCEPT ![w].pc = "missing", ![w].from = Embedded]

\* The file went away after the lookup, or is there and cannot be read: the
\* embedded asset instead.
ReadFails(w) ==
    /\ fetch[w].pc = "read"
    /\ ReadError(fetch[w].from)
    /\ Embed(w)

(***************************************************************************)
(* csp_hashes(): a lookup of its own.                                      *)
(***************************************************************************)
\* Mutant: keyed to the source that is active, not to the key.
CspHashesBySource(w) ==
    /\ fetch[w].pc = "csp"
    /\ fetch' = [fetch EXCEPT ![w].pc = "done",
                              ![w].hashes = (current.active = Embedded)]

CspHashes(w) ==
    /\ fetch[w].pc = "csp"
    /\ fetch' = [fetch EXCEPT ![w].pc = "done",
                              ![w].hashes = OtaFile(Head(fetch[w].keys)) = {}]

Provider ==
    /\ \E w \in Windows :
           \/ \E key \in Keys : Request(w, key)
           \/ FindOta(w) \/ FallBack(w) \/ Read(w) \/ ReadFails(w)
           \/ CspHashes(w)
    /\ UNCHANGED vars

(***************************************************************************)
(* Everything else goes on meanwhile.  Requests die with their page, or    *)
(* with the process; an answer given is forgotten when serving moves.      *)
(***************************************************************************)
\* What is served, or what is in its directory, changes in this step.
ServingMoves ==
    \/ current' # current
    \/ \E seq \in {current.active} \cap Seqs : bundles'[seq] # bundles[seq]

Under ==
    /\ Next
    /\ fetch' = [w \in Windows |->
                    IF proc' = "down" \/ page'[w] # page[w] THEN NoFetch
                    ELSE IF ~ServingMoves THEN fetch[w]
                    ELSE IF fetch[w].pc \in {"get", "read", "csp"}
                    THEN [fetch[w] EXCEPT !.moved = TRUE]
                    ELSE NoFetch]

assetsVars == <<vars, fetch>>

AssetsSpec == AssetsInit /\ [][Provider \/ Under]_assetsVars

(***************************************************************************)
(* Properties.                                                             *)
(***************************************************************************)
\* No request of a page is left without a document, whatever directory
\* disappears between the lookup and the read: a broken bundle is never a
\* blank page (assets.rs on a failed read: falling back to embedded).
AlwaysAnswered == \A w \in Windows : fetch[w].pc # "missing"

\* The CSP rule of assets.rs, per key, as long as serving does not move between
\* the two lookups: a document of the bundle never comes with the
\* compile-time hashes, and an embedded one comes with them unless it stands
\* in for a file of the bundle that could not be read.
HashesFollowKey ==
    \A w \in Windows : fetch[w].pc = "done" /\ ~fetch[w].moved =>
        /\ fetch[w].from # Embedded => ~fetch[w].hashes
        /\ fetch[w].from = Embedded /\ ~fetch[w].error => fetch[w].hashes

\* Every lookup follows `current`, so after a switch a page that is still
\* there gets files of another bundle than the one it was loaded from.  That
\* is only ever a page boot recovery is about to reload: no window is left
\* behind on files of two bundles.
Reloading(w) == \/ rec.pc = "switched"
                \/ rec.pc = "reload" /\ w \in rec.windows

MixedPageIsReloaded ==
    \A w \in Windows :
        /\ page[w] \in Pointer
        /\ fetch[w].pc \in {"csp", "done"}
        /\ fetch[w].from \notin {page[w], Embedded}
        => Reloading(w)

\* assets.rs: when a key falls back to the embedded assets, the embedded
\* hashes are delegated to.
EmbeddedKeepsHashes ==
    \A w \in Windows :
        /\ fetch[w].pc = "done"
        /\ ~fetch[w].moved
        /\ fetch[w].from = Embedded
        => fetch[w].hashes

\* assets.rs: never stale hashes for fresh content.
NoStaleHashes ==
    \A w \in Windows : fetch[w].pc = "done" /\ fetch[w].from # Embedded =>
        ~fetch[w].hashes
=============================================================================
