---------------------------- MODULE AssetsProofs ---------------------------
(***************************************************************************)
(* What a page is answered, proved for any set of keys and bundles and for *)
(* everything the rest of the system may do between the two lookups of a   *)
(* request.                                                                *)
(***************************************************************************)
EXTENDS Assets, MarkerProofs

(***************************************************************************)
(* The provider changes nothing of the system it serves from, so that what *)
(* is proved of Spec holds under it too.                                   *)
(***************************************************************************)
LEMMA AssetsStep == [Provider \/ Under]_assetsVars => [Next]_vars
BY DEF Provider, Under, assetsVars

LEMMA ProviderOnlyReads == AssetsSpec => Spec
<1>1. AssetsInit => Init
    BY DEF AssetsInit
<1>2. QED
    BY <1>1, AssetsStep, PTL DEF AssetsSpec, Spec

(***************************************************************************)
(* The inductive invariant: what a request knows while nothing has moved.  *)
(***************************************************************************)
\* The candidates left of a request for some key, of any key.
KeyLists == {<<Index>>} \cup {<<key, Index>> : key \in Keys}

Fetch == [pc     : {"idle", "get", "read", "csp", "done"},
          keys   : KeyLists \cup {<<>>},
          from   : Pointer,
          hashes : BOOLEAN,
          error  : BOOLEAN,
          moved  : BOOLEAN]

\* While it is being answered, a request has a candidate left.
Asking(f) == f.pc \in {"get", "read", "csp"} => f.keys \in KeyLists

\* A request read what is served: if nothing moved, what it got from the
\* bundle is still there, and what it got from the shell still is not, unless
\* it could not be read.
Found(f) ==
    /\ f.pc = "read" => f.from \in OtaFile(Head(f.keys))
    /\ f.pc = "csp" =>
           \/ f.from = Embedded /\ (f.error \/ OtaFile(Head(f.keys)) = {})
           \/ f.from \in OtaFile(Head(f.keys))
    /\ f.pc = "done" => /\ f.from # Embedded => ~f.hashes
                        /\ f.from = Embedded /\ ~f.error => f.hashes

Answering ==
    /\ fetch \in [Windows -> Fetch]
    /\ \A w \in Windows : /\ Asking(fetch[w])
                          /\ ~fetch[w].moved => Found(fetch[w])

LEMMA KeyListFacts ==
    /\ \A key \in Keys : Candidates(key) \in KeyLists
    /\ \A keys \in KeyLists :
           Head(keys) \notin EmbeddedKeys => Tail(keys) = <<Index>>
    /\ <<Index>> \in KeyLists
    /\ <<Index>> # <<>>
<1>1. ASSUME NEW keys \in KeyLists, Head(keys) \notin EmbeddedKeys
      PROVE  Tail(keys) = <<Index>>
    <2>1. CASE keys = <<Index>>
        BY <1>1, <2>1, KeysAssumption DEF KeysAssumption
    <2>2. ASSUME NEW key \in Keys, keys = <<key, Index>> PROVE Tail(keys) = <<Index>>
        BY <2>2
    <2>3. QED
        BY <2>1, <2>2 DEF KeyLists
<1>2. QED
    BY <1>1 DEF KeyLists, Candidates

\* The lookup finds the served bundle, or nothing.
LEMMA OtaFileFacts ==
    ASSUME NEW key, NEW seq \in OtaFile(key)
    PROVE  seq = current.active /\ seq \in Seqs /\ seq \in Present /\ seq # Embedded
BY SeqsAssumption DEF OtaFile, Present, SeqsAssumption, Embedded

LEMMA NoFetchOK == NoFetch \in Fetch /\ Asking(NoFetch) /\ Found(NoFetch)
BY DEF NoFetch, Fetch, Asking, Found, Pointer, Embedded, NoSeq

\* One request at a time: the others stay as they are.
LEMMA OneRequest ==
    ASSUME Answering, NEW w \in Windows, NEW f, f \in Fetch, Asking(f),
           ~f.moved => Found(f),
           fetch' = [fetch EXCEPT ![w] = f], UNCHANGED vars
    PROVE  Answering'
<1>1. fetch' \in [Windows -> Fetch] /\ fetch'[w] = f
    BY DEF Answering
<1>2. \A u \in Windows \ {w} : fetch'[u] = fetch[u]
    BY DEF Answering
<1>3. \A g : Found(g)' <=> Found(g)
    BY DEF vars, Found, OtaFile, Present, Files
<1>4. QED
    BY <1>1, <1>2, <1>3 DEF Answering, Asking

(***************************************************************************)
(* Each step of a request.                                                 *)
(***************************************************************************)
LEMMA RequestAnswers ==
    ASSUME Answering, NEW w \in Windows, NEW key \in Keys, Request(w, key),
           UNCHANGED vars
    PROVE  Answering'
<1> DEFINE f == [NoFetch EXCEPT !.pc = "get", !.keys = Candidates(key)]
<1>1. f \in Fetch /\ f.pc = "get" /\ f.keys \in KeyLists
    BY NoFetchOK, KeyListFacts DEF NoFetch, Fetch
<1>2. Asking(f) /\ Found(f)
    BY <1>1 DEF Asking, Found
<1>3. fetch' = [fetch EXCEPT ![w] = f]
    BY DEF Request
<1> HIDE DEF f
<1>4. QED
    BY <1>1, <1>2, <1>3, OneRequest

LEMMA FindOtaAnswers ==
    ASSUME Answering, NEW w \in Windows, FindOta(w), UNCHANGED vars
    PROVE  Answering'
<1>1. PICK seq \in OtaFile(Head(fetch[w].keys)) :
          fetch' = [fetch EXCEPT ![w].pc = "read", ![w].from = seq]
    BY DEF FindOta
<1> DEFINE f == [fetch[w] EXCEPT !.pc = "read", !.from = seq]
<1>2. fetch[w] \in Fetch /\ Asking(fetch[w]) /\ fetch[w].pc = "get"
    BY DEF Answering, FindOta
<1>3. seq \in Pointer
    BY OtaFileFacts DEF Pointer
<1>4. f \in Fetch /\ f.pc = "read" /\ f.from = seq /\ f.keys = fetch[w].keys
    BY <1>2, <1>3 DEF Fetch
<1>5. Asking(f) /\ Found(f)
    BY <1>2, <1>4 DEF Asking, Found
<1>6. fetch' = [fetch EXCEPT ![w] = f]
    BY <1>1, <1>2 DEF Answering
<1> HIDE DEF f
<1>7. QED
    BY <1>4, <1>5, <1>6, OneRequest

\* The embedded frontend answers, or there is another candidate: its
\* index.html answers every request in the end.
LEMMA EmbedAnswers ==
    ASSUME Answering, NEW w \in Windows, fetch[w].pc \in {"get", "read"}, Embed(w),
           fetch[w].pc = "read" \/ OtaFile(Head(fetch[w].keys)) = {}, UNCHANGED vars
    PROVE  Answering'
<1>1. fetch[w] \in Fetch /\ fetch[w].keys \in KeyLists
    BY DEF Answering, Asking
<1>2. Embedded \in Pointer
    BY DEF Embedded, Pointer, NoSeq
<1>3. CASE Head(fetch[w].keys) \in EmbeddedKeys
    <2> DEFINE f == [fetch[w] EXCEPT !.pc = "csp", !.from = Embedded,
                                     !.error = (fetch[w].pc = "read")]
    <2>1. /\ f \in Fetch /\ f.pc = "csp" /\ f.from = Embedded
          /\ f.keys = fetch[w].keys /\ f.moved = fetch[w].moved
          /\ f.error = (fetch[w].pc = "read")
        BY <1>1, <1>2 DEF Fetch
    <2>2. Asking(f) /\ (~f.moved => Found(f))
        BY <1>1, <2>1 DEF Asking, Found
    <2>3. fetch' = [fetch EXCEPT ![w] = f]
        BY <1>1, <1>3 DEF Embed, Answering
    <2> HIDE DEF f
    <2>4. QED
        BY <2>1, <2>2, <2>3, OneRequest
<1>4. CASE Head(fetch[w].keys) \notin EmbeddedKeys
    <2> DEFINE f == [fetch[w] EXCEPT !.pc = "get", !.keys = <<Index>>,
                                     !.from = Embedded, !.error = FALSE]
    <2>1. Tail(fetch[w].keys) = <<Index>>
        BY <1>1, <1>4, KeyListFacts
    <2>2. f \in Fetch /\ f.pc = "get" /\ f.keys \in KeyLists
        BY <1>1, <1>2, KeyListFacts DEF Fetch
    <2>3. Asking(f) /\ Found(f)
        BY <2>2 DEF Asking, Found
    <2>4. fetch' = [fetch EXCEPT ![w] = f]
        BY <1>1, <1>4, <2>1, KeyListFacts DEF Embed, Answering
    <2> HIDE DEF f
    <2>5. QED
        BY <2>2, <2>3, <2>4, OneRequest
<1>5. QED
    BY <1>3, <1>4

LEMMA ReadAnswers ==
    ASSUME Answering, NEW w \in Windows, Read(w), UNCHANGED vars
    PROVE  Answering'
<1> DEFINE f == [fetch[w] EXCEPT !.pc = "csp"]
<1>1. /\ fetch[w] \in Fetch /\ Asking(fetch[w]) /\ fetch[w].pc = "read"
      /\ ~fetch[w].moved => Found(fetch[w])
    BY DEF Answering, Read
<1>2. /\ f \in Fetch /\ f.pc = "csp" /\ f.from = fetch[w].from
      /\ f.keys = fetch[w].keys /\ f.moved = fetch[w].moved
    BY <1>1 DEF Fetch
<1>3. Asking(f) /\ (~f.moved => Found(f))
    BY <1>1, <1>2 DEF Asking, Found
<1>4. fetch' = [fetch EXCEPT ![w] = f]
    BY <1>1 DEF Read, Goto, Answering
<1> HIDE DEF f
<1>5. QED
    BY <1>2, <1>3, <1>4, OneRequest

\* The second lookup agrees with the first if nothing moved.
LEMMA CspHashesAnswers ==
    ASSUME Answering, NEW w \in Windows, CspHashes(w), UNCHANGED vars
    PROVE  Answering'
<1> DEFINE none == OtaFile(Head(fetch[w].keys)) = {}
           f    == [fetch[w] EXCEPT !.pc = "done", !.hashes = none]
<1>1. /\ fetch[w] \in Fetch /\ fetch[w].pc = "csp"
      /\ ~fetch[w].moved => Found(fetch[w])
    BY DEF Answering, CspHashes
<1>2. /\ f \in Fetch /\ f.pc = "done" /\ f.from = fetch[w].from
      /\ f.hashes = none /\ f.error = fetch[w].error /\ f.moved = fetch[w].moved
    BY <1>1 DEF Fetch
<1>3. ~f.moved => /\ f.from # Embedded => ~none
                  /\ f.from = Embedded /\ ~f.error => none
    BY <1>1, <1>2, OtaFileFacts DEF Found
<1>4. fetch' = [fetch EXCEPT ![w] = f]
    BY <1>1 DEF CspHashes, Answering
<1> HIDE DEF f, none
<1>5. Asking(f) /\ (~f.moved => Found(f))
    BY <1>2, <1>3 DEF Asking, Found
<1>6. QED
    BY <1>2, <1>4, <1>5, OneRequest

LEMMA ProviderAnswers == Answering /\ Provider => Answering'
<1> SUFFICES ASSUME Answering, UNCHANGED vars, NEW w \in Windows,
                    \/ \E key \in Keys : Request(w, key)
                    \/ FindOta(w) \/ FallBack(w) \/ Read(w) \/ ReadFails(w)
                    \/ CspHashes(w)
             PROVE  Answering'
    BY DEF Provider
<1>1. CASE \E key \in Keys : Request(w, key)
    BY <1>1, RequestAnswers
<1>2. CASE FindOta(w)
    BY <1>2, FindOtaAnswers
<1>3. CASE FallBack(w)
    BY <1>3, EmbedAnswers DEF FallBack
<1>4. CASE Read(w)
    BY <1>4, ReadAnswers
<1>5. CASE ReadFails(w)
    BY <1>5, EmbedAnswers DEF ReadFails
<1>6. CASE CspHashes(w)
    BY <1>6, CspHashesAnswers
<1>7. QED
    BY <1>1, <1>2, <1>3, <1>4, <1>5, <1>6

(***************************************************************************)
(* The rest of the system meanwhile.                                       *)
(***************************************************************************)
LEMMA UnderAnswers == Answering /\ Under => Answering'
<1> SUFFICES ASSUME Answering, Under PROVE Answering'
    OBVIOUS
<1> DEFINE passed(w) == [fetch[w] EXCEPT !.moved = TRUE]
<1>1. ASSUME NEW w \in Windows
      PROVE  \/ fetch'[w] = NoFetch
             \/ fetch'[w] = fetch[w] /\ ~ServingMoves
             \/ fetch'[w] = passed(w)
    BY DEF Under
<1>2. NoFetch \in Fetch /\ Asking(NoFetch) /\ Found(NoFetch)'
    BY NoFetchOK DEF NoFetch, Found
<1>3. ASSUME NEW w \in Windows
      PROVE  passed(w) \in Fetch /\ Asking(passed(w)) /\ passed(w).moved
    <2>1. fetch[w] \in Fetch /\ Asking(fetch[w])
        BY DEF Answering
    <2>2. QED
        BY <2>1 DEF Fetch, Asking
<1>4. ASSUME ~ServingMoves PROVE \A key : OtaFile(key)' = OtaFile(key)
    <2>1. current' = current
        BY <1>4 DEF ServingMoves
    <2>2. \A seq \in Seqs : seq = current.active => bundles'[seq] = bundles[seq]
        BY <1>4 DEF ServingMoves
    <2>3. QED
        BY <2>1, <2>2 DEF OtaFile, Present, Files
<1>5. fetch' \in [Windows -> Fetch]
    <2>1. DOMAIN fetch' = Windows /\ fetch' = [w \in Windows |-> fetch'[w]]
        BY DEF Under
    <2>2. \A w \in Windows : fetch'[w] \in Fetch
        BY <1>1, <1>2, <1>3 DEF Answering
    <2>3. QED
        BY <2>1, <2>2
<1>6. ASSUME NEW w \in Windows
      PROVE  (Asking(fetch[w]) /\ (~fetch[w].moved => Found(fetch[w])))'
    <2>1. CASE fetch'[w] = NoFetch
        BY <1>2, <2>1 DEF Found, Asking
    <2>2. CASE fetch'[w] = fetch[w] /\ ~ServingMoves
        <3>1. Asking(fetch[w]) /\ (~fetch[w].moved => Found(fetch[w]))
            BY DEF Answering
        <3>2. Found(fetch[w])' <=> Found(fetch[w])
            <4>1. \A key : OtaFile(key)' = OtaFile(key)
                BY <1>4, <2>2
            <4>2. QED
                BY <2>2, <4>1 DEF Found
        <3>3. QED
            BY <2>2, <3>1, <3>2 DEF Asking
    <2>3. CASE fetch'[w] = passed(w)
        BY <1>3, <2>3 DEF Asking
    <2>4. QED
        BY <1>1, <2>1, <2>2, <2>3
<1>7. QED
    BY <1>5, <1>6 DEF Answering

LEMMA StutterAnswers == Answering /\ UNCHANGED assetsVars => Answering'
<1> SUFFICES ASSUME Answering, UNCHANGED assetsVars PROVE Answering'
    OBVIOUS
<1>1. UNCHANGED <<fetch, current, bundles>>
    BY DEF assetsVars, vars
<1>2. QED
    BY <1>1 DEF Answering, Asking, Found, OtaFile, Present, Files

LEMMA AnsweringAlways == AssetsSpec => []Answering
<1>1. AssetsInit => Answering
    BY NoFetchOK DEF AssetsInit, Answering
<1>2. QED
    BY <1>1, ProviderAnswers, UnderAnswers, StutterAnswers, PTL DEF AssetsSpec

(***************************************************************************)
(* What pages rely on.                                                     *)
(***************************************************************************)
\* Every request ends in a document, whatever is deleted, lost or switched
\* between the lookup and the read (assets.rs: get falls back to embedded).
THEOREM EveryRequestIsAnswered == AssetsSpec => []AlwaysAnswered
<1>1. Answering => AlwaysAnswered
    BY DEF Answering, Fetch, AlwaysAnswered
<1>2. QED
    BY <1>1, AnsweringAlways, PTL

\* The CSP hashes go with the document, key by key, if serving did not move
\* between the two lookups: a document of the bundle comes without the embedded
\* ones, and an embedded document comes with them unless the bundle has the
\* file and it could not be read (assets.rs: csp_hashes).
THEOREM HashesGoWithKey == AssetsSpec => []HashesFollowKey
<1>1. Answering => HashesFollowKey
    BY DEF Answering, Found, HashesFollowKey
<1>2. QED
    BY <1>1, AnsweringAlways, PTL

(***************************************************************************)
(* Pages that were there before a switch.                                  *)
(***************************************************************************)
\* A page of another bundle than the one served is about to be reloaded.
Behind ==
    \A w \in Windows :
        page[w] \in Pointer /\ page[w] # current.active => Reloading(w)

\* Every file a page has got comes from the shell, from the bundle it was
\* loaded from, or from the one served now.
GotFrom ==
    \A w \in Windows :
        page[w] \in Pointer /\ fetch[w].pc \in {"read", "csp", "done"} =>
            fetch[w].from \in {page[w], current.active, Embedded}

\* What a step can do to the pages: none is left; they stay or load what is
\* served, and one to be reloaded stays so until it has been; or boot recovery
\* switches under them.
PagesMove ==
    \/ \A w \in Windows : page'[w] = NoPage
    \/ /\ UNCHANGED current
       /\ \A w \in Windows :
              /\ page'[w] \in {page[w], current.active, RemotePage}
              /\ Reloading(w) => \/ Reloading(w)'
                                 \/ page'[w] \in {current.active, RemotePage}
    \/ /\ UNCHANGED page
       /\ rec.pc = "switch"
       /\ rec'.pc = "switched"

LEMMA ReloadsStay ==
    ASSUME UNCHANGED <<current, page>>, UNCHANGED rec \/ rec.pc \notin {"switched", "reload"}
    PROVE  PagesMove
BY DEF PagesMove, Reloading

LEMMA RecoveryPages ==
    ASSUME "reload" \notin Faults, Typed, GateHeld, RecoveryNext
    PROVE  PagesMove
<1> USE Constants, IdleCall, CallType
<1>1. CASE \/ RecPageIsFine \/ RecCall \/ RecLocks \/ RecCollect
           \/ RecStagedOnly \/ RecSwitch
    BY <1>1, ReloadsStay DEF RecPageIsFine, RecCall, RecLocks, RecCollect,
       RecStagedOnly, RecSwitch, runtimeVars
<1>2. CASE RecArm \/ RecVersion \/ RecDiscard
    BY <1>2, ReloadsStay DEF RecArm, RecVersion, RecDiscard, ApplyArm,
       ApplyVersion, ApplyDiscard, applyFrame
<1>3. CASE RecKeep \/ RecDiscarded \/ RecApplyFail
    <2>1. UNCHANGED <<current, page>> /\ call[Recoverer].pc # "idle"
        BY <1>3 DEF RecKeep, RecDiscarded, RecApplyFail, ApplyRefuse,
           ApplyDecides, ApplyGC, ApplyFail, applyFrame
    <2>2. QED
        BY <2>1, ReloadsStay DEF GateHeld
<1>4. CASE RecSwap
    <2>1. UNCHANGED page /\ call[Recoverer].pc # "idle" /\ rec'.pc = "switched"
        BY <1>4, RecMoves DEF RecSwap, ApplySwap, applyFrame
    <2>2. QED
        BY <2>1 DEF GateHeld, PagesMove
<1>5. CASE RecFlag
    BY <1>5 DEF RecFlag, PagesMove, Reloading
<1>6. ASSUME NEW w \in Windows, RecReload(w) \/ RecReloadFails(w) PROVE PagesMove
    <2>1. /\ UNCHANGED current
          /\ page' = page \/ page' = [page EXCEPT ![w] = current.active]
          /\ page'[w] \in {current.active, RemotePage}
        BY <1>6 DEF RecReload, RecReloadFails, Load, runtimeVars, Typed, TypeOK,
           RuntimeTypeOK
    <2>2. /\ rec.pc = "reload" /\ rec'.pc = "reload"
          /\ rec'.windows = rec.windows \ {w}
        BY <1>6 DEF RecReload, RecReloadFails
    <2>3. QED
        BY <2>1, <2>2 DEF PagesMove, Reloading, Typed, TypeOK, RuntimeTypeOK
<1>7. CASE RecReloaded
    BY <1>7 DEF RecReloaded, PagesMove, Reloading, runtimeVars
<1>8. QED
    BY <1>1, <1>2, <1>3, <1>4, <1>5, <1>6, <1>7 DEF RecoveryNext

LEMMA StepPages ==
    ASSUME "apply" \notin PageCalls, "reload" \notin Faults
    PROVE  Typed /\ GateHeld /\ NoApplyCall /\ [Next]_vars => PagesMove
<1> SUFFICES ASSUME Typed, GateHeld, NoApplyCall, [Next]_vars PROVE PagesMove
    OBVIOUS
<1>1. CASE Launch \/ Quit
    BY <1>1 DEF Launch, LaunchSaved, LaunchUnsaved, Start, Quit, Exit, PagesMove
<1>2. CASE PageStep
    <2>1. PICK w \in Windows : PageLoad(w) \/ RemoteLoad(w)
        BY <1>2 DEF PageStep
    <2>2. /\ UNCHANGED <<current, rec>>
          /\ \/ page' = [page EXCEPT ![w] = current.active]
             \/ page' = [page EXCEPT ![w] = RemotePage]
        BY <1>2, <2>1 DEF PageStep, PageLoad, Load, RemoteLoad
    <2>3. QED
        BY <2>2 DEF PagesMove, Reloading, Typed, TypeOK, RuntimeTypeOK
<1>3. CASE LaunchCut \/ Environment \/ check_and_download \/ UNCHANGED vars
    BY <1>3, PipelineKeeps, ReloadsStay DEF LaunchCut, LaunchKilled, Environment,
       LoseState, DirLost, runtimeVars, vars
<1>4. ASSUME NEW t \in Callers, notify_app_ready(t) \/ reset(t) PROVE PagesMove
    BY <1>4, ReloadsStay DEF notify_app_ready, AckBegin, AckUpdate, AckFail,
       AckReturn, reset, ResetBegin, ResetUpdate, ResetFail, ResetReturn
<1>5. CASE RecoveryNext
    BY <1>5, RecoveryPages
<1>6. QED
    BY <1>1, <1>2, <1>3, <1>4, <1>5, NoApplyStep DEF Next, Session

LEMMA NoPageFacts == NoPage \notin Pointer /\ RemotePage \notin Pointer
BY Constants DEF Pointer, NoPage, RemotePage

LEMMA BehindStep == Behind /\ PagesMove => Behind'
<1> SUFFICES ASSUME Behind, PagesMove, NEW w \in Windows,
                    page'[w] \in Pointer, page'[w] # current'.active
             PROVE  Reloading(w)'
    BY DEF Behind
<1>1. QED
    BY NoPageFacts DEF Behind, PagesMove, Reloading

LEMMA GotFromStep ==
    ASSUME Typed, Answering, Behind, GotFrom,
           \/ Provider
           \/ Under /\ PagesMove
           \/ UNCHANGED assetsVars
    PROVE  GotFrom'
<1>1. CASE UNCHANGED assetsVars
    BY <1>1 DEF assetsVars, vars, GotFrom
<1>2. CASE Provider
    <2> USE OtaFileFacts
    <2>1. UNCHANGED <<page, current>>
        BY <1>2 DEF Provider, vars
    <2>2. PICK w \in Windows : \/ \E key \in Keys : Request(w, key)
                               \/ FindOta(w) \/ FallBack(w) \/ Read(w) \/ ReadFails(w)
                               \/ CspHashes(w)
        BY <1>2 DEF Provider
    <2>3. \A u \in Windows \ {w} : fetch'[u] = fetch[u]
        BY <2>2 DEF Request, FindOta, FallBack, Read, Goto, ReadFails, Embed,
           CspHashes, Answering
    <2>4. fetch'[w].pc \in {"read", "csp", "done"} =>
              \/ fetch'[w].from \in {current.active, Embedded}
              \/ /\ fetch'[w].from = fetch[w].from
                 /\ fetch[w].pc \in {"read", "csp"}
        <3>0. fetch[w] \in Fetch /\ fetch \in [Windows -> Fetch]
            BY DEF Answering
        <3>1. CASE \E key \in Keys : Request(w, key)
            BY <3>0, <3>1 DEF Request, NoFetch
        <3>2. CASE FindOta(w)
            BY <3>0, <3>2 DEF FindOta, Fetch
        <3>3. CASE FallBack(w) \/ ReadFails(w)
            <4>1. Embed(w)
                BY <3>3 DEF FallBack, ReadFails
            <4>2. CASE Head(fetch[w].keys) \in EmbeddedKeys
                <5>1. fetch' = [fetch EXCEPT ![w].pc = "csp", ![w].from = Embedded,
                                             ![w].error = (fetch[w].pc = "read")]
                    BY <4>1, <4>2 DEF Embed
                <5>2. QED
                    BY <3>0, <5>1 DEF Fetch
            <4>3. CASE Head(fetch[w].keys) \notin EmbeddedKeys
                <5>1. PICK pc, keys :
                          fetch' = [fetch EXCEPT ![w].pc = pc, ![w].keys = keys,
                                                 ![w].from = Embedded,
                                                 ![w].error = FALSE]
                    BY <4>1, <4>3 DEF Embed
                <5>2. QED
                    BY <3>0, <5>1 DEF Fetch
            <4>4. QED
                BY <4>2, <4>3
        <3>4. CASE Read(w) \/ CspHashes(w)
            BY <3>0, <3>4 DEF Read, Goto, CspHashes, Fetch
        <3>5. QED
            BY <2>2, <3>1, <3>2, <3>3, <3>4
    <2>5. QED
        BY <2>1, <2>3, <2>4 DEF GotFrom
<1>3. CASE Under /\ PagesMove
    <2> SUFFICES ASSUME NEW w \in Windows, page'[w] \in Pointer,
                        fetch'[w].pc \in {"read", "csp", "done"}
                 PROVE  fetch'[w].from \in {page'[w], current'.active, Embedded}
        BY DEF GotFrom
    <2>1. /\ page'[w] = page[w]
          /\ fetch'[w].pc = fetch[w].pc
          /\ fetch'[w].from = fetch[w].from
        <3>1. fetch[w] \in Fetch /\ NoFetch.pc = "idle"
            BY DEF Answering, NoFetch
        <3>2. QED
            BY <1>3, <3>1 DEF Under, Fetch
    <2>2. fetch[w].from \in {page[w], current.active, Embedded}
        BY <2>1 DEF GotFrom
    <2>3. current' = current \/ page[w] = current.active
        BY <1>3, <2>1, NoPageFacts DEF PagesMove, Behind, Reloading
    <2>4. QED
        BY <2>1, <2>2, <2>3
<1>4. QED
    BY <1>1, <1>2, <1>3

\* In a frontend that leaves the switch to boot recovery, and whose windows do
\* reload when they are asked to, only a page that recovery is about to reload
\* ever holds files of two bundles (recovery.rs: switch, and run's loop over
\* the windows).
THEOREM MixedPagesAreReloaded ==
    ASSUME "apply" \notin PageCalls, "reload" \notin Faults
    PROVE  AssetsSpec => []MixedPageIsReloaded
<1>1. AssetsInit => Behind /\ GotFrom
    BY NoPageFacts DEF AssetsInit, Init, RuntimeInit, Behind, GotFrom
<1>2. /\ Typed /\ GateHeld /\ NoApplyCall /\ Answering /\ Behind /\ GotFrom
      /\ [Provider \/ Under]_assetsVars
      => Behind' /\ GotFrom'
    BY AssetsStep, StepPages, BehindStep, GotFromStep DEF Under
<1>3. Behind /\ GotFrom => MixedPageIsReloaded
    BY DEF Behind, GotFrom, MixedPageIsReloaded
<1>4. QED
    BY <1>1, <1>2, <1>3, ProviderOnlyReads, TypedAlways, GateHeldAlways,
       NoApplyCallAlways, AnsweringAlways, PTL DEF AssetsSpec
=============================================================================
