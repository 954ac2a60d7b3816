---------------------------- MODULE MCAcquire ------------------------------
(* Small channels for TLC: caps of 2 files and 4 bytes. *)
EXTENDS Acquire

V1      == <<1, Release, 0>>
V2      == <<2, Release, 0>>
V2Beta  == <<2, 0, 0>>
V2Build == <<2, Release, 1>>
V3      == <<3, Release, 0>>

File(declared, head, data) ==
    [kind |-> "file", plain |-> TRUE, declared |-> declared, head |-> head,
     data |-> data]
Dir == [kind |-> "dir", plain |-> TRUE, declared |-> 0, head |-> 1, data |-> 0]
Link == [File(0, 1, 0) EXCEPT !.kind = "other"]
Outside == [File(1, 1, 1) EXCEPT !.plain = FALSE]

Archive(size, entries) == [size |-> size, entries |-> entries]

\* The first three are what sign_release makes, at the limits and below.
Archives ==
    [full    |-> Archive(3, <<File(2, 1, 2), File(2, 1, 2)>>),
     small   |-> Archive(3, <<File(1, 1, 1)>>),
     huge    |-> Archive(5, <<File(4, 1, 4)>>),
     brim    |-> Archive(2, <<File(4, 2, 4), [Dir EXCEPT !.head = 2]>>),
     over    |-> Archive(2, <<File(4, 2, 4), [Dir EXCEPT !.head = 3]>>),
     crowd   |-> Archive(2, <<Dir, File(1, 1, 1), File(1, 1, 1)>>),
     wraps   |-> Archive(2, <<File(1, 1, 1), File(MaxU64, 1, 1)>>),
     bomb    |-> Archive(1, <<File(1, 1, 20)>>),
     long    |-> Archive(1, <<File(1, 20, 1)>>),
     link    |-> Archive(1, <<Link>>),
     outside |-> Archive(1, <<Outside>>)]

Sign(version, content) ==
    [version |-> version, min_shell_version |-> V1, base_version |-> NoBase,
     content |-> content, key |-> "new", bytes |-> 1]

\* A version signed again; a rotation; releases some shells must not take;
\* and an archive no signing tool makes, followed by a good one.
TestPlans ==
    {<<Sign(V2, "full"), Sign(V2, "small")>>,
     <<Sign(V3, "small"), Sign(V2, "full"), Sign(V3, "full")>>,
     <<[Sign(V2, "full") EXCEPT !.key = "old"],
       [Sign(V3, "small") EXCEPT !.key = "lost"], Sign(V2, "small")>>,
     <<[Sign(V3, "full") EXCEPT !.base_version = V2Beta],
       [Sign(V3, "full") EXCEPT !.base_version = InvalidBase],
       [Sign(V3, "small") EXCEPT !.base_version = V2,
                                 !.min_shell_version = V2]>>,
     <<[Sign(V2Beta, "full") EXCEPT !.bytes = 2], Sign(V2, "huge"),
       Sign(V2, "small")>>}
    \cup {<<Sign(V2, content), Sign(V3, "small")>> :
              content \in DOMAIN Archives \ {"full", "small", "huge"}}

TestShells == {V1, V2, V2Build}
=============================================================================
