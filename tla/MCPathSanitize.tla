--------------------------- MODULE MCPathSanitize ---------------------------
(***************************************************************************)
(* Checks the operators of PathSanitize over every byte string up to       *)
(* MaxLen bytes drawn from Alphabet, and every one up to Utf8MaxLen bytes  *)
(* drawn from Utf8Alphabet: the initial state picks the member name, and   *)
(* the properties compare what sanitize_nested_path and is_valid_utf8 do   *)
(* with a reference reading of spec.md section 4.8.                        *)
(***************************************************************************)
EXTENDS PathSanitize, CommonPaths, FiniteSets

CONSTANTS
    Alphabet, MaxLen,           \* path-shaped names: separators, dots, ':'
    Utf8Alphabet, Utf8MaxLen    \* byte strings for the UTF-8 check

VARIABLE path      \* the member name read from the nested archive

Strings(A, m) == UNION {[1..n -> A] : n \in 0..m}

Init == path \in Strings(Alphabet, MaxLen) \cup Strings(Utf8Alphabet, Utf8MaxLen)
Next == UNCHANGED path
Spec == Init /\ [][Next]_path

Result == SanitizeNestedPath(path)

(* File names joined to path by ABS_MP_ and ABS_ROOT: none, "a", ".a".     *)
JoinFiles == {<<>>, <<97>>, <<46, 97>>}

-----------------------------------------------------------------------------
(* Reference: a ".." component starts at index i of r.                     *)
DotDotComponentAt(r, i) ==
    /\ At(r, i) = Dot /\ At(r, i + 1) = Dot
    /\ i = 1 \/ At(r, i - 1) = Slash
    /\ At(r, i + 2) \in {Slash, Nul}

(* Reference UTF-8 decoding: the length a lead byte announces, and the     *)
(* code point of the well-formed sequence of that length at i.             *)
SeqLength(b) ==
    CASE b \in 0..127    -> 1
      [] b \in 192..223  -> 2
      [] b \in 224..239  -> 3
      [] b \in 240..247  -> 4
      [] OTHER           -> 0

IsCont(b) == b \in 128..191

CodePoint(p, i, n) ==
    CASE n = 1 -> p[i]
      [] n = 2 -> (p[i] - 192) * 64 + (p[i + 1] - 128)
      [] n = 3 -> (p[i] - 224) * 4096 + (p[i + 1] - 128) * 64 + (p[i + 2] - 128)
      [] n = 4 -> (p[i] - 240) * 262144 + (p[i + 1] - 128) * 4096
                  + (p[i + 2] - 128) * 64 + (p[i + 3] - 128)

MinCodePoint(n) == CASE n = 1 -> 0 [] n = 2 -> 128 [] n = 3 -> 2048 [] n = 4 -> 65536

(* The decoded units of p from i: [bad, cp, n] per sequence.               *)
RECURSIVE Units(_, _)
Units(p, i) ==
    IF i > Len(p) THEN <<>>
    ELSE LET n == SeqLength(p[i])
         IN IF n = 0 \/ i + n - 1 > Len(p)
               \/ \E k \in 1..(n - 1) : ~IsCont(p[i + k])
            THEN <<[bad |-> TRUE, cp |-> 0, n |-> 1]>>
            ELSE <<[bad |-> FALSE, cp |-> CodePoint(p, i, n), n |-> n]>>
                 \o Units(p, i + n)

UnitSet(p) == {Units(p, 1)[k] : k \in DOMAIN Units(p, 1)}

-----------------------------------------------------------------------------
(* Spec section 3: a sanitized name is canonical, so joined to the         *)
(* extraction directory it stays inside it: it is not absolute and has no  *)
(* ".." component (rules 1 and 3 of section 4.8).                          *)
SanitizedStaysInside ==
    Result.ok =>
        /\ ~IsAbsolutePath(Result.path)
        /\ \A i \in DOMAIN Result.path : ~DotDotComponentAt(Result.path, i)

(* is_valid_utf8 accepts only well-formed sequences without overlong       *)
(* encodings (rule 5 of spec section 4.8).                                 *)
NoOverlongAccepted ==
    IsValidUtf8(path) =>
        \A u \in UnitSet(path) : ~u.bad /\ u.cp >= MinCodePoint(u.n)

(* is_valid_utf8 rejects code points above U+10FFFF (rule 5).              *)
NoCodepointAboveMax ==
    IsValidUtf8(path) => \A u \in UnitSet(path) : u.cp <= 1114111

(* The mount-point paths common.h builds are never cut short by their      *)
(* buffer: ABS_ROOT yields the source directory followed by the whole path, *)
(* and ABS_MP_ the whole directory, at most one '/', then the whole file.  *)
MountPathsWhole ==
    \A f \in JoinFiles :
        /\ AbsRoot(path, f) = path \o f
        /\ LET r == AbsMp(path, f)
           IN /\ Len(r) - Len(path) - Len(f) \in {0, 1}
              /\ SubSeq(r, 1, Len(path)) = path
              /\ SubSeq(r, Len(r) - Len(f) + 1, Len(r)) = f

=============================================================================
