---------------------------- MODULE PathSanitize ----------------------------
(***************************************************************************)
(* The path checks of src/src/recursion.c that every member name of a      *)
(* nested archive goes through before it becomes a virtual path:           *)
(* sanitize_nested_path and its helpers.  A C string is a sequence of      *)
(* byte values (1..255); reading past its end yields the NUL terminator,   *)
(* which is what At returns.  A result is [ok, path]: ok = FALSE is the    *)
(* NULL return.                                                            *)
(***************************************************************************)
EXTENDS Integers, Sequences, Bitwise

CONSTANT MaxNestedPathLength   \* MAX_NESTED_PATH_LENGTH (4096)

Nul == 0
Dot == 46            \* '.'
Slash == 47          \* '/'
Colon == 58          \* ':'
Backslash == 92      \* '\\'

Null == [ok |-> FALSE, path |-> <<>>]
Ok(p) == [ok |-> TRUE, path |-> p]

(* p[i], or the terminating NUL when i is past the end.                    *)
At(p, i) == IF i \in 1..Len(p) THEN p[i] ELSE Nul

(* isalpha() in the C locale.                                              *)
IsAlpha(b) == b \in (65..90) \cup (97..122)

(* is_absolute_path                                                        *)
IsAbsolutePath(p) == At(p, 1) \in {Slash, Backslash}

(* is_windows_absolute_path: [A-Za-z]:[\\/]                                *)
IsWindowsAbsolutePath(p) ==
    /\ Len(p) >= 3
    /\ IsAlpha(p[1])
    /\ p[2] = Colon
    /\ p[3] \in {Backslash, Slash}

(* The copy loop of strip_dotdot_components from index i: wherever the     *)
(* scan stands on '.', '.' followed by a separator or the end, those bytes *)
(* and one separator are skipped; every other byte is copied.  The scan    *)
(* moves byte by byte, not component by component.                        *)
RECURSIVE StripFrom(_, _)
StripFrom(p, i) ==
    IF i > Len(p) THEN <<>>
    ELSE IF At(p, i) = Dot /\ At(p, i + 1) = Dot
            /\ At(p, i + 2) \in {Slash, Backslash, Nul}
         THEN StripFrom(p, IF At(p, i + 2) = Nul THEN i + 2 ELSE i + 3)
         ELSE <<p[i]>> \o StripFrom(p, i + 1)

(* strip_dotdot_components: the copy, then the rejection of a result that  *)
(* still starts with a ".." component.                                     *)
StripDotdotComponents(p) ==
    LET r == StripFrom(p, 1)
    IN IF At(r, 1) = Dot /\ At(r, 2) = Dot /\ At(r, 3) \in {Slash, Nul}
       THEN Null
       ELSE Ok(r)

(* Mutant: the overlong test of three-byte sequences is missing.           *)
RECURSIVE Utf8FromNoE0Check(_, _)
Utf8FromNoE0Check(p, i) ==
    LET b == At(p, i)
        Cont(k) == (At(p, i + k) & 192) = 128
    IN IF b = Nul THEN TRUE
       ELSE IF (b & 128) = 0 THEN Utf8FromNoE0Check(p, i + 1)
       ELSE IF (b & 224) = 192
            THEN Cont(1) /\ (b & 254) # 192 /\ Utf8FromNoE0Check(p, i + 2)
       ELSE IF (b & 240) = 224
            THEN Cont(1) /\ Cont(2) /\ Utf8FromNoE0Check(p, i + 3)
       ELSE IF (b & 248) = 240
            THEN /\ Cont(1) /\ Cont(2) /\ Cont(3)
                 /\ ~(b = 240 /\ (At(p, i + 1) & 240) = 128)
                 /\ b <= 244
                 /\ Utf8FromNoE0Check(p, i + 4)
       ELSE FALSE

(* The loop of is_valid_utf8 from index i: the lead byte decides the       *)
(* sequence length; continuation bytes must be 10xxxxxx; C0/C1, E0 8x-9x   *)
(* and F0 8x are overlong; lead bytes above F4 are rejected.               *)
RECURSIVE Utf8From(_, _)
Utf8From(p, i) ==
    LET b == At(p, i)
        Cont(k) == (At(p, i + k) & 192) = 128
    IN IF b = Nul THEN TRUE
       ELSE IF (b & 128) = 0 THEN Utf8From(p, i + 1)
       ELSE IF (b & 224) = 192
            THEN Cont(1) /\ (b & 254) # 192 /\ Utf8From(p, i + 2)
       ELSE IF (b & 240) = 224
            THEN /\ Cont(1) /\ Cont(2)
                 /\ ~(b = 224 /\ (At(p, i + 1) & 224) = 128)
                 /\ Utf8From(p, i + 3)
       ELSE IF (b & 248) = 240
            THEN /\ Cont(1) /\ Cont(2) /\ Cont(3)
                 /\ ~(b = 240 /\ (At(p, i + 1) & 240) = 128)
                 /\ b <= 244
                 /\ Utf8From(p, i + 4)
       ELSE FALSE

(* is_valid_utf8                                                           *)
IsValidUtf8(p) == Utf8From(p, 1)

(* Backslashes become slashes (rule 4).                                    *)
NormalizeSeparators(p) ==
    [i \in 1..Len(p) |-> IF p[i] = Backslash THEN Slash ELSE p[i]]

(* sanitize_nested_path: the early returns in the code's order (length,    *)
(* absolute, drive letter, UTF-8), then normalisation, stripping, and the  *)
(* rejection of an empty result.                                           *)
SanitizeNestedPath(p) ==
    LET s == StripDotdotComponents(NormalizeSeparators(p))
    IN IF Len(p) = 0 THEN Null
       ELSE IF Len(p) > MaxNestedPathLength THEN Null
       ELSE IF IsAbsolutePath(p) THEN Null
       ELSE IF IsWindowsAbsolutePath(p) THEN Null
       ELSE IF ~IsValidUtf8(p) THEN Null
       ELSE IF ~s.ok THEN Null
       ELSE IF s.path = <<>> THEN Null
       ELSE s

=============================================================================
