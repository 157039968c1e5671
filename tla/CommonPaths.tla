----------------------------- MODULE CommonPaths -----------------------------
(***************************************************************************)
(* The path-joining macros of src/src/common.h: ABS_ROOT puts the source   *)
(* directory in front of a path, ABS_MP_ joins a directory and a file name *)
(* with one '/'.  Both size the buffer from the lengths and then write it  *)
(* with snprintf.  Strings are sequences of bytes without the NUL.         *)
(***************************************************************************)
EXTENDS Integers, Sequences

SlashByte == 47

(* snprintf(s, size, ...) of the formatted text out: at most size - 1      *)
(* bytes are written, then the NUL.                                        *)
Snprintf(size, out) ==
    IF size = 0 THEN <<>>
    ELSE SubSeq(out, 1, IF Len(out) < size - 1 THEN Len(out) ELSE size - 1)

(* ABS_ROOT(s, path) with the source directory src.                        *)
AbsRoot(src, path) == Snprintf(Len(src) + Len(path) + 1, src \o path)

(* Mutant: the buffer has room for the separator but not for the NUL.      *)
AbsMpShort(path, file) ==
    LET total == Len(path) + Len(file) + 1
    IN IF Len(path) > 0 /\ path[Len(path)] # SlashByte
       THEN Snprintf(total, path \o <<SlashByte>> \o file)
       ELSE Snprintf(total, path \o file)

(* ABS_MP_(s, path, file, __alloc), the allocation succeeding.             *)
AbsMp(path, file) ==
    LET total == Len(path) + Len(file) + 2
    IN IF Len(path) > 0 /\ path[Len(path)] # SlashByte
       THEN Snprintf(total, path \o <<SlashByte>> \o file)
       ELSE Snprintf(total, path \o file)

=============================================================================
