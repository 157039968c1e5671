--------------------------- MODULE RarConfigParse ---------------------------
(***************************************************************************)
(* The .rarconfig reader of src/src/rarconfig.c: rarconfig_init walks the  *)
(* file section by section (find_next_parent), and line by line inside a   *)
(* section (find_next_child), and stores what it recognises in one         *)
(* struct config_entry per section; the getters read an entry back.        *)
(*                                                                         *)
(* A line of the file is abstracted to what the two sscanf patterns make   *)
(* of it:                                                                  *)
(*   [kind |-> "header", name]       " [ %[^]] " matches: "[name]"         *)
(*   [kind |-> "bracket"]            a line starting with '[' that is not  *)
(*                                   a header, e.g. "[]"                   *)
(*   [kind |-> "kv", key, val]       " %[^#!=]=%[^\n]" matches             *)
(*   [kind |-> "comment"]            anything else (comments, blanks)      *)
(* The value keeps what %[^\n] keeps: every byte after '=', so a space     *)
(* written after '=' is part of it (val.spaced for save-eof).  A path is   *)
(* [abs, comps]: whether it starts with '/', and its components.          *)
(*                                                                         *)
(* Allocation failures are inputs: fail[i] says which allocation made      *)
(* while handling line i fails:                                            *)
(*   "node"   the malloc/strdup of find_next_parent or find_next_child     *)
(*   "entry"  alloc_entry for a header returns NULL                        *)
(*   "alloc1" the setter's first allocation (password strdup; the mallocs  *)
(*            or strdups of __entry_set_alias and __check_paths)           *)
(*   "alloc2" the setter's second one (password calloc; the realloc or a   *)
(*            strdup of __set_alias)                                       *)
(***************************************************************************)
EXTENDS Integers, Sequences, SequencesExt

Null == "NULL"

(* The empty path, returned where the code returns a NULL path.           *)
NullPath == [abs |-> FALSE, comps |-> <<>>]

SeekLengthProp == "RAR_SEEK_LENGTH_PROP"
SaveEofProp == "RAR_SAVE_EOF_PROP"
PasswordProp == "RAR_PASSWORD_PROP"

Faults == {"none", "node", "entry", "alloc1", "alloc2"}

(* __alloc: a zeroed struct config_entry.                                  *)
EmptyEntry ==
    [seek_length |-> 0, save_eof |-> 0, password |-> Null,
     password_w |-> Null, aliases |-> <<>>, mask |-> {}]

-----------------------------------------------------------------------------
(* strtoul(value, NULL, 0) stored into int seek_length.  A decimal literal *)
(* is [neg, q, r], the number q * 2^31 + r with a leading '-' when neg:    *)
(* strtoul negates modulo 2^64, and the int keeps the low 32 bits as a     *)
(* two's-complement value (gcc's conversion).  2^30 is written Half so     *)
(* that no intermediate value leaves TLC's 32-bit range.                   *)
Half == 1073741824

SeekLengthOf(lit) ==
    LET low == IF lit.q % 2 = 1 THEN (lit.r - Half) - Half ELSE lit.r
    IN IF ~lit.neg \/ low = (0 - Half) - Half THEN low ELSE 0 - low

(* strcasecmp(cnode->value, w) = 0 for w "true" or "false".                *)
ValueIs(val, w) == ~val.spaced /\ val.word = w

(* __entry_set_save_eof                                                    *)
EntrySetSaveEof(e, val) ==
    CASE ValueIs(val, "true")  -> [e EXCEPT !.save_eof = 1,
                                            !.mask = @ \cup {SaveEofProp}]
      [] ValueIs(val, "false") -> [e EXCEPT !.save_eof = 0,
                                            !.mask = @ \cup {SaveEofProp}]
      [] OTHER -> e

(* __entry_set_seek_length                                                 *)
EntrySetSeekLength(e, val) ==
    [e EXCEPT !.seek_length = SeekLengthOf(val),
              !.mask = @ \cup {SeekLengthProp}]

(* __entry_set_password: the text between the first and the last '"'.     *)
(* A failed strdup still overwrites e->password (with NULL); a failed      *)
(* calloc leaves password_w as it was.                                     *)
EntrySetPassword(e, val, ft) ==
    IF val.quotes < 2 THEN e
    ELSE IF ft = "alloc1" THEN [e EXCEPT !.password = Null]
    ELSE [e EXCEPT !.password = val.text,
                   !.password_w = IF ft = "alloc2" THEN @ ELSE val.text,
                   !.mask = @ \cup {PasswordProp}]

(* __dirlevels: dirname is applied until "/" is reached.                   *)
DirLevels(p) == Len(p.comps)

(* __gnu_dirname of an absolute path.                                      *)
Dirname(p) == [abs |-> TRUE, comps |-> Front(p.comps)]

(* __check_paths: 1 (refuse) unless both paths are absolute, longer than   *)
(* "/", as deep as each other and in the same directory.                   *)
CheckPaths(a, b) ==
    IF \/ ~a.abs \/ ~b.abs
       \/ a.comps = <<>> \/ b.comps = <<>>
       \/ DirLevels(a) # DirLevels(b)
       \/ Dirname(a) # Dirname(b)
    THEN 1 ELSE 0

(* __set_alias: append [file, alias]; any failed allocation drops it.      *)
SetAlias(e, file, alias, ft) ==
    IF ft = "alloc2" THEN e
    ELSE [e EXCEPT !.aliases = Append(@, [file |-> file, alias |-> alias])]

(* __entry_set_alias: sscanf of "\"file\", \"alias\"" (val.ok when it      *)
(* yields two strings), the path check, then __set_alias.                  *)
EntrySetAlias(e, val, ft) ==
    IF ft = "alloc1" \/ ~val.ok \/ CheckPaths(val.file, val.alias) = 1 THEN e
    ELSE SetAlias(e, val.file, val.alias, ft)

(* The strcasecmp chain of the inner loop of rarconfig_init.               *)
ApplyChild(e, l, ft) ==
    CASE l.key = "save-eof"    -> EntrySetSaveEof(e, l.val)
      [] l.key = "seek-length" -> EntrySetSeekLength(e, l.val)
      [] l.key = "password"    -> EntrySetPassword(e, l.val, ft)
      [] l.key = "alias"       -> EntrySetAlias(e, l.val, ft)
      [] OTHER -> e

(* Whether the setter for line l writes through e, which is NULL when      *)
(* alloc_entry failed.                                                     *)
Dereferences(l, ft) ==
    CASE l.key = "save-eof"    -> ValueIs(l.val, "true") \/ ValueIs(l.val, "false")
      [] l.key = "seek-length" -> TRUE
      [] l.key = "password"    -> l.val.quotes = 2
      [] l.key = "alias"       -> /\ ft # "alloc1" /\ l.val.ok
                                  /\ CheckPaths(l.val.file, l.val.alias) = 0
      [] OTHER -> FALSE

-----------------------------------------------------------------------------
(* find_next_parent from line i: the first header line, 0 at end of file. *)
NextParent(f, i) == SelectInSubSeq(f, i, Len(f), LAMBDA l : l.kind = "header")

NextChild(f, i) ==
    LET j == SelectInSubSeq(f, i, Len(f),
                            LAMBDA l : l.kind \in {"kv", "header", "bracket"})
    IN IF j # 0 /\ f[j].kind = "kv" THEN j ELSE 0

(* The inner loop of rarconfig_init from line i, on r = [entry, null,    *)
(* ub]: null when alloc_entry failed, and ub records a write through that  *)
(* NULL entry.  A failed child node ends the section as the end of file   *)
(* would.                                                                 *)
RECURSIVE SetChildren(_, _, _, _)
SetChildren(f, fail, i, r) ==
    LET c == NextChild(f, i)
    IN IF c = 0 \/ fail[c] = "node" \/ r.ub THEN r
       ELSE SetChildren(f, fail, c + 1,
              IF r.null
              THEN [r EXCEPT !.ub = Dereferences(f[c], fail[c])]
              ELSE [r EXCEPT !.entry = ApplyChild(@, f[c], fail[c])])

(* The outer loop of rarconfig_init from line i, on st = [table, ub]: one *)
(* entry per section, filled by the inner loop.  A failed parent node     *)
(* ends the walk; the remaining sections are not read.                    *)
RECURSIVE ParseFrom(_, _, _, _)
ParseFrom(f, fail, i, st) ==
    LET p == NextParent(f, i)
    IN IF p = 0 \/ fail[p] = "node" \/ st.ub THEN st
       ELSE LET r == SetChildren(f, fail, p + 1,
                       [entry |-> EmptyEntry, null |-> fail[p] = "entry",
                        ub |-> FALSE])
            IN ParseFrom(f, fail, p + 1,
                 [table |-> IF r.null THEN st.table
                            ELSE st.table @@ (f[p].name :> r.entry),
                  ub |-> r.ub])

(* The hash table rarconfig_init builds from file f.                      *)
ParseConfig(f, fail) == ParseFrom(f, fail, 1, [table |-> <<>>, ub |-> FALSE])

-----------------------------------------------------------------------------
(* Mutant: the mask is not consulted.                                      *)
GetpropIntNoMask(e, prop) ==
    CASE prop = SeekLengthProp -> e.seek_length
      [] prop = SaveEofProp -> e.save_eof
      [] OTHER -> -1

(* The value computed from e by each getter once the entry is found.      *)
GetpropInt(e, prop) ==
    CASE prop = SeekLengthProp ->
            IF SeekLengthProp \in e.mask THEN e.seek_length ELSE -1
      [] prop = SaveEofProp ->
            IF SaveEofProp \in e.mask THEN e.save_eof ELSE -1
      [] OTHER -> -1

GetpropChar(e) == IF PasswordProp \in e.mask THEN e.password ELSE Null

GetpropWchar(e) == IF PasswordProp \in e.mask THEN e.password_w ELSE Null

(* rarconfig_getalias: the first alias recorded for file.                 *)
GetAlias(e, file) ==
    LET n == SelectInSeq(e.aliases, LAMBDA a : a.file = file)
    IN IF n = 0 THEN NullPath ELSE e.aliases[n].alias

=============================================================================
