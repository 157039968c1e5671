---------------------------- MODULE ConfigReading ----------------------------
(***************************************************************************)
(* A reading of the .rarconfig format of spec.md sections 4.9 and 6,       *)
(* independent of the code: a section is a "[path]" line and the           *)
(* "key = value" lines after it, up to the next line starting with '[';    *)
(* a key set twice in a section keeps its last value.  Lines are those of  *)
(* RarConfigParse.                                                         *)
(***************************************************************************)
EXTENDS Integers, Sequences, SequencesExt

(* The line that opens the part of the file line i is in: the last header *)
(* or bracket line before it, 0 if none.                                  *)
OpenerOf(f, i) ==
    SelectLastInSubSeq(f, 1, i - 1, LAMBDA l : l.kind \in {"header", "bracket"})

InSection(f, i, n) ==
    LET o == OpenerOf(f, i) IN o # 0 /\ f[o].kind = "header" /\ f[o].name = n

(* The lines of section n that set key to a value satisfying Ok.          *)
KeyLines(f, n, key, Ok(_)) ==
    {i \in 1..Len(f) :
        f[i].kind = "kv" /\ f[i].key = key /\ InSection(f, i, n) /\ Ok(f[i].val)}

LastOf(S) == CHOOSE i \in S : \A j \in S : j <= i

SectionNames(f) == {f[i].name : i \in {j \in 1..Len(f) : f[j].kind = "header"}}

(* save-eof: 1 or 0 for the last true or false, -1 when not set.          *)
ReadSaveEof(f, n) ==
    LET L == KeyLines(f, n, "save-eof", LAMBDA v : v.word \in {"true", "false"})
    IN IF L = {} THEN -1 ELSE IF f[LastOf(L)].val.word = "true" THEN 1 ELSE 0

(* seek-length: {the last literal written}, or {} when not set.           *)
ReadSeekLength(f, n) ==
    LET L == KeyLines(f, n, "seek-length", LAMBDA v : TRUE)
    IN IF L = {} THEN {} ELSE {f[LastOf(L)].val}

(* password: the last quoted text, "NULL" when there is none.             *)
ReadPassword(f, n) ==
    LET L == KeyLines(f, n, "password", LAMBDA v : v.quotes = 2)
    IN IF L = {} THEN "NULL" ELSE f[LastOf(L)].val.text

(* spec.md sections 4.9 and 9: an alias renames a file within its         *)
(* directory; a cross-directory alias is rejected.                         *)
SiblingRename(a, b) ==
    /\ a.abs /\ b.abs
    /\ a.comps # <<>> /\ b.comps # <<>>
    /\ Front(a.comps) = Front(b.comps)

(* alias: the [file, alias] pairs of section n's accepted alias lines, in  *)
(* file order.                                                             *)
ReadAliases(f, n) ==
    LET L == KeyLines(f, n, "alias",
                      LAMBDA v : v.ok /\ SiblingRename(v.file, v.alias))
        s == SetToSortSeq(L, <)
    IN [k \in DOMAIN s |-> [file |-> f[s[k]].val.file, alias |-> f[s[k]].val.alias]]

=============================================================================
