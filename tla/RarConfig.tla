------------------------------- MODULE RarConfig -----------------------------
(***************************************************************************)
(* The per-archive configuration table of src/src/rarconfig.c as FUSE      *)
(* threads use it: rarconfig_init builds the table from the file, the      *)
(* getters look an entry up, rarconfig_setalias adds an alias, and         *)
(* rarconfig_destroy frees the table.  Every function takes config_mutex   *)
(* for the whole of its work, which is one atomic step here, except that   *)
(* rarconfig_getprop_int, _char and _wchar release it before they read the *)
(* entry they found: that read is a step of its own (GetpropRead).         *)
(*                                                                         *)
(* ht is the table, or NoTable for the NULL pointer; gen numbers the       *)
(* tables built, so an entry found in one table and read after ht has      *)
(* changed generation was freed by rarconfig_destroy.                      *)
(***************************************************************************)
EXTENDS RarConfigParse, ConfigReading, FiniteSets

CONSTANTS
    Threads,        \* FUSE worker threads
    File,           \* the .rarconfig file, as lines of RarConfigParse
    Paths,          \* archive paths the callers look up
    AliasFiles,     \* files passed to rarconfig_getalias
    AliasInputs,    \* [file, alias] pairs passed to rarconfig_setalias
    MaxTables,      \* bound on the tables built (init after destroy)
    MaxAliases,     \* bound on the aliases of one entry
    RwLockHeld      \* the caller holds the global lock across each call

NoTable == [gen |-> 0, table |-> <<>>]
(* A call's result: ival, sval or pval holds the int, string or path it  *)
(* returned, by op.                                                        *)
Ret(op, p, k, file, found, ival, sval, pval) ==
    [op |-> op, path |-> p, prop |-> k, file |-> file, found |-> found,
     ival |-> ival, sval |-> sval, pval |-> pval]
NoRet == Ret("none", Null, Null, NullPath, FALSE, -1, Null, NullPath)

GetpropOps == {"int", "char", "wchar"}
PropsOf(op) == IF op = "int" THEN {SeekLengthProp, SaveEofProp} ELSE {PasswordProp}


VARIABLES
    ht,         \* static void *ht
    built,      \* tables built so far
    pc,         \* "idle"; "read": a getter between unlock and read;
                \* "use": a getalias caller holding the returned string
    held,       \* what a getter found: [gen, path, op, prop, file]
    ret,        \* what each thread's last call returned
    ub          \* "none", or "use_after_free" once a getter read freed memory

vars == <<ht, built, pc, held, ret, ub>>

Init ==
    /\ ht = NoTable
    /\ built = 0
    /\ pc = [t \in Threads |-> "idle"]
    /\ held = [t \in Threads |-> [gen |-> 0, path |-> Null, op |-> Null,
                                   prop |-> Null, file |-> NullPath]]
    /\ ret = [t \in Threads |-> NoRet]
    /\ ub = "none"

Idle(t) == ub = "none" /\ pc[t] = "idle"

(* Allocation failures while the file is read are checked in            *)
(* MCRarConfigParse; here every allocation succeeds.                     *)
NoFaults == [i \in DOMAIN File |-> "none"]

Entry(p) == ht.table[p]
Found(p) == ht.gen # 0 /\ p \in DOMAIN ht.table

-----------------------------------------------------------------------------
(* rarconfig_init with no table yet and the file opened: the table is     *)
(* parsed and published under the mutex.  With a table already built, or  *)
(* no file, it returns at once, changing nothing.                         *)
RarconfigInit(t) ==
    /\ Idle(t)
    /\ ht = NoTable
    /\ built < MaxTables
    /\ ht' = [gen |-> built + 1, table |-> ParseConfig(File, NoFaults).table]
    /\ built' = built + 1
    /\ UNCHANGED <<pc, held, ret, ub>>

(* A getter finds the entry for path, releases config_mutex, and still    *)
(* has to read from it (lines 84-87).                                     *)
GetpropFound(t, op, p, k) ==
    /\ Idle(t)
    /\ Found(p)
    /\ pc' = [pc EXCEPT ![t] = "read"]
    /\ held' = [held EXCEPT ![t] = [gen |-> ht.gen, path |-> p, op |-> op,
                                     prop |-> k, file |-> NullPath]]
    /\ UNCHANGED <<ht, built, ret, ub>>

(* No table, or no entry for path: the getter returns -1 or NULL.         *)
GetpropNotFound(t, op, p, k) ==
    /\ Idle(t)
    /\ ~Found(p)
    /\ ret' = [ret EXCEPT ![t] = Ret(op, p, k, NullPath, FALSE, -1, Null, NullPath)]
    /\ UNCHANGED <<ht, built, pc, held, ub>>

(* After the unlock: e->mask and the property are read from the entry     *)
(* found, which is freed memory if the table was destroyed meanwhile.     *)
GetpropRead(t) ==
    /\ ub = "none"
    /\ pc[t] = "read"
    /\ LET h == held[t]
           e == Entry(h.path)
       IN IF ht.gen = h.gen
          THEN /\ ret' = [ret EXCEPT ![t] =
                     Ret(h.op, h.path, h.prop, NullPath, TRUE,
                         IF h.op = "int" THEN GetpropInt(e, h.prop) ELSE -1,
                         CASE h.op = "char"  -> GetpropChar(e)
                           [] h.op = "wchar" -> GetpropWchar(e)
                           [] OTHER          -> Null,
                         NullPath)]
               /\ UNCHANGED ub
          ELSE /\ ub' = "use_after_free"
               /\ UNCHANGED ret
    /\ pc' = [pc EXCEPT ![t] = "idle"]
    /\ UNCHANGED <<ht, built, held>>

(* rarconfig_getalias finds an alias for file: it unlocks config_mutex    *)
(* and returns the alias string of the entry, which the caller goes on to  *)
(* read.                                                                   *)
AliasFound(p, file) == Found(p) /\ GetAlias(Entry(p), file) # NullPath

GetaliasFound(t, p, file) ==
    /\ Idle(t)
    /\ AliasFound(p, file)
    /\ pc' = [pc EXCEPT ![t] = "use"]
    /\ held' = [held EXCEPT ![t] = [gen |-> ht.gen, path |-> p, op |-> "alias",
                                     prop |-> Null, file |-> file]]
    /\ UNCHANGED <<ht, built, ret, ub>>

(* No table, no entry for path, or no alias for file: NULL.                *)
GetaliasNotFound(t, p, file) ==
    /\ Idle(t)
    /\ ~AliasFound(p, file)
    /\ ret' = [ret EXCEPT ![t] = Ret("alias", p, Null, file, Found(p), -1, Null, NullPath)]
    /\ UNCHANGED <<ht, built, pc, held, ub>>

(* The caller (in rar2fs.c, from spec.md section 5) reads the string       *)
(* rarconfig_getalias returned; it is freed memory if the table was        *)
(* destroyed since.  SetAlias only appends, so the first alias of file is  *)
(* still the one returned.                                                 *)
GetaliasUse(t) ==
    /\ ub = "none"
    /\ pc[t] = "use"
    /\ LET h == held[t]
       IN IF ht.gen = h.gen
          THEN /\ ret' = [ret EXCEPT ![t] =
                     Ret("alias", h.path, Null, h.file, TRUE, -1, Null,
                         GetAlias(Entry(h.path), h.file))]
               /\ UNCHANGED ub
          ELSE /\ ub' = "use_after_free"
               /\ UNCHANGED ret
    /\ pc' = [pc EXCEPT ![t] = "idle"]
    /\ UNCHANGED <<ht, built, held>>

(* rarconfig_setalias: __set_alias on the entry, if there is one.  A      *)
(* failed allocation leaves the entry as it was, a step that changes      *)
(* nothing.                                                               *)
Setalias(t, p, in) ==
    /\ Idle(t)
    /\ Found(p)
    /\ Len(Entry(p).aliases) < MaxAliases
    /\ ht' = [ht EXCEPT !.table[p] = SetAlias(@, in.file, in.alias, "none")]
    /\ UNCHANGED <<built, pc, held, ret, ub>>

(* rarconfig_destroy: the table and every entry are freed.  When the      *)
(* caller holds the global lock across each call (spec.md section 5), no  *)
(* getter or getalias caller is between its unlock and its read.          *)
RarconfigDestroy(t) ==
    /\ Idle(t)
    /\ ht # NoTable
    /\ RwLockHeld => \A u \in Threads : pc[u] = "idle"
    /\ ht' = NoTable
    /\ UNCHANGED <<built, pc, held, ret, ub>>

Next ==
    \/ \E t \in Threads :
          \/ RarconfigInit(t)
          \/ \E op \in GetpropOps, p \in Paths :
                \E k \in PropsOf(op) : GetpropFound(t, op, p, k) \/ GetpropNotFound(t, op, p, k)
          \/ GetpropRead(t)
          \/ \E p \in Paths, f \in AliasFiles :
                GetaliasFound(t, p, f) \/ GetaliasNotFound(t, p, f)
          \/ GetaliasUse(t)
          \/ \E p \in Paths, in \in AliasInputs : Setalias(t, p, in)
          \/ RarconfigDestroy(t)

Spec == Init /\ [][Next]_vars

-----------------------------------------------------------------------------
(* The table as its callers see it: for each entry, what the getters      *)
(* return from it, and its aliases.                                       *)
View(e) ==
    [seek_length |-> GetpropInt(e, SeekLengthProp),
     save_eof |-> GetpropInt(e, SaveEofProp),
     password |-> GetpropChar(e), aliases |-> e.aliases]

Abstract == INSTANCE ConfigService
    WITH conf <- [loaded |-> ht.gen # 0,
                  table |-> [p \in DOMAIN ht.table |-> View(ht.table[p])]],
         answer <- ret, Nothing <- Null, NoPath <- NullPath

(* spec.md sections 4.9 and 5: with callers holding the global lock, the  *)
(* table behaves as ConfigService: rarconfig_init loads what the file     *)
(* says, each getter (lookup, unlock, then read) answers as if at one     *)
(* instant, the wide password equals the narrow one, and setalias and     *)
(* destroy act as AddAlias and Unload.                                    *)
ImplementsConfigService == Abstract!Spec

(* spec.md section 5: a reader holds the lock across every dereference of *)
(* what it looked up, so no getter reads an entry, and no getalias caller *)
(* the alias string, after it is freed.                                   *)
NoUseAfterFree == ub # "use_after_free"

(* spec.md sections 4.9 and 9: every alias on an entry, whether read from *)
(* the file or added by rarconfig_setalias, renames a file within its     *)
(* own directory.                                                         *)
TableAliasesAreSiblings ==
    \A p \in DOMAIN ht.table :
        \A k \in DOMAIN ht.table[p].aliases :
            LET a == ht.table[p].aliases[k]
            IN /\ a.file.abs /\ a.alias.abs
               /\ a.file.comps # <<>> /\ a.alias.comps # <<>>
               /\ Front(a.file.comps) = Front(a.alias.comps)

=============================================================================
