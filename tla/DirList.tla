------------------------------ MODULE DirList ------------------------------
(***************************************************************************)
(* The directory listing module (dirlist.c, concatenated into              *)
(* src/src/filecache.h): singly linked lists of struct dir_entry_list      *)
(* whose first node is a head.  The model keeps the pointers: mem is the   *)
(* heap of list nodes, root[l] is the head pointer a caller holds for its  *)
(* listing l.  Every function is one atomic step; the callers serialise    *)
(* their calls on one listing with the directory cache lock.               *)
(*                                                                         *)
(* Abstractions: a name is the string strdup made, represented by a        *)
(* positive integer ordered like strcmp orders the strings, and NoName is  *)
(* the NULL pointer; get_hash is the function Hash; st is a pointer the    *)
(* list never dereferences and is left out.  malloc returns the lowest     *)
(* free address, or fails.  Undefined behaviour (reading freed or          *)
(* uninitialised memory, strcmp or strdup of NULL) is recorded in ub and   *)
(* the walk that met it stops there.                                       *)
(***************************************************************************)
EXTENDS Integers, Sequences, FiniteSets, SequencesExt

CONSTANTS
    Names,      \* file names, as positive integers in strcmp order
    Hash,       \* Hash[n]: get_hash(n, 0)
    NRM,        \* DIR_E_NRM, the type of a passthrough entry
    RAR,        \* DIR_E_RAR, the type of an archive-backed entry
    Addrs,      \* heap addresses for list nodes
    Lists,      \* the listings callers hold a root pointer for
    InjectFaults \* whether malloc and strdup may fail with memory left

ASSUME /\ Names \subseteq Nat \ {0}
       /\ Hash \in [Names -> Nat]
       /\ NRM \in Nat /\ RAR \in Nat /\ NRM < RAR
       /\ Addrs \subseteq Nat \ {0}
       /\ InjectFaults \in BOOLEAN

NULL == 0
Garbage == -1          \* the indeterminate value of a fresh malloc's field
NoName == 0            \* entry.name = NULL
Types == {NRM, RAR}

FreeNode == [live |-> FALSE, name |-> NoName, type |-> NRM, hash |-> 0,
             valid |-> 0, next |-> NULL]

(* dir_list_open on a head the caller has allocated.                       *)
HeadNode == [FreeNode EXCEPT !.live = TRUE]

VARIABLES
    mem,      \* the heap: address -> node
    root,     \* root[l]: the head pointer of listing l, or NULL
    passthru, \* history: names put into listing l as DIR_E_NRM
    closed,   \* history: dir_list_close ran since l last changed
    dangling, \* history: a free left another listing pointing at a freed node
    ub        \* the first undefined behaviour met, or "none"

vars == <<mem, root, passthru, closed, dangling, ub>>

Init ==
    /\ mem = [a \in Addrs |-> FreeNode]
    /\ root = [l \in Lists |-> NULL]
    /\ passthru = [l \in Lists |-> {}]
    /\ closed = [l \in Lists |-> FALSE]
    /\ dangling = FALSE
    /\ ub = "none"

-----------------------------------------------------------------------------
(* The addresses the next k mallocs return, fewer when the heap runs out.  *)
RECURSIVE AllocFrom(_, _)
AllocFrom(S, k) ==
    IF k = 0 \/ S = {} THEN <<>>
    ELSE LET a == CHOOSE x \in S : \A y \in S : x <= y
         IN <<a>> \o AllocFrom(S \ {a}, k - 1)

Malloc(k) == AllocFrom({a \in Addrs : ~mem[a].live}, k)

(* The nodes a walk from pointer p visits: it ends at NULL, or at the      *)
(* first pointer it may not dereference (freed or indeterminate).          *)
RECURSIVE ChainFrom(_, _, _)
ChainFrom(m, p, k) ==
    IF p = NULL \/ k = 0 THEN <<>>
    ELSE IF p = Garbage \/ ~m[p].live THEN <<p>>
    ELSE <<p>> \o ChainFrom(m, m[p].next, k - 1)

Bad(p) == p = Garbage \/ ~mem[p].live
Entries(l) == ChainFrom(mem, mem[root[l]].next, Cardinality(Addrs))
WalkOk(s) == \A i \in 1..Len(s) : ~Bad(s[i])
UbOf(p) == IF p = Garbage THEN "indeterminate_pointer" ELSE "use_after_free"
Open(l) == root[l] # NULL
Nodes(l) == {root[l]} \cup ToSet(Entries(l))
LastNode(l) == IF Entries(l) = <<>> THEN root[l] ELSE Last(Entries(l))

(* The entry part of a node (what swap exchanges and memcpy copies).       *)
EntryOf(p) == [name |-> mem[p].name, type |-> mem[p].type,
               hash |-> mem[p].hash, valid |-> mem[p].valid]

(* add_entry: a fresh entry, assumed valid.                                *)
AsPassthru(key, type) == IF type = NRM THEN {key} ELSE {}

NewEntry(key, type, next) ==
    [live |-> TRUE, name |-> key, type |-> type, hash |-> Hash[key],
     valid |-> 1, next |-> next]

-----------------------------------------------------------------------------
(* The caller allocates a head for listing l and runs dir_list_open.       *)
DirListOpen(l) ==
    /\ ub = "none"
    /\ root[l] = NULL
    /\ Malloc(1) # <<>>
    /\ mem' = [mem EXCEPT ![Malloc(1)[1]] = HeadNode]
    /\ root' = [root EXCEPT ![l] = Malloc(1)[1]]
    /\ passthru' = [passthru EXCEPT ![l] = {}]
    /\ closed' = [closed EXCEPT ![l] = FALSE]
    /\ UNCHANGED <<dangling, ub>>

(* dir_entry_add on a NULL list: a head and its first entry are created    *)
(* and the head is returned, which the caller keeps as its root.  If       *)
(* either malloc or the strdup fails, what was allocated is freed and NULL *)
(* is returned: nothing changes.                                           *)
DirEntryAddNewHead(l, key, type) ==
    LET A == Malloc(2)
    IN /\ ub = "none"
       /\ root[l] = NULL
       /\ Len(A) = 2
       /\ mem' = [mem EXCEPT ![A[1]] = [HeadNode EXCEPT !.next = A[2]],
                             ![A[2]] = NewEntry(key, type, NULL)]
       /\ root' = [root EXCEPT ![l] = A[1]]
       /\ passthru' = [passthru EXCEPT ![l] = AsPassthru(key, type)]
       /\ closed' = [closed EXCEPT ![l] = FALSE]
       /\ UNCHANGED <<dangling, ub>>

(* Where the duplicate scan of dir_entry_add stops on listing l: the first *)
(* node it may not read, or whose hash equals key's so that strcmp looks   *)
(* at its name; 0 when it reaches the end.                                 *)
ScanStop(l, key) ==
    LET E == Entries(l)
        S == {i \in 1..Len(E) :
                 \/ Bad(E[i])
                 \/ mem[E[i]].hash = Hash[key] /\ mem[E[i]].name \in {key, NoName}}
    IN IF S = {} THEN 0 ELSE CHOOSE i \in S : \A j \in S : i <= j

StopNode(l, key) == Entries(l)[ScanStop(l, key)]

(* dir_entry_add finds an entry with the same hash and name: it returns    *)
(* that entry and the list is unchanged.                                   *)
DirEntryAddExisting(l, key, type) ==
    /\ ub = "none"
    /\ root[l] # NULL
    /\ ScanStop(l, key) # 0
    /\ ~Bad(StopNode(l, key))
    /\ mem[StopNode(l, key)].name = key
    /\ passthru' = [passthru EXCEPT ![l] = @ \cup AsPassthru(key, type)]
    /\ UNCHANGED <<mem, root, closed, dangling, ub>>

(* dir_entry_add reaches the end of the list: a new entry is linked after  *)
(* the last node.  When malloc or strdup fails the list is restored and    *)
(* NULL returned: nothing changes, a stuttering step.                      *)
DirEntryAddAppend(l, key, type) ==
    LET A == Malloc(1)
    IN /\ ub = "none"
       /\ root[l] # NULL
       /\ ScanStop(l, key) = 0
       /\ Len(A) = 1
       /\ mem' = [mem EXCEPT ![LastNode(l)].next = A[1],
                             ![A[1]] = NewEntry(key, type, NULL)]
       /\ passthru' = [passthru EXCEPT ![l] = @ \cup AsPassthru(key, type)]
       /\ closed' = [closed EXCEPT ![l] = FALSE]
       /\ UNCHANGED <<root, dangling, ub>>

(* The scan of dir_entry_add reads a freed node, or strcmp gets the NULL   *)
(* name a failed dir_list_append left behind.                              *)
DirEntryAddUndefined(l, key) ==
    /\ ub = "none"
    /\ root[l] # NULL
    /\ ScanStop(l, key) # 0
    /\ \/ Bad(StopNode(l, key)) /\ ub' = UbOf(StopNode(l, key))
       \/ ~Bad(StopNode(l, key)) /\ mem[StopNode(l, key)].name = NoName
          /\ ub' = "strcmp_null"
    /\ UNCHANGED <<mem, root, passthru, closed, dangling>>

-----------------------------------------------------------------------------
(* Mutant: swap orders by name only, equal names keep their order.         *)
SwapNameOnly(x, y) == x.name > y.name

(* swap: strcmp of the names, ties broken by type.                         *)
Swap(x, y) == x.name > y.name \/ (x.name = y.name /\ x.type > y.type)

(* One pass of the bubble sort of dir_list_close from position i: the      *)
(* sequence after the pass and the number of swaps made.                   *)
RECURSIVE SortPass(_, _)
SortPass(s, i) ==
    IF i >= Len(s) THEN [seq |-> s, n |-> 0]
    ELSE IF Swap(s[i], s[i + 1])
         THEN LET r == SortPass([s EXCEPT ![i] = s[i + 1], ![i + 1] = s[i]], i + 1)
              IN [r EXCEPT !.n = @ + 1]
         ELSE SortPass(s, i + 1)

RECURSIVE BubbleSort(_)
BubbleSort(s) ==
    LET p == SortPass(s, 1) IN IF p.n = 0 THEN s ELSE BubbleSort(p.seq)

(* Mutant: marking decrements the flag instead of clearing it.            *)
MarkDuplicatesDecrement(s) ==
    [i \in DOMAIN s |->
        IF /\ i > 1
           /\ s[i - 1].type = NRM \/ s[i - 1].hash = s[i].hash
           /\ s[i - 1].name = s[i].name
        THEN [s[i] EXCEPT !.valid = @ - 1]
        ELSE s[i]]

(* The uniqueness pass: an entry with the name of the one before it (and   *)
(* the same hash, or a passthrough one before it) is marked invalid.       *)
MarkDuplicates(s) ==
    [i \in DOMAIN s |->
        IF /\ i > 1
           /\ s[i - 1].type = NRM \/ s[i - 1].hash = s[i].hash
           /\ s[i - 1].name = s[i].name
        THEN [s[i] EXCEPT !.valid = 0]
        ELSE s[i]]

(* The entries e written back, in order, into the nodes of E.              *)
WriteEntries(E, e) ==
    [a \in Addrs |->
        IF \E i \in 1..Len(E) : E[i] = a
        THEN LET i == CHOOSE j \in 1..Len(E) : E[j] = a
             IN [mem[a] EXCEPT !.name = e[i].name, !.type = e[i].type,
                               !.hash = e[i].hash, !.valid = e[i].valid]
        ELSE mem[a]]

(* dir_list_close: the bubble sort by (name, type), then the marking of    *)
(* duplicates.  Entries move between nodes; the nodes keep their order.    *)
DirListClose(l) ==
    LET E == Entries(l)
    IN /\ ub = "none"
       /\ root[l] # NULL
       /\ WalkOk(E)
       /\ Len(E) >= 2 => \A i \in 1..Len(E) : mem[E[i]].name # NoName
       /\ mem' = WriteEntries(E, MarkDuplicates(BubbleSort(
                     [i \in 1..Len(E) |-> EntryOf(E[i])])))
       /\ closed' = [closed EXCEPT ![l] = TRUE]
       /\ UNCHANGED <<root, passthru, dangling, ub>>

(* dir_list_close walks onto a freed node, or strcmp gets a NULL name.     *)
DirListCloseUndefined(l) ==
    LET E == Entries(l)
    IN /\ ub = "none"
       /\ root[l] # NULL
       /\ \/ ~WalkOk(E) /\ ub' = UbOf(Last(E))
          \/ WalkOk(E) /\ Len(E) >= 2
             /\ \E i \in 1..Len(E) : mem[E[i]].name = NoName
             /\ ub' = "strcmp_null"
       /\ UNCHANGED <<mem, root, passthru, closed, dangling>>

-----------------------------------------------------------------------------
(* Mutant: the loop stops at the last node and does not free it.           *)
FreeChainKeepLast(m, E) ==
    [a \in Addrs |-> IF \E i \in 1..(Len(E) - 1) : E[i] = a
                     THEN FreeNode ELSE m[a]]

(* The heap after the nodes of E are freed, names included.                *)
FreeChain(m, E) ==
    [a \in Addrs |-> IF \E i \in 1..Len(E) : E[i] = a THEN FreeNode ELSE m[a]]

(* dir_list_free, then the caller frees the head and drops its root.       *)
DirListFree(l) ==
    /\ ub = "none"
    /\ root[l] # NULL
    /\ WalkOk(Entries(l))
    /\ mem' = [FreeChain(mem, Entries(l)) EXCEPT ![root[l]] = FreeNode]
    /\ root' = [root EXCEPT ![l] = NULL]
    /\ passthru' = [passthru EXCEPT ![l] = {}]
    /\ closed' = [closed EXCEPT ![l] = FALSE]
    /\ dangling' = \/ dangling
                   \/ \E l2 \in Lists \ {l} : Open(l2) /\ Nodes(l2) \cap Nodes(l) # {}
    /\ UNCHANGED ub

(* dir_list_free reaches a node already freed (through another listing):   *)
(* reading its next field and freeing it again.                            *)
DirListFreeUndefined(l) ==
    /\ ub = "none"
    /\ root[l] # NULL
    /\ ~WalkOk(Entries(l))
    /\ ub' = UbOf(Last(Entries(l)))
    /\ UNCHANGED <<mem, root, passthru, closed, dangling>>

-----------------------------------------------------------------------------
NamesOk(E, k) == \A i \in 1..k : mem[E[i]].name # NoName

(* dir_list_dup of listing l into the empty listing w: a new head and a    *)
(* copy of every node.  When a malloc fails what was built is freed and    *)
(* NULL returned: nothing changes, a stuttering step.                      *)
DirListDup(l, w) ==
    LET E == Entries(l)
        n == Len(E)
        A == Malloc(n + 1)
    IN /\ ub = "none"
       /\ l # w /\ root[l] # NULL /\ root[w] = NULL
       /\ WalkOk(E) /\ NamesOk(E, n)
       /\ Len(A) = n + 1
       /\ mem' = [a \in Addrs |->
                    IF a = A[1]
                    THEN [HeadNode EXCEPT !.next = IF n > 0 THEN A[2] ELSE NULL]
                    ELSE IF \E i \in 1..n : A[i + 1] = a
                    THEN LET i == CHOOSE j \in 1..n : A[j + 1] = a
                         IN [mem[E[i]] EXCEPT !.next =
                                IF i < n THEN A[i + 2] ELSE NULL]
                    ELSE mem[a]]
       /\ root' = [root EXCEPT ![w] = A[1]]
       /\ passthru' = [passthru EXCEPT ![w] = passthru[l]]
       /\ closed' = [closed EXCEPT ![w] = closed[l]]
       /\ UNCHANGED <<dangling, ub>>

(* The strdup of the k-th name fails: the new node's next field was never  *)
(* written, and the dir_list_free on the way out follows it.               *)
DirListDupStrdupFails(l, w) ==
    LET E == Entries(l)
    IN /\ ub = "none"
       /\ l # w /\ root[l] # NULL /\ root[w] = NULL
       /\ InjectFaults /\ WalkOk(E)
       /\ \E k \in 1..Len(E) : NamesOk(E, k) /\ Len(Malloc(k + 1)) = k + 1
       /\ ub' = "indeterminate_pointer"
       /\ UNCHANGED <<mem, root, passthru, closed, dangling>>

(* dir_list_dup reads a freed node of l, or strdup gets a NULL name.       *)
DirListDupUndefined(l, w) ==
    LET E == Entries(l)
    IN /\ ub = "none"
       /\ l # w /\ root[l] # NULL /\ root[w] = NULL
       /\ \/ ~WalkOk(E) /\ ub' = UbOf(Last(E))
          \/ WalkOk(E)
             /\ \E k \in 1..Len(E) : /\ NamesOk(E, k - 1)
                                     /\ mem[E[k]].name = NoName
                                     /\ Len(Malloc(k + 1)) = k + 1
             /\ ub' = "strdup_null"
       /\ UNCHANGED <<mem, root, passthru, closed, dangling>>

-----------------------------------------------------------------------------
(* The heap after dir_list_append has linked k copies of E2's nodes, at    *)
(* addresses A, after the last node of l1.  Each copy is a memcpy of the   *)
(* source node with a fresh name; the last copy keeps tailNext and         *)
(* tailName.                                                               *)
Appended(l1, E2, A, k, tailNext, tailName) ==
    [a \in Addrs |->
        IF a = LastNode(l1) THEN [mem[a] EXCEPT !.next = A[1]]
        ELSE IF \E i \in 1..k : A[i] = a
        THEN LET i == CHOOSE j \in 1..k : A[j] = a
             IN [mem[E2[i]] EXCEPT !.next = IF i < k THEN A[i + 1] ELSE tailNext,
                                   !.name = IF i < k THEN @ ELSE tailName]
        ELSE mem[a]]

Copied(E2, k) == UNION {AsPassthru(mem[E2[i]].name, mem[E2[i]].type) : i \in 1..k}

AppendEnabled(l1, l2) ==
    /\ l1 # l2 /\ root[l1] # NULL /\ root[l2] # NULL
    /\ WalkOk(Entries(l1)) /\ WalkOk(Entries(l2))

(* dir_list_append copies every node of l2 after the last node of l1.  An  *)
(* empty l2 changes nothing.                                               *)
DirListAppend(l1, l2) ==
    LET E2 == Entries(l2)
        n == Len(E2)
        A == Malloc(n)
    IN /\ ub = "none"
       /\ AppendEnabled(l1, l2)
       /\ n > 0 /\ NamesOk(E2, n) /\ Len(A) = n
       /\ mem' = Appended(l1, E2, A, n, NULL, mem[E2[n]].name)
       /\ passthru' = [passthru EXCEPT ![l1] = @ \cup Copied(E2, n)]
       /\ closed' = [closed EXCEPT ![l1] = FALSE]
       /\ UNCHANGED <<root, dangling, ub>>

(* The malloc for copy j + 1 fails: j copies stay linked into l1, the last *)
(* one's next is the NULL malloc returned.                                 *)
DirListAppendNoMem(l1, l2, j) ==
    LET E2 == Entries(l2)
        A == Malloc(j)
    IN /\ ub = "none"
       /\ AppendEnabled(l1, l2)
       /\ j \in 1..(Len(E2) - 1) /\ NamesOk(E2, j) /\ Len(A) = j
       /\ InjectFaults \/ Len(Malloc(j + 1)) = j
       /\ mem' = Appended(l1, E2, A, j, NULL, mem[E2[j]].name)
       /\ passthru' = [passthru EXCEPT ![l1] = @ \cup Copied(E2, j)]
       /\ closed' = [closed EXCEPT ![l1] = FALSE]
       /\ UNCHANGED <<root, dangling, ub>>

(* The strdup for copy k fails: copy k keeps a NULL name and the next      *)
(* pointer memcpy gave it, which points into l2's nodes.                   *)
DirListAppendStrdupFails(l1, l2, k) ==
    LET E2 == Entries(l2)
        A == Malloc(k)
    IN /\ ub = "none"
       /\ AppendEnabled(l1, l2)
       /\ InjectFaults
       /\ k \in 1..Len(E2) /\ NamesOk(E2, k) /\ Len(A) = k
       /\ mem' = Appended(l1, E2, A, k, mem[E2[k]].next, NoName)
       /\ passthru' = [passthru EXCEPT ![l1] = @ \cup Copied(E2, k - 1)]
       /\ closed' = [closed EXCEPT ![l1] = FALSE]
       /\ UNCHANGED <<root, dangling, ub>>

(* dir_list_append reads a freed node, or strdup gets a NULL name.         *)
DirListAppendUndefined(l1, l2) ==
    LET E1 == Entries(l1)
        E2 == Entries(l2)
    IN /\ ub = "none"
       /\ l1 # l2 /\ root[l1] # NULL /\ root[l2] # NULL
       /\ \/ ~WalkOk(E1) /\ ub' = UbOf(Last(E1))
          \/ WalkOk(E1) /\ ~WalkOk(E2) /\ ub' = UbOf(Last(E2))
          \/ WalkOk(E1) /\ WalkOk(E2)
             /\ \E k \in 1..Len(E2) : /\ NamesOk(E2, k - 1)
                                      /\ mem[E2[k]].name = NoName
                                      /\ Len(Malloc(k)) = k
             /\ ub' = "strdup_null"
       /\ UNCHANGED <<mem, root, passthru, closed, dangling>>

-----------------------------------------------------------------------------
(* After undefined behaviour the process's behaviour is not defined by the *)
(* code: every other action requires ub = "none", and nothing further is   *)
(* modelled.                                                               *)
Crashed ==
    /\ ub # "none"
    /\ UNCHANGED vars

Next ==
    \/ Crashed
    \/ \E l \in Lists :
          \/ DirListOpen(l) \/ DirListClose(l) \/ DirListCloseUndefined(l)
          \/ DirListFree(l) \/ DirListFreeUndefined(l)
          \/ \E key \in Names : DirEntryAddUndefined(l, key)
          \/ \E key \in Names, t \in Types :
                \/ DirEntryAddNewHead(l, key, t)
                \/ DirEntryAddExisting(l, key, t)
                \/ DirEntryAddAppend(l, key, t)
    \/ \E l, w \in Lists :
          \/ DirListDup(l, w) \/ DirListDupStrdupFails(l, w)
          \/ DirListDupUndefined(l, w)
          \/ DirListAppend(l, w) \/ DirListAppendUndefined(l, w)
          \/ \E k \in 1..Cardinality(Addrs) :
                DirListAppendNoMem(l, w, k) \/ DirListAppendStrdupFails(l, w, k)

Spec == Init /\ [][Next]_vars

-----------------------------------------------------------------------------
UbKinds == {"none", "use_after_free", "indeterminate_pointer",
            "strcmp_null", "strdup_null"}

TypeOK ==
    /\ mem \in [Addrs -> [live : BOOLEAN, name : Names \cup {NoName},
                          type : Types, hash : Nat, valid : {0, 1},
                          next : Addrs \cup {NULL, Garbage}]]
    /\ root \in [Lists -> Addrs \cup {NULL}]
    /\ dangling \in BOOLEAN
    /\ passthru \in [Lists -> SUBSET Names]
    /\ closed \in [Lists -> BOOLEAN]
    /\ ub \in UbKinds

(* The entries of listing l, in list order.                                *)
View(l) == [i \in 1..Len(Entries(l)) |-> EntryOf(Entries(l)[i])]

(* No node belongs to two listings.                                        *)
ListsDisjoint ==
    \A l1, l2 \in Lists :
        (l1 # l2 /\ Open(l1) /\ Open(l2)) =>
            ToSet(Entries(l1)) \cap ToSet(Entries(l2)) = {}

(* No undefined behaviour so far, no listing points at a node another     *)
(* listing freed, and no two listings share a node.                        *)
Sound ==
    /\ ub = "none"
    /\ ~dangling
    /\ \A l1, l2 \in Lists :
          (l1 # l2 /\ Open(l1) /\ Open(l2)) => Nodes(l1) \cap Nodes(l2) = {}

(* dir_list_close, in the spec's words: after it a listing is sorted by    *)
(* (name, type), and of the entries sharing a name exactly the first, the  *)
(* one of least type, is valid, whatever sequence of adds, appends, dups   *)
(* and earlier closes (which may already have marked entries) built it.    *)
(* Only a sound heap is meant.                                             *)
CloseResolvesDuplicates ==
    \A l \in Lists :
        (Sound /\ Open(l) /\ closed[l]) =>
            LET s == View(l)
            IN /\ \A i \in 1..(Len(s) - 1) :
                     \/ s[i].name < s[i + 1].name
                     \/ s[i].name = s[i + 1].name /\ s[i].type <= s[i + 1].type
               /\ \A i \in DOMAIN s :
                     s[i].valid = 1 <=> (i = 1 \/ s[i - 1].name # s[i].name)

(* Spec section 2: duplicates are allowed while a listing is built and are *)
(* resolved at close, a passthrough entry taking priority over an          *)
(* archive-backed one of the same name: a name passthru as DIR_E_NRM is valid *)
(* as a passthrough entry after dir_list_close.                            *)
PassthroughWins ==
    \A l \in Lists :
        (Sound /\ Open(l) /\ closed[l]) =>
            \A n \in Names :
                n \in passthru[l] =>
                    \E i \in DOMAIN View(l) :
                        View(l)[i].name = n /\ View(l)[i].valid = 1
                        /\ View(l)[i].type = NRM

(* Every live node is the head or an entry of an open listing: no path of  *)
(* dir_entry_add, dir_list_dup, dir_list_append or dir_list_free leaks a   *)
(* node, the failure paths included, while the heap is sound.             *)
NoLeak ==
    Sound =>
        \A a \in Addrs :
            mem[a].live =>
                \E l \in Lists : Open(l) /\ a \in Nodes(l)

(* No call reads freed or indeterminate memory, or passes NULL to strcmp   *)
(* or strdup.                                                              *)
NoUndefinedBehaviour == ub = "none"

====
