----------------------------- MODULE NestedWalk -----------------------------
(***************************************************************************)
(* The recursive listing of nested archives: the prober lists an archive,  *)
(* and for every member that is itself an archive it consults the         *)
(* recursion context (RecursionContext) before descending into it.        *)
(*                                                                         *)
(* The caller lives in rar2fs.c, which is not part of this repository: the *)
(* walk (order of the checks, what happens on each refusal) is modelled    *)
(* from spec.md section 4.8, the context operations it calls from          *)
(* recursion.c.  One listing runs on one thread with its own stack-        *)
(* allocated context, so the steps of a listing do not interleave with     *)
(* anything that touches the same context.                                 *)
(***************************************************************************)
EXTENDS Integers, Sequences, FiniteSets, RecursionContext

CONSTANTS
    Archives,       \* archive files (top-level and nested)
    TopArchives,    \* archives found directly in the source tree
    Nested,         \* Nested[a]: the members of a that are archives
    FpHash,         \* FpHash[a]: the first/last 4 KiB hash of a's bytes
    Size,           \* Size[a]: a's size in model units
    Mtime,          \* Mtime[a]: a's modification time
    DepthOptions,   \* values --recursion-depth may have: [set, val]
    SizeOptions     \* values --max-unpack-size may have: [set, val]

ASSUME /\ TopArchives \subseteq Archives
       /\ Nested \in [Archives -> SUBSET Archives]
       /\ Size \in [Archives -> Nat]

VARIABLES
    ctx,        \* the listing's struct recursion_context
    stack,      \* the prober's call stack: frames [arc, todo]
    pc,         \* "idle", "walk" or "done"
    root,       \* the top-level archive being listed
    expanded,   \* history: chains of archives whose members were listed
    degraded    \* history: a refusal other than cycle or depth happened

vars == <<ctx, stack, pc, root, expanded, degraded>>

Fp(a) == ComputeArchiveFingerprint(FpHash[a], Size[a], Mtime[a])

Chain == [i \in 1..Len(stack) |-> stack[i].arc]
Top == stack[Len(stack)]

(* Mutant: the member iteration does not advance past c.                   *)
TakeMemberNoAdvance(c) == stack

(* The top frame with member c taken off its to-do set.                    *)
TakeMember(c) == [stack EXCEPT ![Len(stack)].todo = @ \ {c}]

Unset == [set |-> FALSE, val |-> 0]

-----------------------------------------------------------------------------
Init ==
    /\ ctx = RecursionContextInit(Unset, Unset)
    /\ stack = <<>>
    /\ pc = "idle"
    /\ root \in TopArchives
    /\ expanded = {}
    /\ degraded = FALSE

(* A listing starts: a fresh context, then the top archive is pushed.      *)
StartListing(a, d, s) ==
    LET r == RecursionPushArchive(RecursionContextInit(d, s), Fp(a), TRUE)
    IN /\ pc = "idle"
       /\ r.rc = "OK"
       /\ ctx' = r.ctx
       /\ stack' = <<[arc |-> a, todo |-> Nested[a]]>>
       /\ pc' = "walk"
       /\ root' = a
       /\ expanded' = {<<a>>}
       /\ UNCHANGED degraded

(* The strdup of the top archive's path fails: nothing is listed, and the  *)
(* context is cleaned up.                                                  *)
StartListingNoMem(a, d, s) ==
    LET r == RecursionPushArchive(RecursionContextInit(d, s), Fp(a), FALSE)
    IN /\ pc = "idle"
       /\ r.rc = "ENOMEM"
       /\ ctx' = RecursionContextCleanup(r.ctx)
       /\ pc' = "done"
       /\ root' = a
       /\ degraded' = TRUE
       /\ UNCHANGED <<stack, expanded>>

(* Member c's fingerprint is already on the stack: c is a plain file.      *)
DescendCycle(c) ==
    /\ IsCycleDetected(ctx, Fp(c))
    /\ stack' = TakeMember(c)
    /\ UNCHANGED <<ctx, pc, root, expanded, degraded>>

(* recursion_push_archive refuses c with -ELOOP (depth limit).             *)
DescendTooDeep(c) ==
    LET r == RecursionPushArchive(ctx, Fp(c), TRUE)
    IN /\ ~IsCycleDetected(ctx, Fp(c))
       /\ r.rc = "ELOOP"
       /\ ctx' = r.ctx
       /\ stack' = TakeMember(c)
       /\ UNCHANGED <<pc, root, expanded, degraded>>

(* recursion_push_archive fails with -ENOMEM: c stays a plain file.        *)
DescendNoMem(c) ==
    LET r == RecursionPushArchive(ctx, Fp(c), FALSE)
    IN /\ ~IsCycleDetected(ctx, Fp(c))
       /\ r.rc = "ENOMEM"
       /\ ctx' = r.ctx
       /\ stack' = TakeMember(c)
       /\ degraded' = TRUE
       /\ UNCHANGED <<pc, root, expanded>>

(* Pushed, but check_unpack_size_limit answers -EFBIG: pop again.          *)
DescendTooBig(c) ==
    LET r == RecursionPushArchive(ctx, Fp(c), TRUE)
        s == CheckUnpackSizeLimit(r.ctx, Size[c])
    IN /\ ~IsCycleDetected(ctx, Fp(c))
       /\ r.rc = "OK"
       /\ s.rc = "EFBIG"
       /\ ctx' = RecursionPopArchive(s.ctx)
       /\ stack' = TakeMember(c)
       /\ degraded' = TRUE
       /\ UNCHANGED <<pc, root, expanded>>

(* All admission checks pass: c is on the fingerprint stack and its size  *)
(* is counted.                                                             *)
Admission(c) ==
    LET r == RecursionPushArchive(ctx, Fp(c), TRUE)
        s == CheckUnpackSizeLimit(r.ctx, Size[c])
    IN /\ ~IsCycleDetected(ctx, Fp(c))
       /\ r.rc = "OK"
       /\ s.rc = "OK"
       /\ ctx' = s.ctx

(* The prober lists the members of c one level down.                       *)
Enter(c) ==
    /\ stack' = Append(TakeMember(c), [arc |-> c, todo |-> Nested[c]])
    /\ expanded' = expanded \cup {Chain \o <<c>>}

DescendOk(c) ==
    /\ Admission(c)
    /\ Enter(c)
    /\ UNCHANGED <<pc, root, degraded>>

Descend ==
    /\ pc = "walk"
    /\ \E c \in Top.todo :
          \/ DescendCycle(c)
          \/ DescendTooDeep(c)
          \/ DescendNoMem(c)
          \/ DescendTooBig(c)
          \/ DescendOk(c)

(* The current archive has no members left: leave its level.  Leaving the  *)
(* top level ends the listing, and the context is cleaned up.              *)
Ascend ==
    /\ pc = "walk"
    /\ Top.todo = {}
    /\ ctx' = IF Len(stack) = 1
              THEN RecursionContextCleanup(RecursionPopArchive(ctx))
              ELSE RecursionPopArchive(ctx)
    /\ stack' = SubSeq(stack, 1, Len(stack) - 1)
    /\ pc' = IF Len(stack) = 1 THEN "done" ELSE "walk"
    /\ UNCHANGED <<root, expanded, degraded>>

(* The next listing (another readdir) starts from scratch.                 *)
NextListing ==
    /\ pc = "done"
    /\ pc' = "idle"
    /\ stack' = <<>>
    /\ expanded' = {}
    /\ degraded' = FALSE
    /\ UNCHANGED <<ctx, root>>

Next ==
    \/ \E a \in TopArchives, d \in DepthOptions, s \in SizeOptions :
          StartListing(a, d, s) \/ StartListingNoMem(a, d, s)
    \/ Descend
    \/ Ascend
    \/ NextListing

Spec == Init /\ [][Next]_vars

(* A listing is one readdir call running the recursion on its own thread,  *)
(* waiting on nothing: while it is in progress its steps stay enabled and  *)
(* the scheduler runs them.  Another readdir need never come.              *)
FairSpec == Spec /\ WF_vars(Descend \/ Ascend)

-----------------------------------------------------------------------------
Fingerprints == {Fp(a) : a \in Archives} \cup {ZeroFp}

TypeOK ==
    /\ ctx.depth \in 0..MaxRecursionDepth
    /\ ctx.visited \in [Slots -> Fingerprints]
    /\ stack \in Seq([arc : Archives, todo : SUBSET Archives])
    /\ pc \in {"idle", "walk", "done"}
    /\ root \in TopArchives
    /\ degraded \in BOOLEAN

(* The context's fingerprint stack is the walk's call stack: after every   *)
(* push, pop and refused push (the -ENOMEM one writes a slot without       *)
(* counting it) slot i holds the fingerprint of the archive listed at      *)
(* level i, and depth is the number of levels open.                        *)
StackMirrorsWalk ==
    pc = "walk" =>
        /\ ctx.depth = Len(stack)
        /\ \A i \in 1..Len(stack) : ctx.visited[i] = Fp(stack[i].arc)

(* spec.md section 3: depth <= max_depth <= MAX_RECURSION_DEPTH and the    *)
(* cumulative unpacked size stays within max_unpacked_size, whatever       *)
(* options were given and whichever admissions failed.                     *)
ContextWithinLimits ==
    pc # "idle" =>
        /\ ctx.depth <= ctx.max_depth
        /\ ctx.max_depth <= MaxRecursionDepth
        /\ ctx.total <= ctx.max_size

(* The chains of nested archives the recursion is meant to expand (spec    *)
(* section 4.8 and scenarios 5-7): every chain from the root that follows  *)
(* nested members, repeats no fingerprint, and is at most max_depth long.  *)
RECURSIVE Grow(_, _)
Grow(ch, maxd) ==
    {ch} \cup
    UNION {Grow(ch \o <<c>>, maxd) :
             c \in {c \in Nested[ch[Len(ch)]] :
                      /\ Len(ch) < maxd
                      /\ \A i \in 1..Len(ch) : Fp(ch[i]) # Fp(c)}}

(* A listing that met no allocation or size refusal expanded exactly the   *)
(* chains above: no cycle was entered, no level beyond the depth limit was *)
(* listed, and nothing within the limits was left out.                     *)
ExpansionMatchesReference ==
    (pc = "done" /\ ~degraded) =>
        expanded = Grow(<<root>>, ctx.max_depth)

(* Every listing that starts finishes: the depth limit and the cycle test   *)
(* leave the recursion finitely many members to try, whichever options     *)
(* and refusals occur.                                                     *)
ListingTerminates == pc = "walk" ~> pc = "done"

=============================================================================
