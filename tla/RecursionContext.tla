-------------------------- MODULE RecursionContext --------------------------
(***************************************************************************)
(* The recursion context of src/src/recursion.c: the per-listing stack of  *)
(* visited archive fingerprints, the depth and cumulative size counters,   *)
(* and the functions that read and update them.  The context is a value    *)
(* (the C struct is stack-allocated by its caller), so every function is   *)
(* an operator from a context to a result record [rc, ctx].               *)
(*                                                                         *)
(* Abstractions: archive_chain[] holds strdup'ed path strings used only    *)
(* for diagnostics; chain[i] records only whether slot i owns a string     *)
(* (TRUE) or is NULL, and strdupOk is the outcome of the strdup.           *)
(* start_time is never read by the code and is left out.                   *)
(***************************************************************************)
EXTENDS Integers

CONSTANTS
    MaxRecursionDepth,         \* MAX_RECURSION_DEPTH (10 in recursion.h)
    DefaultMaxRecursionDepth,  \* DEFAULT_MAX_RECURSION_DEPTH (5)
    DefaultMaxUnpackedSize     \* the 10 GiB default, in model size units

ASSUME /\ MaxRecursionDepth \in Nat \ {0}
       /\ DefaultMaxRecursionDepth \in 1..MaxRecursionDepth
       /\ DefaultMaxUnpackedSize \in Nat \ {0}

Slots == 1..MaxRecursionDepth          \* visited[0..MAX-1], shifted by one

(* The all-zero fingerprint: what memset leaves in a cleared slot and what *)
(* compute_archive_fingerprint returns for empty or missing data.          *)
ZeroFp == [hash |-> 0, size |-> 0, mtime |-> 0]

(* compute_archive_fingerprint: the FNV-1a hash of the first/last 4 KiB is *)
(* abstracted to the archive's hash value h; size and mtime are kept.      *)
ComputeArchiveFingerprint(h, size, mtime) ==
    IF size = 0 THEN ZeroFp
    ELSE [hash |-> h, size |-> size, mtime |-> mtime]

(* recursion_context_init: option values arrive as [set, val] records,     *)
(* the model of OPT_SET(key) and OPT_INT(key, 0).                          *)
RecursionContextInit(depthOpt, sizeOpt) ==
    [depth     |-> 0,
     max_depth |-> IF depthOpt.set /\ depthOpt.val \in 1..MaxRecursionDepth
                   THEN depthOpt.val ELSE DefaultMaxRecursionDepth,
     visited   |-> [i \in Slots |-> ZeroFp],
     chain     |-> [i \in Slots |-> FALSE],
     total     |-> 0,
     max_size  |-> IF sizeOpt.set /\ sizeOpt.val > 0
                   THEN sizeOpt.val ELSE DefaultMaxUnpackedSize]

(* Mutant: the cycle scan stops one slot early.                            *)
IsCycleDetectedShortScan(ctx, fp) ==
    \E i \in 1..(ctx.depth - 1) : ctx.visited[i] = fp

(* is_cycle_detected: fp equals (hash, size and mtime) a slot below depth. *)
IsCycleDetected(ctx, fp) ==
    \E i \in 1..ctx.depth : ctx.visited[i] = fp

(* Mutant: the depth-limit test uses > instead of >=.                      *)
RecursionPushArchiveLateLimit(ctx, fp, strdupOk) ==
    CASE ctx.depth > ctx.max_depth     -> [rc |-> "ELOOP", ctx |-> ctx]
      [] ctx.depth >= MaxRecursionDepth -> [rc |-> "ELOOP", ctx |-> ctx]
      [] ~strdupOk -> [rc |-> "ENOMEM",
                       ctx |-> [ctx EXCEPT !.visited[ctx.depth + 1] = fp,
                                           !.chain[ctx.depth + 1] = FALSE]]
      [] OTHER     -> [rc |-> "OK",
                       ctx |-> [ctx EXCEPT !.visited[ctx.depth + 1] = fp,
                                           !.chain[ctx.depth + 1] = TRUE,
                                           !.depth = ctx.depth + 1]]

(* recursion_push_archive: both limits are tested before the slot is       *)
(* written; the path is strdup'ed into archive_chain, and a failed strdup  *)
(* (NULL stored) returns -ENOMEM after the fingerprint has been stored but *)
(* before depth is incremented.                                            *)
RecursionPushArchive(ctx, fp, strdupOk) ==
    CASE ctx.depth >= ctx.max_depth    -> [rc |-> "ELOOP", ctx |-> ctx]
      [] ctx.depth >= MaxRecursionDepth -> [rc |-> "ELOOP", ctx |-> ctx]
      [] ~strdupOk -> [rc |-> "ENOMEM",
                       ctx |-> [ctx EXCEPT !.visited[ctx.depth + 1] = fp,
                                           !.chain[ctx.depth + 1] = FALSE]]
      [] OTHER     -> [rc |-> "OK",
                       ctx |-> [ctx EXCEPT !.visited[ctx.depth + 1] = fp,
                                           !.chain[ctx.depth + 1] = TRUE,
                                           !.depth = ctx.depth + 1]]

(* Mutant: the slot is cleared but depth is not decremented.               *)
RecursionPopArchiveNoDecrement(ctx) ==
    IF ctx.depth <= 0 THEN ctx
    ELSE [ctx EXCEPT !.visited[ctx.depth] = ZeroFp, !.chain[ctx.depth] = FALSE]

(* Mutant: the memset clears only the hash field of the slot.              *)
RecursionPopArchivePartialClear(ctx) ==
    IF ctx.depth <= 0 THEN ctx
    ELSE [ctx EXCEPT !.depth = ctx.depth - 1,
                     !.visited[ctx.depth].hash = 0,
                     !.chain[ctx.depth] = FALSE]

(* Mutant: the path string of the level is not freed.                      *)
RecursionPopArchiveKeepPath(ctx) ==
    IF ctx.depth <= 0 THEN ctx
    ELSE [ctx EXCEPT !.depth = ctx.depth - 1,
                     !.visited[ctx.depth] = ZeroFp]

(* recursion_pop_archive: underflow is ignored; otherwise depth--, the     *)
(* slot it uncovered is zeroed and its path string freed.                  *)
RecursionPopArchive(ctx) ==
    IF ctx.depth <= 0 THEN ctx
    ELSE [ctx EXCEPT !.depth = ctx.depth - 1,
                     !.visited[ctx.depth] = ZeroFp,
                     !.chain[ctx.depth] = FALSE]

(* recursion_context_cleanup: every path string left in archive_chain is   *)
(* freed; depth and the fingerprints are left as they are.                 *)
RecursionContextCleanup(ctx) == [ctx EXCEPT !.chain = [i \in Slots |-> FALSE]]

(* Mutant: the new archive's size is left out of the comparison.           *)
CheckUnpackSizeLimitOldTotal(ctx, size) ==
    IF size < 0 THEN [rc |-> "EINVAL", ctx |-> ctx]
    ELSE IF ctx.total > ctx.max_size
         THEN [rc |-> "EFBIG", ctx |-> ctx]
         ELSE [rc |-> "OK", ctx |-> [ctx EXCEPT !.total = ctx.total + size]]

(* check_unpack_size_limit: the overflow-safe test total > max - size,     *)
(* then the cumulative total grows; it is never decreased by a pop.        *)
CheckUnpackSizeLimit(ctx, size) ==
    IF size < 0 THEN [rc |-> "EINVAL", ctx |-> ctx]
    ELSE IF ctx.total > ctx.max_size - size
         THEN [rc |-> "EFBIG", ctx |-> ctx]
         ELSE [rc |-> "OK", ctx |-> [ctx EXCEPT !.total = ctx.total + size]]

=============================================================================
