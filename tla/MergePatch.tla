------------------------------ MODULE MergePatch ------------------------------
(***************************************************************************)
(* fastjson_merge_patch between reading its two documents and returning:   *)
(* the depth-bounded merge, in the linear form for small objects and the   *)
(* indexed form for large ones or ones that repeat a key.  The C functions *)
(* are recursive operators with the same names; each returns               *)
(* [ok, v]: ok is FALSE where the code returns NULL with depth_failed set. *)
(* A patch that is not an object is copied whole, and the scan that bounds *)
(* its depth first is run step by step (DepthScan); inside objects the     *)
(* scans are taken by their answer.  Nodes are as in JsonTree.             *)
(***************************************************************************)
EXTENDS JsonTree, DepthScan, FiniteSets, SequencesExt

CONSTANTS
    Inputs   \* the calls: [target, patch: nodes, depth, linear_max]
             \* linear_max stands for the 16 members of the linear path

ASSUME InputsAssumption == \A c \in Inputs : c.depth \in Nat \ {0} /\ c.linear_max \in Nat

VARIABLES
    input,   \* the call
    pc,      \* "merge", "walk", "done"
    merged,  \* the result of the merge
    outcome  \* how the call ended

vars == <<input, pc, merged, outcome, scanvars>>

Absent == [t |-> "absent", tok |-> "", ok |-> TRUE, kids |-> <<>>]
Failed == [ok |-> FALSE, v |-> Absent]
Built(v) == [ok |-> TRUE, v |-> v]
IsObj(node) == node.t = "obj"
IsNull(node) == node.t = "null"
Members(node) == IF IsObj(node) THEN node.kids ELSE <<>>

\* The answer of the scan that was run, or the one the definition of nesting
\* gives.
fastjson_val_depth_reaches(node, limit) ==
    IF scan_pc = "done" THEN reached ELSE Nesting(node) >= limit

fj_merge_copy_checked(node, rem) ==
    IF rem = 0 \/ fastjson_val_depth_reaches(node, rem) THEN Failed ELSE Built(node)

fj_merge_has_duplicate_keys(node) ==
    \E p, q \in DOMAIN Members(node) : p # q /\ Members(node)[p].k = Members(node)[q].k

\* yyjson_obj_getn: the first member with the key.
Getn(node, key) ==
    LET hits == {p \in DOMAIN Members(node) : Members(node)[p].k = key}
    IN IF hits = {} THEN Absent ELSE Members(node)[Min(hits)].v

\* fj_merge_index_init: one entry per key, at the place of the key's first
\* member and with the value of its last.
fj_merge_index_init(node) ==
    LET kids == Members(node)
        entries[n \in 0..Len(kids)] ==
            IF n = 0 THEN <<>>
            ELSE LET held == {p \in DOMAIN entries[n - 1] : entries[n - 1][p].k = kids[n].k}
                 IN IF held = {} THEN Append(entries[n - 1], kids[n])
                    ELSE [entries[n - 1] EXCEPT ![Min(held)].v = kids[n].v]
    IN entries[Len(kids)]

\* yyjson_mut_obj_add over a list of results; one failure fails the whole.
Assembled(kids) ==
    IF \E p \in DOMAIN kids : ~kids[p].r.ok THEN Failed
    ELSE Built(Node("obj", [p \in DOMAIN kids |-> [k |-> kids[p].k, v |-> kids[p].r.v]]))

RECURSIVE fastjson_merge_patch_bounded(_, _, _)

\* A member of the original: merged with what the patch has for it, or copied.
OrigValue(orig_value, patch_value, rem) ==
    IF patch_value = Absent THEN fj_merge_copy_checked(orig_value, rem)
    ELSE fastjson_merge_patch_bounded(orig_value, patch_value, rem)

\* The entries of both objects are looked up by key; the ones of the patch
\* that the original has are marked as emitted and not added again.
fastjson_merge_patch_indexed(orig, patch, rem) ==
    LET origs == fj_merge_index_init(orig)
        patches == fj_merge_index_init(patch)
        patch_member(key) == Getn(Node("obj", patches), key)
        emitted == {origs[p].k : p \in DOMAIN origs}
        kept == SelectSeq(origs, LAMBDA e : ~IsNull(patch_member(e.k)))
        added == SelectSeq(patches, LAMBDA e : e.k \notin emitted /\ ~IsNull(e.v))
    IN Assembled(
        [p \in DOMAIN kept |->
            [k |-> kept[p].k, r |-> OrigValue(kept[p].v, patch_member(kept[p].k), rem - 1)]]
        \o [p \in DOMAIN added |->
            [k |-> added[p].k, r |-> fastjson_merge_patch_bounded(Absent, added[p].v, rem - 1)]])

\* The linear form's body: members are looked up in the documents themselves.
LinearMembers(orig, patch, rem) ==
    LET kept == SelectSeq(Members(orig), LAMBDA e : ~IsNull(Getn(patch, e.k)))
        added == SelectSeq(patch.kids, LAMBDA e :
                     ~IsNull(e.v) /\ Getn(orig, e.k) = Absent)
    IN Assembled(
        [p \in DOMAIN kept |->
            [k |-> kept[p].k, r |-> OrigValue(kept[p].v, Getn(patch, kept[p].k), rem - 1)]]
        \o [p \in DOMAIN added |->
            [k |-> added[p].k, r |-> fastjson_merge_patch_bounded(Absent, added[p].v, rem - 1)]])

\* Mutant: repeated keys are not sent to the indexed form.
fastjson_merge_patch_linear_NoCheck(orig, patch, rem) == LinearMembers(orig, patch, rem)

\* An object that repeats a key is left to the indexed form.
fastjson_merge_patch_linear(orig, patch, rem) ==
    IF fj_merge_has_duplicate_keys(orig) \/ fj_merge_has_duplicate_keys(patch)
    THEN fastjson_merge_patch_indexed(orig, patch, rem)
    ELSE LinearMembers(orig, patch, rem)

\* Mutant: a patch object is let in at the last level.
fastjson_merge_patch_bounded_OffByOne(orig, patch, rem) ==
    IF rem = 0 THEN Failed
    ELSE IF ~IsObj(patch) THEN fj_merge_copy_checked(patch, rem)
    ELSE fastjson_merge_patch_indexed(orig, patch, rem)

fastjson_merge_patch_bounded(orig, patch, rem) ==
    IF rem = 0 THEN Failed
    ELSE IF ~IsObj(patch) THEN fj_merge_copy_checked(patch, rem)
    ELSE IF rem <= 1 THEN Failed
    ELSE IF Len(patch.kids) <= input.linear_max /\ Len(Members(orig)) <= input.linear_max
    THEN fastjson_merge_patch_linear(orig, patch, rem)
    ELSE fastjson_merge_patch_indexed(orig, patch, rem)

Init ==
    /\ input \in Inputs /\ pc = "merge" /\ merged = Failed /\ outcome = "NONE"
    /\ scanned = input.patch /\ scan_limit = input.depth /\ ScanInit

\* fj_merge_copy_checked(patch, depth): a step of its scan.
ScanPatch ==
    /\ pc = "merge" /\ ~IsObj(input.patch)
    /\ UNCHANGED <<input, pc, merged, outcome>>
    /\ ScanNext

\* The merge; depth_failed ends the call with FASTJSON_ERROR_DEPTH.
Merge ==
    /\ pc = "merge" /\ (IsObj(input.patch) \/ scan_pc = "done")
    /\ merged' = fastjson_merge_patch_bounded(input.target, input.patch, input.depth)
    /\ pc' = IF merged'.ok THEN "walk" ELSE "done"
    /\ outcome' = IF merged'.ok THEN outcome ELSE "DEPTH"
    /\ UNCHANGED <<input, scanvars>>

\* The walker takes the merged tree with the same depth (module DecodeWalk: it
\* fails from $depth containers on).
Walk ==
    /\ pc = "walk"
    /\ outcome' = IF Nesting(merged.v) >= input.depth THEN "DEPTH_IN_WALK" ELSE "OK"
    /\ pc' = "done"
    /\ UNCHANGED <<input, merged, scanvars>>

Next == ScanPatch \/ Merge \/ Walk

Spec == Init /\ [][Next]_vars

(***************************************************************************)
(* RFC 7396 on documents that may repeat keys                              *)
(***************************************************************************)
KeySet(node) == {Members(node)[p].k : p \in DOMAIN Members(node)}
LastOf(node, key) ==
    Members(node)[Max({p \in DOMAIN Members(node) : Members(node)[p].k = key})].v
FirstAt(node, key) == Min({p \in DOMAIN Members(node) : Members(node)[p].k = key})

\* The keys of a set in the order of their first members.
InOrder(node, keys) ==
    SetToSortSeq(keys, LAMBDA a, b : FirstAt(node, a) < FirstAt(node, b))

RECURSIVE RFC7396(_, _)
RFC7396(target, patch) ==
    IF ~IsObj(patch) THEN patch
    ELSE LET set == {k \in KeySet(patch) : ~IsNull(LastOf(patch, k))}
             stays == KeySet(target) \ (KeySet(patch) \ set)
             value(k) == IF k \notin set THEN LastOf(target, k)
                         ELSE RFC7396(IF k \in KeySet(target) THEN LastOf(target, k) ELSE Absent,
                                      LastOf(patch, k))
             order == InOrder(target, stays) \o InOrder(patch, set \ KeySet(target))
         IN Node("obj", [n \in DOMAIN order |-> [k |-> order[n], v |-> value(order[n])]])

(***************************************************************************)
(* Properties                                                              *)
(***************************************************************************)
\* A merge that succeeds gives the document RFC 7396 describes, a repeated
\* member counting with its last value at its first place; the linear and the
\* indexed form give the same one.
MergesAsRFC7396 ==
    outcome # "NONE" /\ merged.ok => merged.v = RFC7396(input.target, input.patch)

\* $depth bounds the effective result: the call fails exactly when the merged
\* document nests $depth or more.  Branches that were removed, replaced or
\* overwritten by a later duplicate do not count, copied ones count in full,
\* and the walker that follows never finds a tree the merge let through.
DepthBoundsTheResult ==
    /\ outcome # "DEPTH_IN_WALK"
    /\ pc = "done" =>
           (outcome = "DEPTH" <=> Nesting(RFC7396(input.target, input.patch)) >= input.depth)
=============================================================================
