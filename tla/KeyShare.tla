------------------------------ MODULE KeyShare ------------------------------
(***************************************************************************)
(* The object-key sharing cache of the decode walker (fastjson_decode.c,   *)
(* fj_key_cache and its functions, used by fastjson_walk.inc).             *)
(*                                                                         *)
(* A walk turns a parsed document into PHP arrays or objects.  While it    *)
(* runs, a table on its C stack frame holds one zend_string per distinct   *)
(* short key, so repeated keys share a string.  The module global          *)
(* key_share points to that table.  A fatal error (bailout) unwinds the    *)
(* frame and leaves the pointer dangling until the next request's RINIT;   *)
(* shutdown functions may still decode in between.                         *)
(*                                                                         *)
(* Modelled: the pointer discipline, the open-addressed table, the         *)
(* full/off heuristics, and the reference counts of the resident strings   *)
(* against the hash buckets that hold them.  Values other than keys are    *)
(* abstracted to the references their subtree holds.                       *)
(***************************************************************************)
EXTENDS Integers, FiniteSets, Sequences, SequencesExt

CONSTANTS
  Keys,        \* object keys that occur in documents
  LongKeys,    \* those longer than FJ_SHARE_KEY_MAX
  NumericKeys, \* those ZEND_HANDLE_NUMERIC_STR turns into integers
  Hash,        \* zend_inline_hash_func of each key
  SLOTS,       \* FJ_SHARE_SLOTS
  KEY_CAP,     \* FJ_SHARE_KEY_CAP
  PROBES,      \* the probe limit of fj_share_key_slow
  MISS_MARGIN, \* FJ_SHARE_MISS_MARGIN
  Addrs,       \* stack addresses a walk's frame may have
  NULL,
  MaxNest,     \* bound: open containers
  MaxMembers   \* bound: members and elements of one document

ASSUME KeysAssumption ==
  /\ LongKeys \subseteq Keys
  /\ NumericKeys \subseteq Keys
  /\ Hash \in [Keys -> Nat]
  /\ NULL \notin Keys
  /\ NULL \notin Addrs
  /\ NULL \notin [Keys -> Int]

ASSUME SizeAssumption ==
  /\ SLOTS \in Nat \ {0}
  /\ KEY_CAP \in Nat \ {0}
  /\ PROBES \in Nat \ {0}
  /\ MISS_MARGIN \in Nat
  /\ MaxNest \in Nat
  /\ MaxMembers \in Nat

Slots == 0 .. SLOTS - 1

VARIABLES
  key_share,   \* FASTJSON_G(key_share): NULL or a stack address
  frame,       \* address of the running walk's cache, NULL when none runs
  prev,        \* the walk's saved key_share
  slots,       \* cache->slots[i].str as the key it spells, or NULL
  used,        \* cache->used[0 .. count-1]
  full_hits, full_misses, off,
  rc,          \* reference count of the walk's resident string, per key
  assoc,       \* the walk builds arrays
  open,        \* containers under construction, outermost first
  child,       \* references held by the finished child, or NULL
  budget,      \* members the document may still have (bound)
  result,      \* references held by the value userland received, or NULL
  bailed,      \* a fatal error has happened in this request
  fault        \* a dead or uninitialised frame was dereferenced

cache == <<slots, used, full_hits, full_misses, off>>
tree  == <<assoc, open, child, budget>>
vars  == <<key_share, frame, prev, cache, rc, tree, result, bailed, fault>>

-----------------------------------------------------------------------------
(* Reference bags: how many buckets of a subtree hold each resident string. *)

Bag  == [Keys -> Int]
Zero == [k \in Keys |-> 0]
Only(k) == [j \in Keys |-> IF j = k THEN 1 ELSE 0]
Plus(b, c)  == [k \in Keys |-> b[k] + c[k]]
Minus(b, c) == [k \in Keys |-> b[k] - c[k]]

\* A hash bucket: does its key hold the resident string, what its value holds.
Bucket == [shared : BOOLEAN, sub : Bag]
Table  == [kind : {"obj", "arr"}, mem : [Keys -> Bucket \cup {NULL}], refs : Bag]

NewTable(kind) == [kind |-> kind, mem |-> [k \in Keys |-> NULL], refs |-> Zero]

\* References held by every container under construction.
TotalRefs(tables) ==
  LET upto[n \in 0 .. Len(tables)] ==
        IF n = 0 THEN Zero ELSE Plus(upto[n - 1], tables[n].refs)
  IN  upto[Len(tables)]

OpenRefs == TotalRefs(open)
ChildRefs == IF child = NULL THEN Zero ELSE child

-----------------------------------------------------------------------------
Init ==
  /\ key_share = NULL
  /\ frame = NULL
  /\ prev = NULL
  /\ slots = [i \in Slots |-> NULL]
  /\ used = << >>
  /\ full_hits = 0 /\ full_misses = 0 /\ off = FALSE
  /\ rc = Zero
  /\ assoc = FALSE /\ open = << >> /\ child = NULL /\ budget = 0
  /\ result = NULL
  /\ bailed = FALSE
  /\ fault = FALSE

\* The C frame is gone: what was in it can no longer be read.
FrameDies ==
  /\ frame' = NULL
  /\ slots' = [i \in Slots |-> NULL]
  /\ used' = << >>
  /\ full_hits' = 0 /\ full_misses' = 0 /\ off' = FALSE
  /\ prev' = NULL
  /\ assoc' = FALSE /\ open' = << >> /\ child' = NULL /\ budget' = 0

-----------------------------------------------------------------------------
(* fj_key_share_push *)

Push_KeepsPointer(a, large) ==
  /\ prev' = key_share
  /\ IF large
       THEN /\ slots' = [i \in Slots |-> NULL]
            /\ used' = << >>
            /\ full_hits' = 0 /\ full_misses' = 0 /\ off' = FALSE
            /\ key_share' = a
       ELSE UNCHANGED <<key_share, cache>>

fj_key_share_push(a, large) ==
  /\ prev' = key_share
  /\ IF large
       THEN /\ slots' = [i \in Slots |-> NULL]
            /\ used' = << >>
            /\ full_hits' = 0 /\ full_misses' = 0 /\ off' = FALSE
            /\ key_share' = a
       ELSE /\ key_share' = NULL
            /\ UNCHANGED cache

(***************************************************************************)
(* A walk begins in a fresh C frame at address a; an input of at least     *)
(* FJ_SHARE_MIN_INPUT bytes is large.  The root is a container (a scalar   *)
(* root meets no key).                                                     *)
(***************************************************************************)
BeginWalk ==
  /\ frame = NULL /\ result = NULL
  /\ \E a \in Addrs, large \in BOOLEAN, arrays \in BOOLEAN, kind \in {"obj", "arr"} :
       /\ fj_key_share_push(a, large)
       /\ frame' = a
       /\ assoc' = arrays
       /\ open' = <<NewTable(kind)>>
  /\ child' = NULL
  /\ budget' = MaxMembers
  /\ rc' = Zero
  /\ UNCHANGED <<result, bailed, fault>>

-----------------------------------------------------------------------------
(* fj_share_key_slow *)

full == Len(used) >= KEY_CAP

ProbeAt(k, n) == (Hash[k] + n) % SLOTS

\* Probe n is the first whose slot is empty or already holds k.
StopsAt(k, n) ==
  /\ slots[ProbeAt(k, n)] \in {NULL, k}
  /\ \A m \in 0 .. n - 1 : slots[ProbeAt(k, m)] \notin {NULL, k}

GivesUp == full /\ full_misses > full_hits + MISS_MARGIN

\* The branch that stops sharing for the rest of the walk.
ShareOff ==
  /\ GivesUp
  /\ off' = TRUE
  /\ UNCHANGED <<slots, used, full_hits, full_misses>>

FillSlot(k, n) ==
  /\ slots' = [slots EXCEPT ![ProbeAt(k, n)] = k]
  /\ used' = Append(used, ProbeAt(k, n))

ShareInsert_AnyEmpty(k) ==
  /\ ~ GivesUp /\ ~ full
  /\ \E n \in 0 .. PROBES - 1 :
       slots[ProbeAt(k, n)] = NULL /\ FillSlot(k, n)
  /\ UNCHANGED <<full_hits, full_misses, off>>

ShareInsert_StaleIndex(k) ==
  /\ ~ GivesUp /\ ~ full
  /\ \E n \in 0 .. PROBES - 1 :
       /\ StopsAt(k, n)
       /\ slots[ProbeAt(k, n)] = NULL
       /\ slots' = [slots EXCEPT ![ProbeAt(k, n)] = k]
       /\ used' = Append(used, ProbeAt(k, 0))
  /\ UNCHANGED <<full_hits, full_misses, off>>

\* An empty slot takes a fresh string while the table has room.
ShareInsert(k) ==
  /\ ~ GivesUp /\ ~ full
  /\ \E n \in 0 .. PROBES - 1 :
       /\ StopsAt(k, n)
       /\ slots[ProbeAt(k, n)] = NULL
       /\ FillSlot(k, n)
  /\ UNCHANGED <<full_hits, full_misses, off>>

ShareHit(k) ==
  /\ ~ GivesUp
  /\ \E n \in 0 .. PROBES - 1 : StopsAt(k, n) /\ slots[ProbeAt(k, n)] = k
  /\ full_hits' = full_hits + IF full THEN 1 ELSE 0
  /\ UNCHANGED <<slots, used, full_misses, off>>

ShareMiss_WhenFull(k) ==
  /\ ~ GivesUp
  /\ full \/ \A n \in 0 .. PROBES - 1 : ~ StopsAt(k, n)
  /\ full_misses' = full_misses + IF full THEN 1 ELSE 0
  /\ UNCHANGED <<slots, used, full_hits, off>>

ShareMiss(k) ==
  /\ ~ GivesUp
  /\ \/ \A n \in 0 .. PROBES - 1 : ~ StopsAt(k, n)
     \/ full /\ \E n \in 0 .. PROBES - 1 : StopsAt(k, n) /\ slots[ProbeAt(k, n)] = NULL
  /\ full_misses' = full_misses + IF full THEN 1 ELSE 0
  /\ UNCHANGED <<slots, used, full_hits, off>>

-----------------------------------------------------------------------------
(* One object member: the walked child is stored under key k.              *)

Top == open[Len(open)]

(***************************************************************************)
(* zend_hash_update on the innermost table: a new bucket takes a reference *)
(* to the key string it is given; an existing one keeps its own key and    *)
(* destroys the value it held.                                             *)
(***************************************************************************)
TakesKey(k) == Top.mem[k] = NULL

ReplacedRefs(k) == IF TakesKey(k) THEN Zero ELSE Top.mem[k].sub

UpdatedTable(k, shared) ==
  LET keeps == IF TakesKey(k) THEN shared ELSE Top.mem[k].shared
      own   == IF TakesKey(k) /\ shared THEN Only(k) ELSE Zero
  IN  [kind |-> Top.kind,
       mem  |-> [Top.mem EXCEPT ![k] = [shared |-> keeps, sub |-> ChildRefs]],
       refs |-> Plus(Minus(Plus(Top.refs, ChildRefs), ReplacedRefs(k)), own)]

(***************************************************************************)
(* The reference count of k's resident string over one member: the string  *)
(* just created holds 1 for its slot, zend_string_copy adds 1 for the      *)
(* caller, a new bucket adds 1, and the caller releases its own.           *)
(***************************************************************************)
Scale(b, n) == [k \in Keys |-> n * b[k]]

KeyRefs_NoCopy(k, created, shared) ==
  LET take == IF shared /\ TakesKey(k) THEN 1 ELSE 0
      fresh == IF created THEN 1 ELSE 0
      release == IF shared THEN 1 ELSE 0
  IN  Scale(Only(k), fresh + take - release)

KeyRefs(k, created, shared) ==
  LET copy == IF shared THEN 1 ELSE 0
      take == IF shared /\ TakesKey(k) THEN 1 ELSE 0
      fresh == IF created THEN 1 ELSE 0
      release == copy
  IN  Scale(Only(k), fresh + copy + take - release)

StoreMember(k, created, shared) ==
  /\ open' = [open EXCEPT ![Len(open)] = UpdatedTable(k, shared)]
  /\ rc' = Minus(Plus(rc, KeyRefs(k, created, shared)), ReplacedRefs(k))
  /\ child' = NULL
  /\ budget' = budget - 1

InObject == frame # NULL /\ open # << >> /\ Top.kind = "obj" /\ budget > 0

\* Arrays promote numeric keys to integers before sharing is considered.
Promoted(k) == assoc /\ k \in NumericKeys

\* fj_share_key reads key_share only when the key is not promoted.
ReadsDeadFrame(k) == ~ Promoted(k) /\ key_share \notin {NULL, frame}

Consults(k) ==
  ~ Promoted(k) /\ key_share = frame /\ ~ off /\ k \notin LongKeys

(***************************************************************************)
(* fj_share_key answers NULL (no table, off, long key), or is not asked    *)
(* (integer key): the member is inserted by (str, len).  A pointer to      *)
(* another frame would be read here; the read is recorded.                 *)
(***************************************************************************)
MemberUnshared(k) ==
  /\ InObject
  /\ ~ Consults(k)
  /\ StoreMember(k, FALSE, FALSE)
  /\ fault' = (fault \/ ReadsDeadFrame(k))
  /\ UNCHANGED <<key_share, frame, prev, cache, assoc, result, bailed>>

MemberShared(k) ==
  /\ InObject
  /\ Consults(k)
  /\ \/ ShareOff       /\ StoreMember(k, FALSE, FALSE)
     \/ ShareInsert(k) /\ StoreMember(k, TRUE, TRUE)
     \/ ShareHit(k)    /\ StoreMember(k, FALSE, TRUE)
     \/ ShareMiss(k)   /\ StoreMember(k, FALSE, FALSE)
  /\ UNCHANGED <<key_share, frame, prev, assoc, result, bailed, fault>>

-----------------------------------------------------------------------------
(* The recursion of the walker around its members.                         *)

\* The walker descends into a container value.
OpenContainer ==
  /\ frame # NULL /\ child = NULL
  /\ Len(open) \in 1 .. MaxNest - 1
  /\ budget > 0
  /\ \E kind \in {"obj", "arr"} : open' = Append(open, NewTable(kind))
  /\ UNCHANGED <<key_share, frame, prev, cache, rc, assoc, child, budget,
                 result, bailed, fault>>

\* A nested container is finished and becomes the child of its parent.
CloseContainer ==
  /\ frame # NULL /\ child = NULL
  /\ Len(open) > 1
  /\ child' = Top.refs
  /\ open' = Front(open)
  /\ UNCHANGED <<key_share, frame, prev, cache, rc, assoc, budget,
                 result, bailed, fault>>

\* zend_hash_next_index_insert of a finished child.
AppendElement ==
  /\ frame # NULL /\ child # NULL /\ budget > 0
  /\ open # << >> /\ Top.kind = "arr"
  /\ open' = [open EXCEPT ![Len(open)].refs = Plus(@, child)]
  /\ child' = NULL
  /\ budget' = budget - 1
  /\ UNCHANGED <<key_share, frame, prev, cache, rc, assoc, result, bailed, fault>>

-----------------------------------------------------------------------------
(* fj_key_share_pop *)

SlotRefs == [k \in Keys |-> Cardinality({i \in DOMAIN used : slots[used[i]] = k})]

Released == IF key_share = frame THEN SlotRefs ELSE Zero

fj_key_share_pop == key_share' = prev

\* The root is complete: pop the cache, hand the value to userland.
EndWalk ==
  /\ frame # NULL /\ child = NULL /\ Len(open) = 1
  /\ fj_key_share_pop
  /\ rc' = Minus(rc, Released)
  /\ result' = Top.refs
  /\ FrameDies
  /\ UNCHANGED <<bailed, fault>>

(***************************************************************************)
(* The walk fails (nesting depth, invalid property name): the recursion    *)
(* destroys the child and the nested containers, the cache is popped, and  *)
(* the caller destroys the partial root.                                   *)
(***************************************************************************)
FailWalk ==
  /\ frame # NULL /\ open # << >>
  /\ fj_key_share_pop
  /\ rc' = Minus(Minus(Minus(rc, ChildRefs), Released), OpenRefs)
  /\ FrameDies
  /\ UNCHANGED <<result, bailed, fault>>

-----------------------------------------------------------------------------
(* The environment. *)

\* Userland frees the decoded value.
DropResult ==
  /\ result # NULL
  /\ rc' = Minus(rc, result)
  /\ result' = NULL
  /\ UNCHANGED <<key_share, frame, prev, cache, tree, bailed, fault>>

\* A fatal error unwinds the walk; the request heap is discarded wholesale.
Bailout ==
  /\ frame # NULL
  /\ FrameDies
  /\ bailed' = TRUE
  /\ rc' = Zero
  /\ UNCHANGED <<key_share, result, fault>>

\* PHP_RINIT_FUNCTION, the part about key_share.
RequestInit == key_share' = NULL

\* The request ends and the next one begins.
NextRequest ==
  /\ frame = NULL
  /\ RequestInit
  /\ bailed' = FALSE
  /\ rc' = Zero /\ result' = NULL
  /\ UNCHANGED <<frame, prev, cache, tree, fault>>

Next ==
  \/ BeginWalk
  \/ \E k \in Keys : MemberUnshared(k) \/ MemberShared(k)
  \/ OpenContainer \/ CloseContainer \/ AppendElement
  \/ EndWalk \/ FailWalk
  \/ DropResult \/ Bailout \/ NextRequest

Spec == Init /\ [][Next]_vars

-----------------------------------------------------------------------------
(* Properties *)

\* Types of the pointer and of the table: used holds indices of slots.
TypeOK ==
  /\ key_share \in Addrs \cup {NULL}
  /\ frame \in Addrs \cup {NULL}
  /\ prev \in Addrs \cup {NULL}
  /\ slots \in [Slots -> Keys \cup {NULL}]
  /\ used \in Seq(Slots)
  /\ full_hits \in Nat /\ full_misses \in Nat
  /\ off \in BOOLEAN
  /\ bailed \in BOOLEAN /\ fault \in BOOLEAN

(***************************************************************************)
(* fj_share_key never reads a frame that a bailout has unwound, nor the    *)
(* uninitialised table of a small walk: while a walk runs, key_share is    *)
(* NULL or that walk's own table, and between walks it can only be left    *)
(* set by a bailout of the same request.                                   *)
(***************************************************************************)
NoDeadFrame ==
  /\ ~ fault
  /\ frame # NULL => key_share \in {NULL, frame}
  /\ frame = NULL /\ ~ bailed => key_share = NULL

\* The pointer a running walk will restore: left set only by a bailout.
PrevIsClean == frame # NULL /\ ~ bailed => prev = NULL

(***************************************************************************)
(* The index list fj_key_share_pop walks names every occupied slot once    *)
(* and no empty one, so pop releases each resident string exactly once;    *)
(* the table never holds more than KEY_CAP strings.                        *)
(***************************************************************************)
UsedIsOccupied ==
  /\ Len(used) <= KEY_CAP
  /\ \A i \in DOMAIN used : slots[used[i]] # NULL
  /\ \A s \in Slots : slots[s] # NULL => \E i \in DOMAIN used : used[i] = s
  /\ \A i, j \in DOMAIN used : used[i] = used[j] => i = j

(***************************************************************************)
(* Sharing: a key is never resident twice, whatever collisions and probe   *)
(* wrap-arounds the documents produce.                                     *)
(***************************************************************************)
OneStringPerKey ==
  \A i, j \in Slots : slots[i] # NULL /\ slots[i] = slots[j] => i = j

(***************************************************************************)
(* Every resident key is reachable by its own probe sequence, with no      *)
(* empty slot before it: a later lookup finds it before it can insert.     *)
(***************************************************************************)
Reachable ==
  \A s \in Slots :
    slots[s] # NULL =>
      \E n \in 0 .. PROBES - 1 :
        /\ s = ProbeAt(slots[s], n)
        /\ \A m \in 0 .. n - 1 : slots[ProbeAt(slots[s], m)] # NULL

\* The inductive strengthening used by the proofs.
CacheInv ==
  /\ TypeOK /\ NoDeadFrame /\ PrevIsClean
  /\ UsedIsOccupied /\ Reachable /\ OneStringPerKey

(***************************************************************************)
(* Reference counts balance: a resident string is held once by its slot    *)
(* while the walk runs and once by each bucket that has it as key, through *)
(* overwritten duplicate members, nested containers, failures and pop.     *)
(* So no string is freed while a bucket holds it and none outlives them.   *)
(***************************************************************************)
RefcountsBalance ==
  rc = Plus(IF frame # NULL THEN Released ELSE Zero,
            Plus(Plus(OpenRefs, ChildRefs), IF result = NULL THEN Zero ELSE result))

\* Types of the containers and of the counts.
TreeTyped ==
  /\ open \in Seq(Table)
  /\ child \in Bag \cup {NULL} /\ result \in Bag \cup {NULL}
  /\ rc \in Bag

\* Outside a walk nothing is under construction; during one, userland holds
\* no value of it.
WalkOwnsTree ==
  /\ frame = NULL => open = << >> /\ child = NULL
  /\ frame # NULL => result = NULL

\* The inductive strengthening of RefcountsBalance.
BalanceInv == CacheInv /\ TreeTyped /\ WalkOwnsTree /\ RefcountsBalance

(***************************************************************************)
(* Once a key is resident, every bucket a later member creates for it in   *)
(* the same walk shares that string, also when the table is full and       *)
(* whatever was inserted in between, until the walk stops sharing.         *)
(***************************************************************************)
ResidentKeysAreShared ==
  [][ \A k \in Keys \ LongKeys :
        (/\ frame # NULL /\ key_share = frame /\ ~ off'
         /\ \E s \in Slots : slots[s] = k
         /\ Len(open') = Len(open)
         /\ Top.mem[k] = NULL /\ open'[Len(open)].mem[k] # NULL
         /\ ~ Promoted(k))
        => open'[Len(open)].mem[k].shared ]_vars

=============================================================================
