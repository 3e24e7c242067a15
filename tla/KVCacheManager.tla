---------------------------- MODULE KVCacheManager ----------------------------
(***************************************************************************)
(* KVCacheManager over one full-attention group: the BlockPool (reference  *)
(* counts, LRU free queue, prefix-cache hash map), the block lists of the  *)
(* requests and the operations the scheduler performs on them.             *)
(*                                                                         *)
(* A block hash is a chain hash of all the tokens up to the end of the     *)
(* block; it is modelled by that token prefix itself (no collisions).      *)
(* NoHash, the empty prefix, stands for block_hash = None.                 *)
(***************************************************************************)
EXTENDS SeqFilter

CONSTANTS NumBlocks,      \* num_gpu_blocks
          BlockSize,      \* tokens per block
          MaxModelLen,    \* max_model_len
          RequestIds,     \* the request ids in use
          Tokens,         \* token ids
          Prompts,        \* the prompts requests may arrive with
          PromptLogprobs  \* the requests that ask for prompt_logprobs

ASSUME SizesAssumption ==
    NumBlocks \in Nat \ {0} /\ BlockSize \in Nat \ {0} /\ MaxModelLen \in Nat \ {0}
ASSUME RequestIdsAssumption == IsFiniteSet(RequestIds)
ASSUME PromptsAssumption ==
    \A p \in Prompts : p \in Seq(Tokens) /\ Len(p) \in 1..MaxModelLen

VARIABLES ref_cnt,                     \* KVCacheBlock.ref_cnt, by block id
          block_hash,                  \* KVCacheBlock.block_hash, by block id
          free_block_queue,            \* block ids, next to be evicted first
          cached_block_hash_to_block,  \* hash -> block ids in insertion order
          req_to_blocks,               \* request id -> block ids
          num_cached_block,            \* request id -> number of cached blocks
          all_token_ids,               \* request id -> tokens of the Request
          assert_failed                \* an assert or ValueError was reached

pool == <<ref_cnt, block_hash, free_block_queue, cached_block_hash_to_block>>
kvVars == <<pool, req_to_blocks, num_cached_block, all_token_ids, assert_failed>>

Block == 0 .. NumBlocks - 1
NullBlock == 0
NoHash == << >>
NotTracked == -1        \* the request id is not a key of num_cached_block

Min2(a, b) == IF a < b THEN a ELSE b
cdiv(a, b) == (a + b - 1) \div b

(* request.block_hashes[i - 1] *)
BlockHash(toks, i) == SubSeq(toks, 1, i * BlockSize)

Tracked(r) == num_cached_block[r] # NotTracked

KVInit ==
    /\ ref_cnt = [b \in Block |-> 0]
    /\ block_hash = [b \in Block |-> NoHash]
    /\ free_block_queue = [i \in 1 .. NumBlocks - 1 |-> i]
    /\ cached_block_hash_to_block = [h \in {} |-> << >>]
    /\ req_to_blocks = [r \in RequestIds |-> << >>]
    /\ num_cached_block = [r \in RequestIds |-> NotTracked]
    /\ all_token_ids = [r \in RequestIds |-> << >>]
    /\ assert_failed = FALSE

-------------------------------------------------------------------------------
(* Prefix-cache lookup. *)

(* The number of leading block hashes, up to max_length tokens, that are    *)
(* in the cache.                                                           *)
HitLength(toks, max_length) ==
    CHOOSE k \in 0 .. max_length \div BlockSize :
        /\ \A i \in 1..k : BlockHash(toks, i) \in DOMAIN cached_block_hash_to_block
        /\ k < max_length \div BlockSize =>
               BlockHash(toks, k + 1) \notin DOMAIN cached_block_hash_to_block

(* The first block of the dict stored under each of those hashes. *)
find_longest_cache_hit(toks, max_length) ==
    [i \in 1 .. HitLength(toks, max_length) |->
        cached_block_hash_to_block[BlockHash(toks, i)][1]]

(* Mutant: one token too many is left to compute. *)
get_computed_blocks_Short(r) ==
    find_longest_cache_hit(all_token_ids[r], Len(all_token_ids[r]) - 2)
(* The last token is always recomputed, to obtain its logits; a request     *)
(* that wants the logprobs of its prompt computes all of it.               *)
get_computed_blocks(r) ==
    IF r \in PromptLogprobs THEN << >>
    ELSE find_longest_cache_hit(all_token_ids[r], Len(all_token_ids[r]) - 1)

-------------------------------------------------------------------------------
(* Block-pool bookkeeping, on explicit values of its fields. *)

(* _maybe_evict_cached_block for every block of B. *)
Evictable(bh, map, B) == {b \in B : bh[b] # NoHash /\ bh[b] \in DOMAIN map}
(* Mutant: get_new_blocks leaves the old hash on the evicted blocks. *)
EvictHash_NotReset(bh, map, B) == bh
EvictHash(bh, map, B) ==
    [b \in Block |-> IF b \in Evictable(bh, map, B) THEN NoHash ELSE bh[b]]
EvictMap(bh, map, B) ==
    LET gone(h) == {b \in Evictable(bh, map, B) : bh[b] = h}
    IN  [h \in {g \in DOMAIN map : Range(map[g]) \ gone(g) # {}} |-> Drop(map[h], gone(h))]

(* cache_full_blocks: the blocks at the positions I of blks get the hash of *)
(* their position and are entered in the map.                              *)
StoreHash(bh, toks, blks, I) ==
    [b \in Block |-> IF \E i \in I : blks[i] = b
                     THEN BlockHash(toks, CHOOSE i \in I : blks[i] = b)
                     ELSE bh[b]]
StoreMap(map, toks, blks, I) ==
    [h \in DOMAIN map \cup {BlockHash(toks, i) : i \in I} |->
        (IF h \in DOMAIN map THEN map[h] ELSE << >>)
        \o (IF \E i \in I : BlockHash(toks, i) = h
            THEN << blks[CHOOSE i \in I : BlockHash(toks, i) = h] >>
            ELSE << >>)]

-------------------------------------------------------------------------------
(* allocate_slots(request, ...) for a request that will have `total' tokens *)
(* computed or scheduled, of which the blocks `hits' were found in the      *)
(* prefix cache.                                                           *)

RequiredBlocks(total) == cdiv(Min2(total, MaxModelLen), BlockSize)

get_num_blocks_to_allocate(r, total, hits) ==
    RequiredBlocks(total) - Len(hits) - Len(req_to_blocks[r])
    + Cardinality({i \in 1..Len(hits) : ref_cnt[hits[i]] = 0 /\ hits[i] # NullBlock})

(* Otherwise allocate_slots returns None and changes nothing. *)
CanAllocate(r, total, hits) ==
    get_num_blocks_to_allocate(r, total, hits) <= Len(free_block_queue)

(* Mutant: touch leaves the block in the free queue. *)
TouchedQueue_StaysFree(hits) == free_block_queue
(* touch: blocks without a reference leave the free queue. *)
TouchedQueue(hits) ==
    Drop(free_block_queue, {b \in Range(hits) : ref_cnt[b] = 0 /\ b # NullBlock})

(* allocate_new_blocks: how many blocks beyond those the request holds. *)
NumFresh(r, total, hits) ==
    LET n == RequiredBlocks(total) - Len(req_to_blocks[r]) - Len(hits)
    IN  IF n <= 0 THEN 0 ELSE n

Fresh(r, total, hits) == SubSeq(TouchedQueue(hits), 1, NumFresh(r, total, hits))

(* Mutant: blocks are cached as soon as their tokens are known. *)
NumFull_Unscheduled(r, total) == Len(all_token_ids[r]) \div BlockSize
(* cache_blocks: the positions that become full and are not cached yet. *)
NumFull(r, total) == Min2(total, Len(all_token_ids[r])) \div BlockSize
(* Mutants: the last full block is left out; save_new_computed_blocks does  *)
(* not record that the hits are cached.                                    *)
NewlyFull_LastMissing(r, total, hits) ==
    (IF Tracked(r) THEN num_cached_block[r] + 1 ELSE Len(hits) + 1) .. NumFull(r, total) - 1
NewlyFull_HitsAgain(r, total, hits) ==
    (IF Tracked(r) THEN num_cached_block[r] + 1 ELSE 1) .. NumFull(r, total)
NewlyFull(r, total, hits) ==
    (IF Tracked(r) THEN num_cached_block[r] + 1 ELSE Len(hits) + 1) .. NumFull(r, total)

allocate_slots(r, total, hits) ==
    LET queue == TouchedQueue(hits)
        n     == NumFresh(r, total, hits)
        fresh == Fresh(r, total, hits)
        blks  == req_to_blocks[r] \o hits \o fresh
        I     == NewlyFull(r, total, hits)
        bh    == EvictHash(block_hash, cached_block_hash_to_block, Range(fresh))
        map   == EvictMap(block_hash, cached_block_hash_to_block, Range(fresh))
    IN  /\ free_block_queue' = SubSeq(queue, n + 1, Len(queue))
        /\ ref_cnt' = [b \in Block |-> ref_cnt[b] + Count(hits, b) + Count(fresh, b)]
        /\ req_to_blocks' = [req_to_blocks EXCEPT ![r] = blks]
        /\ num_cached_block' = [num_cached_block EXCEPT ![r] = NumFull(r, total)]
        /\ block_hash' = StoreHash(bh, all_token_ids[r], blks, I)
        /\ cached_block_hash_to_block' = StoreMap(map, all_token_ids[r], blks, I)
        /\ assert_failed' =
               ~ /\ IF Tracked(r) THEN hits = << >> ELSE req_to_blocks[r] = << >>
                 /\ n <= Len(queue)
                 /\ \A b \in Range(fresh) : ref_cnt[b] + Count(hits, b) = 0
                 /\ \A i \in I : i <= Len(blks) /\ bh[blks[i]] = NoHash
        /\ UNCHANGED all_token_ids

-------------------------------------------------------------------------------
(* Mutants: free appends the blocks in list order; free forgets to pop the  *)
(* request's list.                                                         *)
free_HeadFirst(r) ==
    LET blks == req_to_blocks[r]
        refs == [b \in Block |-> ref_cnt[b] - Count(blks, b)]
    IN  /\ ref_cnt' = refs
        /\ free_block_queue' =
               free_block_queue \o Keep(blks, {b \in Block : refs[b] = 0 /\ b # NullBlock})
        /\ req_to_blocks' = [req_to_blocks EXCEPT ![r] = << >>]
        /\ num_cached_block' = [num_cached_block EXCEPT ![r] = NotTracked]
        /\ UNCHANGED <<block_hash, cached_block_hash_to_block, all_token_ids, assert_failed>>
free_KeepsList(r) ==
    LET blks == req_to_blocks[r]
        refs == [b \in Block |-> ref_cnt[b] - Count(blks, b)]
    IN  /\ ref_cnt' = refs
        /\ free_block_queue' =
               free_block_queue
               \o Keep(Backwards(blks), {b \in Block : refs[b] = 0 /\ b # NullBlock})
        /\ UNCHANGED <<block_hash, cached_block_hash_to_block, req_to_blocks,
                       num_cached_block, all_token_ids, assert_failed>>

(* free: the blocks of r lose a reference, the tail blocks first; those     *)
(* left without one join the free queue.                                   *)
free(r) ==
    LET blks == req_to_blocks[r]
        refs == [b \in Block |-> ref_cnt[b] - Count(blks, b)]
    IN  /\ ref_cnt' = refs
        /\ free_block_queue' =
               free_block_queue
               \o Keep(Backwards(blks), {b \in Block : refs[b] = 0 /\ b # NullBlock})
        /\ req_to_blocks' = [req_to_blocks EXCEPT ![r] = << >>]
        /\ num_cached_block' = [num_cached_block EXCEPT ![r] = NotTracked]
        /\ UNCHANGED <<block_hash, cached_block_hash_to_block, all_token_ids, assert_failed>>

(* reset_prefix_cache succeeds only while no block but the null block is in *)
(* use; otherwise it returns False and changes nothing.                    *)
reset_prefix_cache ==
    /\ NumBlocks - Len(free_block_queue) = 1
    /\ cached_block_hash_to_block' = [h \in {} |-> << >>]
    /\ block_hash' = [b \in Block |-> NoHash]
    /\ UNCHANGED <<ref_cnt, free_block_queue, req_to_blocks, num_cached_block,
                   all_token_ids, assert_failed>>

-------------------------------------------------------------------------------
(* The contract with the scheduler: which calls it makes, and when.        *)

(* A request with this id and prompt arrives; the id holds no blocks. *)
NewRequest(r, p) ==
    /\ ~ Tracked(r) /\ req_to_blocks[r] = << >>
    /\ all_token_ids' = [all_token_ids EXCEPT ![r] = p]
    /\ UNCHANGED <<pool, req_to_blocks, num_cached_block, assert_failed>>

(* Mutant: the length limit is off by one. *)
AppendToken_OneMore(r, t) ==
    /\ all_token_ids[r] # << >> /\ Len(all_token_ids[r]) <= MaxModelLen + 1
    /\ all_token_ids' = [all_token_ids EXCEPT ![r] = Append(@, t)]
    /\ UNCHANGED <<pool, req_to_blocks, num_cached_block, assert_failed>>

(* append_output_token_ids. A prompt may have max_model_len tokens; the one  *)
(* token sampled from it ends the request.                                 *)
AppendToken(r, t) ==
    /\ all_token_ids[r] # << >> /\ Len(all_token_ids[r]) <= MaxModelLen
    /\ all_token_ids' = [all_token_ids EXCEPT ![r] = Append(@, t)]
    /\ UNCHANGED <<pool, req_to_blocks, num_cached_block, assert_failed>>

(* A waiting or preempted request is scheduled: prefix-cache hits, then at  *)
(* least one token to compute.                                             *)
ScheduleWaiting(r, total) ==
    LET hits == get_computed_blocks(r)
    IN  /\ ~ Tracked(r) /\ all_token_ids[r] # << >>
        /\ Len(hits) * BlockSize < total /\ total <= MaxModelLen
        /\ CanAllocate(r, total, hits)
        /\ allocate_slots(r, total, hits)

(* A running request is scheduled for at least one more token. *)
ScheduleRunning(r, total) ==
    /\ Tracked(r)
    /\ num_cached_block[r] * BlockSize < total /\ total <= MaxModelLen
    /\ CanAllocate(r, total, << >>)
    /\ allocate_slots(r, total, << >>)

(* Preemption, completion without a pin, or the expiry of a pin. *)
Free(r) == all_token_ids[r] # << >> /\ free(r)

KVNext ==
    /\ ~ assert_failed
    /\ \/ reset_prefix_cache
       \/ \E r \in RequestIds :
            \/ \E p \in Prompts : NewRequest(r, p)
            \/ \E t \in Tokens : AppendToken(r, t)
            \/ \E total \in 1..Len(all_token_ids[r]) : ScheduleWaiting(r, total)
            \/ \E total \in 1..Len(all_token_ids[r]) : ScheduleRunning(r, total)
            \/ Free(r)

KVSpec == KVInit /\ [][KVNext]_kvVars

-------------------------------------------------------------------------------
(* Properties. *)

(* Every field of the block pool and of the manager has its type. *)
KVTypeOK ==
    /\ ref_cnt \in [Block -> Int]
    /\ block_hash \in [Block -> Seq(Tokens)]
    /\ free_block_queue \in Seq(Block)
    /\ DOMAIN cached_block_hash_to_block \subseteq Seq(Tokens)
    /\ \A h \in DOMAIN cached_block_hash_to_block : cached_block_hash_to_block[h] \in Seq(Block)
    /\ req_to_blocks \in [RequestIds -> Seq(Block)]
    /\ num_cached_block \in [RequestIds -> Nat \cup {NotTracked}]
    /\ all_token_ids \in [RequestIds -> Seq(Tokens)]
    /\ \A r \in RequestIds : Len(all_token_ids[r]) <= MaxModelLen + 1
    /\ assert_failed \in BOOLEAN

Holders(b) == {r \in RequestIds : b \in Range(req_to_blocks[r])}

(* The reference count of a block is the number of requests that hold it,  *)
(* however hits, allocations and frees interleave; no request holds a block *)
(* twice, and none holds the null block.                                   *)
RefCountIsHolders ==
    /\ \A b \in Block \ {NullBlock} : ref_cnt[b] = Cardinality(Holders(b))
    /\ \A r \in RequestIds : NoDup(req_to_blocks[r]) /\ NullBlock \notin Range(req_to_blocks[r])

(* The free queue holds exactly the blocks without a reference, once each:  *)
(* no block leaks and none that a request still uses can be handed out.    *)
FreeQueueIsUnreferenced ==
    /\ NoDup(free_block_queue)
    /\ Range(free_block_queue) = {b \in Block \ {NullBlock} : ref_cnt[b] = 0}

(* block.block_hash and cached_block_hash_to_block describe the same cache, *)
(* no hash keeps an empty dict, and the null block is never cached.        *)
HashMapConsistent ==
    /\ block_hash[NullBlock] = NoHash
    /\ \A b \in Block : block_hash[b] # NoHash =>
           block_hash[b] \in DOMAIN cached_block_hash_to_block
    /\ \A h \in DOMAIN cached_block_hash_to_block :
           /\ h # NoHash /\ cached_block_hash_to_block[h] # << >>
           /\ NoDup(cached_block_hash_to_block[h])
           /\ Range(cached_block_hash_to_block[h]) = {b \in Block : block_hash[b] = h}

(* The blocks a request holds are cached under the hashes of its own tokens *)
(* up to num_cached_block, and not cached beyond: a request never computes  *)
(* into a block that other requests can hit, nor reads one of another       *)
(* prefix.                                                                 *)
CachedBlocksAreOwnPrefix ==
    \A r \in RequestIds :
        IF Tracked(r)
        THEN /\ num_cached_block[r] <= Len(req_to_blocks[r])
             /\ num_cached_block[r] * BlockSize <= Len(all_token_ids[r])
             /\ \A i \in 1 .. Len(req_to_blocks[r]) :
                   block_hash[req_to_blocks[r][i]] =
                       IF i <= num_cached_block[r]
                       THEN BlockHash(all_token_ids[r], i) ELSE NoHash
        ELSE req_to_blocks[r] = << >>

(* A block that is not cached yet, the only kind the model still writes     *)
(* into, belongs to a single request.                                      *)
UncachedBlocksArePrivate ==
    \A q, r \in RequestIds : \A b \in Range(req_to_blocks[q]) \cap Range(req_to_blocks[r]) :
        block_hash[b] = NoHash => q = r

(* find_longest_cache_hit stops at the first missing hash because "the      *)
(* following block hashes are not computed yet for sure": whenever a block  *)
(* is cached, the block of its parent prefix is cached too, because tail    *)
(* blocks are freed, and so evicted, before the blocks they depend on.      *)
CacheIsPrefixClosed ==
    \A h \in DOMAIN cached_block_hash_to_block :
        Len(h) > BlockSize =>
            SubSeq(h, 1, Len(h) - BlockSize) \in DOMAIN cached_block_hash_to_block

(* None of the asserts and ValueErrors of get_new_blocks, cache_full_blocks *)
(* and save_new_computed_blocks is ever reached.                           *)
AssertsHold == ~ assert_failed

(* The inductive invariant. *)
KVInv ==
    /\ KVTypeOK
    /\ RefCountIsHolders
    /\ FreeQueueIsUnreferenced
    /\ HashMapConsistent
    /\ CachedBlocksAreOwnPrefix
    /\ UncachedBlocksArePrivate
    /\ AssertsHold

(* A block that stays referenced keeps its hash: a cached block is evicted  *)
(* or renamed only after every request using it has let it go.             *)
HeldBlocksKeepHash ==
    [][\A b \in Block :
          ref_cnt[b] > 0 /\ ref_cnt'[b] > 0 /\ block_hash[b] # NoHash =>
              block_hash'[b] = block_hash[b]]_kvVars
===============================================================================
