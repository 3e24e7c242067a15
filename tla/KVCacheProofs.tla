----------------------------- MODULE KVCacheProofs -----------------------------
(***************************************************************************)
(* The invariants of KVCacheManager hold for every number of blocks, block *)
(* size, set of requests and set of prompts.  First lemmas: block hashes,  *)
(* the hash map, consequences of the invariant, what one call of           *)
(* allocate_slots does to each part of it; then the operations, one by     *)
(* one, and the theorems.                                                  *)
(***************************************************************************)
EXTENDS KVCacheManager, SeqFilterTheorems

(* The prover of a step that names none. *)
USE Zenon

-------------------------------------------------------------------------------
(* Arithmetic and sequence facts. *)

LEMMA DivFacts ==
    ASSUME NEW n \in Nat, NEW b \in Nat \ {0}
    PROVE  /\ n \div b \in Nat
           /\ (n \div b) * b <= n
           /\ n < (n \div b + 1) * b
BY SMT

LEMMA MultMono ==
    ASSUME NEW i \in Nat, NEW j \in Nat, NEW b \in Nat \ {0}, i < j
    PROVE  i * b < j * b /\ i * b \in Nat /\ i * b + b <= j * b
BY SMT

LEMMA CdivFacts ==
    ASSUME NEW n \in Nat, NEW b \in Nat \ {0}
    PROVE  cdiv(n, b) \in Nat /\ n <= cdiv(n, b) * b
<1> USE SMT
<1>1. n + b - 1 \in Nat
  OBVIOUS
<1>2. cdiv(n, b) \in Nat /\ n + b - 1 < (cdiv(n, b) + 1) * b
  BY Zenon, <1>1, DivFacts DEF cdiv
<1>3. (cdiv(n, b) + 1) * b = cdiv(n, b) * b + b
  BY <1>2
<1>4. cdiv(n, b) * b \in Nat
  BY <1>2
<1> QED
  BY <1>2, <1>3, <1>4

(* A full block of the first t tokens is covered by the blocks for t tokens. *)
LEMMA FullBlocksCovered ==
    ASSUME NEW t \in Nat, NEW u \in Nat, t <= u, NEW b \in Nat \ {0}
    PROVE  t \div b <= cdiv(u, b)
<1> DEFINE f == t \div b
           c == cdiv(u, b)
<1>1. f \in Nat /\ f * b <= t
  BY DivFacts
<1>2. c \in Nat /\ u <= c * b
  BY CdivFacts
<1> HIDE DEF f, c
<1>3. ~ (c < f)
  <2> SUFFICES ASSUME c < f PROVE FALSE
    OBVIOUS
  <2>1. c * b < f * b
    BY MultMono, <1>1, <1>2
  <2>2. f * b \in Nat /\ c * b \in Nat
    BY SMT, <1>1, <1>2
  <2> QED
    BY SMT, <2>1, <2>2, <1>1, <1>2
<1>4. f <= c
  BY SMT, <1>1, <1>2, <1>3
<1> QED
  BY <1>4 DEF f, c

(* The hash of block i is a prefix of i * BlockSize tokens. *)
LEMMA BlockHashFacts ==
    ASSUME NEW toks \in Seq(Tokens), NEW i \in Nat, i * BlockSize <= Len(toks)
    PROVE  /\ BlockHash(toks, i) \in Seq(Tokens)
           /\ Len(BlockHash(toks, i)) = i * BlockSize
           /\ i > 0 => BlockHash(toks, i) # NoHash
<1> USE SMT
<1>1. i * BlockSize \in Nat /\ BlockSize \in Nat \ {0}
  BY SizesAssumption
<1>2. BlockHash(toks, i) \in Seq(Tokens) /\ Len(BlockHash(toks, i)) = i * BlockSize
  BY <1>1 DEF BlockHash
<1>3. i > 0 => i * BlockSize > 0
  BY <1>1
<1> QED
  BY <1>2, <1>3 DEF NoHash

(* Different blocks of one request have different hashes. *)
LEMMA BlockHashInjective ==
    ASSUME NEW toks \in Seq(Tokens), NEW i \in Nat, NEW j \in Nat,
           i * BlockSize <= Len(toks), j * BlockSize <= Len(toks),
           BlockHash(toks, i) = BlockHash(toks, j)
    PROVE  i = j
<1>1. i * BlockSize = j * BlockSize
  BY BlockHashFacts
<1>2. BlockSize \in Nat \ {0}
  BY SizesAssumption
<1>3. ~ (i < j) /\ ~ (j < i)
  BY SMT, <1>1, <1>2, MultMono
<1> QED
  BY SMT, <1>3

(* Appending a token changes the hash of no full block. *)
LEMMA BlockHashAppend ==
    ASSUME NEW toks \in Seq(Tokens), NEW t \in Tokens, NEW i \in Nat,
           i * BlockSize <= Len(toks)
    PROVE  BlockHash(Append(toks, t), i) = BlockHash(toks, i)
<1> USE SMT
<1>1. i * BlockSize \in Nat
  BY SizesAssumption
<1> QED
  BY <1>1 DEF BlockHash


-------------------------------------------------------------------------------
(* Evicting and storing keep the two views of the cache consistent. *)

MapOK(bh, map) ==
    /\ bh \in [Block -> Seq(Tokens)]
    /\ bh[NullBlock] = NoHash
    /\ \A b \in Block : bh[b] # NoHash => bh[b] \in DOMAIN map
    /\ \A h \in DOMAIN map :
           /\ h \in Seq(Tokens) /\ h # NoHash
           /\ map[h] \in Seq(Block) /\ map[h] # << >> /\ NoDup(map[h])
           /\ Range(map[h]) = {b \in Block : bh[b] = h}

LEMMA NullIsBlock == NullBlock \in Block
BY SMT, SizesAssumption DEF NullBlock, Block

LEMMA NoHashIsSeq == NoHash \in Seq(Tokens)
BY SMT DEF NoHash

LEMMA NonEmptyRange ==
    ASSUME NEW A, NEW s \in Seq(A)
    PROVE  s # << >> <=> Range(s) # {}
<1> USE SMT
<1>1. s # << >> <=> Len(s) # 0
  OBVIOUS
<1>2. Len(s) # 0 => s[1] \in Range(s)
  BY InRange
<1>3. Range(s) # {} => Len(s) # 0
  BY InRange
<1> QED
  BY Zenon, <1>1, <1>2, <1>3

LEMMA EvictOK ==
    ASSUME NEW bh, NEW map, MapOK(bh, map), NEW B \in SUBSET Block
    PROVE  /\ MapOK(EvictHash(bh, map, B), EvictMap(bh, map, B))
           /\ \A b \in Block : EvictHash(bh, map, B)[b] = IF b \in B THEN NoHash ELSE bh[b]
<1> DEFINE bh2 == EvictHash(bh, map, B)
           map2 == EvictMap(bh, map, B)
           gone(h) == {b \in B : bh[b] = h}
<1>1. \A b \in Block : bh2[b] = IF b \in B THEN NoHash ELSE bh[b]
  BY DEF MapOK, EvictHash, Evictable
<1>2. bh2 \in [Block -> Seq(Tokens)] /\ bh2[NullBlock] = NoHash
  <2>1. bh2 = [b \in Block |-> bh2[b]]
    BY DEF EvictHash
  <2>2. \A b \in Block : bh2[b] \in Seq(Tokens)
    BY <1>1, NoHashIsSeq DEF MapOK
  <2> HIDE DEF bh2
  <2> QED
    BY <2>1, <2>2, <1>1, NullIsBlock DEF MapOK
<1>3. \A h \in DOMAIN map : {b \in Evictable(bh, map, B) : bh[b] = h} = gone(h)
  BY DEF MapOK, Evictable
<1>4. /\ DOMAIN map2 = {h \in DOMAIN map : Range(map[h]) \ gone(h) # {}}
      /\ \A h \in DOMAIN map2 : map2[h] = Drop(map[h], gone(h))
  BY <1>3 DEF EvictMap
<1> HIDE DEF bh2, map2
<1>5. ASSUME NEW h \in DOMAIN map2
      PROVE  /\ h \in Seq(Tokens) /\ h # NoHash
             /\ map2[h] \in Seq(Block) /\ map2[h] # << >> /\ NoDup(map2[h])
             /\ Range(map2[h]) = {b \in Block : bh2[b] = h}
  <2>1. /\ h \in Seq(Tokens) /\ h # NoHash /\ map[h] \in Seq(Block) /\ NoDup(map[h])
        /\ Range(map[h]) = {b \in Block : bh[b] = h}
        /\ Range(map[h]) \ gone(h) # {}
    BY <1>4 DEF MapOK
  <2>2. map2[h] \in Seq(Block) /\ NoDup(map2[h]) /\ Range(map2[h]) = Range(map[h]) \ gone(h)
    <3> DEFINE g == gone(h)
               m == map[h]
    <3>1. map2[h] = Drop(m, g) /\ m \in Seq(Block) /\ NoDup(m)
      BY <2>1, <1>4
    <3> HIDE DEF g, m
    <3>2. map2[h] \in Seq(Block) /\ NoDup(map2[h]) /\ Range(map2[h]) = Range(m) \ g
      BY SMT, <3>1, DropProperties
    <3> QED
      BY <3>2 DEF g, m
  <2>3. Range(map2[h]) = {b \in Block : bh2[b] = h}
    BY <2>1, <2>2, <1>1
  <2> QED
    BY <2>1, <2>2, <2>3, NonEmptyRange
<1>6. ASSUME NEW b \in Block, bh2[b] # NoHash PROVE bh2[b] \in DOMAIN map2
  <2>1. b \notin B /\ bh2[b] = bh[b] /\ bh[b] \in DOMAIN map
    BY <1>1, <1>6 DEF MapOK
  <2>2. b \in Range(map[bh[b]]) \ gone(bh[b])
    BY <2>1 DEF MapOK
  <2> QED
    BY <2>1, <2>2, <1>4
<1>7. MapOK(bh2, map2)
  BY <1>2, <1>5, <1>6 DEF MapOK
<1> QED
  BY <1>1, <1>7 DEF bh2, map2

LEMMA StoreOK ==
    ASSUME NEW bh, NEW map, MapOK(bh, map), NEW toks \in Seq(Tokens),
           NEW blks \in Seq(Block), NoDup(blks), NEW I \in SUBSET (1..Len(blks)),
           \A i \in I : /\ i * BlockSize <= Len(toks)
                       /\ bh[blks[i]] = NoHash /\ blks[i] # NullBlock
    PROVE  /\ MapOK(StoreHash(bh, toks, blks, I), StoreMap(map, toks, blks, I))
           /\ \A i \in I : StoreHash(bh, toks, blks, I)[blks[i]] = BlockHash(toks, i)
           /\ \A b \in Block : (\A i \in I : blks[i] # b) => StoreHash(bh, toks, blks, I)[b] = bh[b]
<1> DEFINE bh2 == StoreHash(bh, toks, blks, I)
           map2 == StoreMap(map, toks, blks, I)
<1>1. \A i \in I : i \in Nat /\ i > 0 /\ i \in 1..Len(blks) /\ blks[i] \in Block
  BY SMT
<1>2. \A i \in I : BlockHash(toks, i) \in Seq(Tokens) /\ BlockHash(toks, i) # NoHash
  BY <1>1, BlockHashFacts
<1>3. \A i, j \in I : BlockHash(toks, i) = BlockHash(toks, j) => i = j
  BY <1>1, BlockHashInjective
<1>4. \A i, j \in I : blks[i] = blks[j] => i = j
  BY <1>1 DEF NoDup
<1>5. \A i \in I : bh2[blks[i]] = BlockHash(toks, i)
  <2> SUFFICES ASSUME NEW i \in I PROVE bh2[blks[i]] = BlockHash(toks, i)
    OBVIOUS
  <2>1. (CHOOSE j \in I : blks[j] = blks[i]) = i
    BY <1>4
  <2> QED
    BY <2>1, <1>1 DEF StoreHash
<1>6. \A b \in Block : (\A i \in I : blks[i] # b) => bh2[b] = bh[b]
  BY DEF StoreHash
<1>7. bh2 \in [Block -> Seq(Tokens)] /\ bh2[NullBlock] = NoHash
  <2>1. bh2 = [b \in Block |-> bh2[b]]
    BY DEF StoreHash
  <2> HIDE DEF bh2
  <2>2. \A b \in Block : bh2[b] \in Seq(Tokens)
    <3> SUFFICES ASSUME NEW b \in Block PROVE bh2[b] \in Seq(Tokens)
      OBVIOUS
    <3>1. CASE \E i \in I : blks[i] = b
      BY <3>1, <1>2, <1>5
    <3>2. CASE \A i \in I : blks[i] # b
      BY <3>2, <1>6 DEF MapOK
    <3> QED
      BY <3>1, <3>2
  <2> QED
    BY <2>1, <2>2, <1>6, NullIsBlock DEF MapOK
<1>8. /\ DOMAIN map2 = DOMAIN map \cup {BlockHash(toks, i) : i \in I}
      /\ \A h \in DOMAIN map2 : (\A i \in I : BlockHash(toks, i) # h) =>
             map2[h] = (IF h \in DOMAIN map THEN map[h] ELSE << >>) \o << >>
      /\ \A i \in I : map2[BlockHash(toks, i)] =
             (IF BlockHash(toks, i) \in DOMAIN map THEN map[BlockHash(toks, i)] ELSE << >>) \o << blks[i] >>
  <2>1. ASSUME NEW i \in I
        PROVE  (CHOOSE j \in I : BlockHash(toks, j) = BlockHash(toks, i)) = i
    BY <1>3
  <2> QED
    BY <2>1 DEF StoreMap
<1> HIDE DEF bh2, map2
<1>9. ASSUME NEW i \in I, NEW h, h = BlockHash(toks, i)
      PROVE  /\ map2[h] \in Seq(Block) /\ map2[h] # << >> /\ NoDup(map2[h])
             /\ Range(map2[h]) = {b \in Block : bh2[b] = h}
  <2> DEFINE old == IF h \in DOMAIN map THEN map[h] ELSE << >>
             one == << blks[i] >>
  <2>1. old \in Seq(Block) /\ NoDup(old) /\ Range(old) = {b \in Block : bh[b] = h}
    <3>1. CASE h \in DOMAIN map
      BY <3>1 DEF MapOK
    <3>2. CASE h \notin DOMAIN map
      <4>1. \A b \in Block : bh[b] # h
        BY <3>2, <1>9, <1>2 DEF MapOK
      <4>2. Range(<< >>) = {} /\ NoDup(<< >>)
        BY SMT DEF Range, NoDup
      <4> QED
        BY SMT, <3>2, <4>1, <4>2
    <3> QED
      BY <3>1, <3>2
  <2>2. one \in Seq(Block) /\ NoDup(one) /\ Range(one) = {blks[i]}
    <3>1. Len(one) = 1 /\ one[1] = blks[i] /\ one \in Seq(Block)
      BY SMT, <1>1
    <3>2. NoDup(one)
      BY SMT, <3>1 DEF NoDup
    <3>3. Range(one) = {blks[i]}
      BY SMT, <3>1 DEF Range
    <3> QED
      BY <3>1, <3>2, <3>3
  <2>3. map2[h] = old \o one
    BY <1>8, <1>9
  <2> HIDE DEF old, one
  <2>4. blks[i] \notin Range(old)
    BY <2>1, <1>2, <1>9
  <2>5. map2[h] \in Seq(Block) /\ NoDup(map2[h]) /\ Range(map2[h]) = Range(old) \cup {blks[i]}
    BY SMT, <2>1, <2>2, <2>3, <2>4, NoDupConcat, RangeConcat
  <2>6. \A b \in Block : bh2[b] = h <=> (bh[b] = h \/ b = blks[i])
    <3> SUFFICES ASSUME NEW b \in Block PROVE bh2[b] = h <=> (bh[b] = h \/ b = blks[i])
      OBVIOUS
    <3>1. CASE \E j \in I : blks[j] = b
      <4>1. PICK j \in I : blks[j] = b
        BY <3>1
      <4>2. bh2[b] = BlockHash(toks, j) /\ bh[b] = NoHash
        BY <4>1, <1>5
      <4> QED
        BY <4>1, <4>2, <1>9, <1>2, <1>3, <1>4
    <3>2. CASE \A j \in I : blks[j] # b
      BY <3>2, <1>6
    <3> QED
      BY <3>1, <3>2
  <2> QED
    BY <2>1, <2>5, <2>6, <1>1, NonEmptyRange
<1>10. ASSUME NEW h \in DOMAIN map2, \A i \in I : BlockHash(toks, i) # h
       PROVE  /\ h \in DOMAIN map /\ map2[h] = map[h]
              /\ Range(map2[h]) = {b \in Block : bh2[b] = h}
  <2>1. h \in DOMAIN map /\ h # NoHash /\ map[h] \in Seq(Block) /\ Range(map[h]) = {b \in Block : bh[b] = h}
    BY <1>8, <1>10 DEF MapOK
  <2>2. map2[h] = map[h]
    BY SMT, <2>1, <1>8, <1>10
  <2>3. \A b \in Block : bh2[b] = h <=> bh[b] = h
    BY SMT, <2>1, <1>5, <1>6, <1>10
  <2> QED
    BY <2>1, <2>2, <2>3
<1>11. ASSUME NEW b \in Block, bh2[b] # NoHash PROVE bh2[b] \in DOMAIN map2
  <2>1. CASE \E i \in I : blks[i] = b
    BY SMT, <2>1, <1>5, <1>8
  <2>2. CASE \A i \in I : blks[i] # b
    BY <2>2, <1>6, <1>8, <1>11 DEF MapOK
  <2> QED
    BY <2>1, <2>2
<1>12. MapOK(bh2, map2)
  <2>1. ASSUME NEW h \in DOMAIN map2
        PROVE  /\ h \in Seq(Tokens) /\ h # NoHash
               /\ map2[h] \in Seq(Block) /\ map2[h] # << >> /\ NoDup(map2[h])
               /\ Range(map2[h]) = {b \in Block : bh2[b] = h}
    <3>1. CASE \E i \in I : BlockHash(toks, i) = h
      BY <3>1, <1>2, <1>9
    <3>2. CASE \A i \in I : BlockHash(toks, i) # h
      BY <3>2, <1>10 DEF MapOK
    <3> QED
      BY <3>1, <3>2
  <2> QED
    BY <2>1, <1>7, <1>11 DEF MapOK
<1> QED
  BY <1>5, <1>6, <1>12 DEF bh2, map2

-------------------------------------------------------------------------------
(* Consequences of the invariant. *)

LEMMA MapOKOfInv ==
    ASSUME KVInv PROVE MapOK(block_hash, cached_block_hash_to_block)
BY DEF KVInv, KVTypeOK, HashMapConsistent, MapOK

LEMMA CountIsNat ==
    ASSUME KVInv, NEW b \in Block \ {NullBlock} PROVE ref_cnt[b] \in Nat
<1>1. IsFiniteSet(Holders(b))
  BY RequestIdsAssumption, FS_Subset DEF Holders
<1>2. ref_cnt[b] = Cardinality(Holders(b))
  BY DEF KVInv, RefCountIsHolders
<1> QED
  BY <1>1, <1>2, FS_CardinalityType

(* A block that some request holds has a positive count and is not free. *)
LEMMA HeldIsReferenced ==
    ASSUME KVInv, NEW r \in RequestIds, NEW b \in Range(req_to_blocks[r])
    PROVE  /\ b \in Block /\ b # NullBlock /\ ref_cnt[b] > 0
           /\ b \notin Range(free_block_queue)
<1>1. b \in Block /\ b # NullBlock
  <2>1. req_to_blocks[r] \in Seq(Block) /\ NullBlock \notin Range(req_to_blocks[r])
    BY DEF KVInv, KVTypeOK, RefCountIsHolders
  <2> QED
    BY SMT, <2>1, InRange
<1>2. IsFiniteSet(Holders(b)) /\ r \in Holders(b)
  BY RequestIdsAssumption, FS_Subset DEF Holders
<1>3. Cardinality(Holders(b)) \in Nat /\ Cardinality(Holders(b)) # 0
  BY <1>2, FS_CardinalityType, FS_EmptySet
<1>4. ref_cnt[b] = Cardinality(Holders(b))
  BY <1>1 DEF KVInv, RefCountIsHolders
<1> QED
  BY SMT, <1>1, <1>3, <1>4 DEF KVInv, FreeQueueIsUnreferenced

(* A lookup stops at the first hash that is not cached. *)
LEMMA HitLengthFacts ==
    ASSUME NEW toks \in Seq(Tokens), NEW max \in Nat
    PROVE  /\ HitLength(toks, max) \in 0 .. max \div BlockSize
           /\ \A i \in 1 .. HitLength(toks, max) :
                  BlockHash(toks, i) \in DOMAIN cached_block_hash_to_block
           /\ HitLength(toks, max) < max \div BlockSize =>
                  BlockHash(toks, HitLength(toks, max) + 1) \notin DOMAIN cached_block_hash_to_block
<1> DEFINE m == max \div BlockSize
           Hit(i) == BlockHash(toks, i) \in DOMAIN cached_block_hash_to_block
           Good(k) == (\A i \in 1..k : Hit(i)) /\ (k < m => ~ Hit(k + 1))
           Miss == {i \in 1..m : ~ Hit(i)}
<1>1. m \in Nat
  BY SizesAssumption, DivFacts
<1>2. HitLength(toks, max) = CHOOSE k \in 0..m : Good(k)
  BY DEF HitLength
<1> HIDE DEF m, Hit
<1>3. \E k \in 0..m : Good(k)
  <2>1. CASE Miss = {}
    <3>1. m \in 0..m /\ Good(m)
      BY SMT, <2>1, <1>1
    <3> QED
      BY <3>1
  <2>2. CASE Miss # {}
    <3>1. Miss \in SUBSET Nat
      BY SMT, <1>1
    <3>2. PICK j \in Miss : \A i \in Miss : j <= i
      BY <2>2, <3>1, LeastNat
    <3>3. j - 1 \in 0..m /\ ~ Hit(j) /\ (j - 1) + 1 = j
      BY SMT, <3>2, <1>1
    <3>4. \A i \in 1 .. j - 1 : Hit(i)
      BY SMT, <3>2, <1>1
    <3> QED
      BY <3>3, <3>4
  <2> QED
    BY <2>1, <2>2
<1>4. HitLength(toks, max) \in 0..m /\ Good(HitLength(toks, max))
  BY <1>2, <1>3
<1> QED
  BY <1>4 DEF m, Hit

(* The hits of a lookup: blocks of the request's own prefix, all different. *)
GoodHits(r, hits) ==
    /\ hits \in Seq(Block) /\ NoDup(hits) /\ NullBlock \notin Range(hits)
    /\ Len(hits) * BlockSize <= Len(all_token_ids[r])
    /\ \A i \in 1..Len(hits) : block_hash[hits[i]] = BlockHash(all_token_ids[r], i)

LEMMA HitsGood ==
    ASSUME KVInv, NEW r \in RequestIds, all_token_ids[r] # << >>
    PROVE  GoodHits(r, find_longest_cache_hit(all_token_ids[r], Len(all_token_ids[r]) - 1))
<1> DEFINE toks == all_token_ids[r]
           max == Len(toks) - 1
           k == HitLength(toks, max)
           hits == find_longest_cache_hit(toks, max)
<1>1. toks \in Seq(Tokens) /\ max \in Nat /\ max <= Len(toks)
  BY SMT DEF KVInv, KVTypeOK
<1>2. hits = [i \in 1..k |-> cached_block_hash_to_block[BlockHash(toks, i)][1]]
  BY DEF find_longest_cache_hit
<1>3. k \in 0 .. max \div BlockSize /\ \A i \in 1..k : BlockHash(toks, i) \in DOMAIN cached_block_hash_to_block
  BY <1>1, HitLengthFacts
<1> HIDE DEF toks, max, k, hits
<1>4. k \in Nat /\ max \div BlockSize \in Nat /\ (max \div BlockSize) * BlockSize <= max /\ BlockSize \in Nat \ {0}
  BY SMT, <1>1, <1>3, DivFacts, SizesAssumption
<1>5. k * BlockSize <= Len(toks)
  <2>1. k * BlockSize <= (max \div BlockSize) * BlockSize
    <3>1. k < max \div BlockSize => k * BlockSize < (max \div BlockSize) * BlockSize
      BY <1>4, MultMono
    <3>2. k < max \div BlockSize \/ k = max \div BlockSize
      BY SMT, <1>3, <1>4
    <3>3. k * BlockSize \in Int
      BY SMT, <1>4
    <3>4. (max \div BlockSize) * BlockSize \in Int
      BY SMT, <1>4
    <3> QED
      BY SMT, <3>1, <3>2, <3>3, <3>4
  <2>2. k * BlockSize \in Int /\ (max \div BlockSize) * BlockSize \in Int /\ Len(toks) \in Nat
    BY SMT, <1>4, <1>1
  <2> QED
    BY SMT, <2>1, <2>2, <1>1, <1>4
<1>6. \A i \in 1..k : i \in Nat /\ i * BlockSize <= Len(toks)
  <2> SUFFICES ASSUME NEW i \in 1..k PROVE i * BlockSize <= Len(toks)
    BY SMT, <1>4
  <2>1. i < k => i * BlockSize < k * BlockSize
    BY SMT, <1>4, MultMono
  <2>2. (i < k \/ i = k) /\ i * BlockSize \in Int /\ k * BlockSize \in Int
    BY SMT, <1>4
  <2> QED
    BY SMT, <2>1, <2>2, <1>5, <1>1
<1>7. ASSUME NEW i \in 1..k
      PROVE  hits[i] \in Block /\ block_hash[hits[i]] = BlockHash(toks, i) /\ hits[i] # NullBlock
  <2> DEFINE h == BlockHash(toks, i)
             s == cached_block_hash_to_block[h]
  <2>1. /\ h # NoHash /\ s \in Seq(Block) /\ s # << >>
        /\ Range(s) = {b \in Block : block_hash[b] = h} /\ block_hash[NullBlock] = NoHash
    BY <1>3, MapOKOfInv DEF MapOK
  <2>2. hits[i] = s[1]
    BY <1>2
  <2> HIDE DEF h, s
  <2>3. 1 \in 1..Len(s)
    BY SMT, <2>1
  <2>4. s[1] \in Range(s)
    BY <2>1, <2>3, InRange
  <2>5. hits[i] \in Block /\ block_hash[hits[i]] = h /\ hits[i] # NullBlock
    BY <2>1, <2>2, <2>4
  <2> QED
    BY <2>5 DEF h
<1>8. hits \in Seq(Block) /\ Len(hits) = k
  <2>1. hits \in [1..k -> Block]
    BY <1>2, <1>7
  <2> QED
    BY SMT, <2>1, <1>4
<1>9. NoDup(hits)
  <2> SUFFICES ASSUME NEW i \in 1..k, NEW j \in 1..k, hits[i] = hits[j] PROVE i = j
    BY <1>8 DEF NoDup
  <2>1. BlockHash(toks, i) = BlockHash(toks, j)
    BY <1>7
  <2> QED
    BY <2>1, <1>1, <1>6, BlockHashInjective
<1>10. NullBlock \notin Range(hits)
  BY <1>7, <1>8, InRange
<1> QED
  BY <1>5, <1>7, <1>8, <1>9, <1>10 DEF GoodHits, toks, max, hits

LEMMA NoHitsGood ==
    ASSUME KVInv, NEW r \in RequestIds
    PROVE  GoodHits(r, << >>)
<1>1. << >> \in Seq(Block) /\ Len(<< >>) = 0 /\ 1..0 = {}
  BY SMT
<1>2. NoDup(<< >>)
  BY <1>1 DEF NoDup
<1>3. NullBlock \notin Range(<< >>)
  BY SMT DEF Range
<1>4. all_token_ids[r] \in Seq(Tokens)
  BY SMT DEF KVInv, KVTypeOK
<1>5. 0 * BlockSize <= Len(all_token_ids[r])
  BY SMT, <1>4, SizesAssumption
<1> QED
  BY Zenon, <1>1, <1>2, <1>3, <1>5 DEF GoodHits

LEMMA LookupGood ==
    ASSUME KVInv, NEW r \in RequestIds, all_token_ids[r] # << >>
    PROVE  GoodHits(r, get_computed_blocks(r))
<1>1. CASE r \in PromptLogprobs
  BY Zenon, <1>1, NoHitsGood DEF get_computed_blocks
<1>2. CASE r \notin PromptLogprobs
  BY Zenon, <1>2, HitsGood DEF get_computed_blocks
<1> QED
  BY Zenon, <1>1, <1>2

-------------------------------------------------------------------------------
(* allocate_slots. *)

(* What the scheduler guarantees when it calls allocate_slots. *)
GoodCall(r, total, hits) ==
    /\ total \in 1..Len(all_token_ids[r]) /\ total <= MaxModelLen
    /\ GoodHits(r, hits)
    /\ Tracked(r) => hits = << >> /\ num_cached_block[r] * BlockSize < total
    /\ ~ Tracked(r) => Len(hits) * BlockSize < total
    /\ CanAllocate(r, total, hits)

(* The fresh blocks are free blocks outside the hits, and there are enough  *)
(* of them.                                                                *)
LEMMA FreshFacts ==
    ASSUME KVInv, NEW r \in RequestIds, NEW total, NEW hits, GoodCall(r, total, hits)
    PROVE  LET queue == TouchedQueue(hits)
               n == NumFresh(r, total, hits)
               fresh == Fresh(r, total, hits)
               rest == SubSeq(queue, n + 1, Len(queue))
           IN  /\ n \in Nat /\ n <= Len(queue) /\ queue \in Seq(Block)
               /\ fresh \in Seq(Block) /\ NoDup(fresh) /\ Len(fresh) = n
               /\ rest \in Seq(Block) /\ NoDup(rest)
               /\ \A b \in Range(fresh) : /\ b \in Block /\ b # NullBlock /\ ref_cnt[b] = 0
                                          /\ b \notin Range(hits)
               /\ Range(rest) = {b \in Block \ {NullBlock} :
                                   ref_cnt[b] = 0 /\ b \notin Range(hits) \cup Range(fresh)}
<1> DEFINE fq == free_block_queue
           T == {b \in Range(hits) : ref_cnt[b] = 0 /\ b # NullBlock}
           queue == TouchedQueue(hits)
           n == NumFresh(r, total, hits)
           fresh == Fresh(r, total, hits)
           rest == SubSeq(queue, n + 1, Len(queue))
           E == {i \in 1..Len(hits) : ref_cnt[hits[i]] = 0 /\ hits[i] # NullBlock}
<1>1. /\ fq \in Seq(Block) /\ NoDup(fq) /\ Range(fq) = {b \in Block \ {NullBlock} : ref_cnt[b] = 0}
      /\ hits \in Seq(Block) /\ NoDup(hits) /\ req_to_blocks[r] \in Seq(Block)
  BY DEF KVInv, KVTypeOK, FreeQueueIsUnreferenced, GoodCall, GoodHits
<1>2. T \subseteq Range(fq)
  <2>1. \A b \in Range(hits) : b \in Block
    BY SMT, <1>1, InRange
  <2> QED
    BY <1>1, <2>1
<1>3. queue = Drop(fq, T)
  BY DEF TouchedQueue
<1>4. queue \in Seq(Block) /\ NoDup(queue) /\ Range(queue) = Range(fq) \ T
  <2> HIDE DEF T, fq, queue
  <2> QED
    BY <1>1, <1>3, DropProperties
<1>5. Len(queue) = Len(fq) - Cardinality(E)
  <2>1. IsFiniteSet(Range(fq)) /\ Cardinality(Range(fq)) = Len(fq)
    BY <1>1, LenNoDup
  <2>2. Cardinality(Range(queue)) = Len(queue)
    BY <1>4, LenNoDup
  <2>3. Cardinality(Range(fq) \ T) = Cardinality(Range(fq)) - Cardinality(Range(fq) \cap T)
    BY <2>1, FS_Difference
  <2>4. Range(fq) \cap T = T
    BY <1>2
  <2>5. Cardinality(T) = Cardinality(E)
    <3> DEFINE f == [i \in E |-> hits[i]]
    <3>1. IsFiniteSet(1..Len(hits)) /\ E \in SUBSET (1..Len(hits))
      BY SMT, <1>1, FS_Interval
    <3>2. IsFiniteSet(E)
      BY <3>1, FS_Subset
    <3>3. f \in [E -> T]
      BY <1>1, InRange
    <3>4. \A i, j \in E : f[i] = f[j] => i = j
      BY <1>1 DEF NoDup
    <3>5. \A b \in T : \E i \in E : f[i] = b
      <4> SUFFICES ASSUME NEW b \in T PROVE \E i \in E : f[i] = b
        OBVIOUS
      <4>1. PICK i \in 1..Len(hits) : hits[i] = b
        BY <1>1, InRange
      <4>2. i \in E
        BY <4>1
      <4> QED
        BY <4>1, <4>2
    <3> HIDE DEF f, E, T
    <3>6. f \in Injection(E, T) /\ f \in Surjection(E, T)
      BY <3>3, <3>4, <3>5 DEF Injection, Surjection, IsInjective
    <3> QED
      BY <3>2, <3>6, FS_Surjection
  <2> QED
    BY <2>1, <2>2, <2>3, <2>4, <2>5, <1>4
<1>6. Cardinality(E) \in Nat
  <2>1. IsFiniteSet(1..Len(hits)) /\ E \in SUBSET (1..Len(hits))
    BY SMT, <1>1, FS_Interval
  <2> HIDE DEF E
  <2> QED
    BY <2>1, FS_Subset, FS_CardinalityType
<1>7. RequiredBlocks(total) \in Nat
  <2>1. Min2(total, MaxModelLen) \in Nat
    BY SMT, SizesAssumption, <1>1 DEF GoodCall, Min2, KVInv, KVTypeOK
  <2> QED
    BY <2>1, SizesAssumption, CdivFacts DEF RequiredBlocks
<1>8. n \in Nat /\ n <= Len(queue)
  <2> DEFINE d == RequiredBlocks(total) - Len(req_to_blocks[r]) - Len(hits)
  <2>1. d \in Int /\ n = (IF d <= 0 THEN 0 ELSE d) /\ Len(queue) \in Nat
    BY SMT, <1>1, <1>4, <1>7 DEF NumFresh
  <2>2. d + Cardinality(E) <= Len(fq)
    <3>1. RequiredBlocks(total) - Len(hits) - Len(req_to_blocks[r]) + Cardinality(E) <= Len(fq)
      BY DEF GoodCall, CanAllocate, get_num_blocks_to_allocate
    <3> HIDE DEF E, fq
    <3> QED
      BY SMT, <3>1, <1>1, <1>6, <1>7
  <2>3. Len(fq) \in Nat
    BY SMT, <1>1
  <2> HIDE DEF d, E, fq, queue, n
  <2> QED
    BY SMT, <2>1, <2>2, <2>3, <1>5, <1>6
<1>9. /\ fresh \in Seq(Block) /\ NoDup(fresh) /\ Len(fresh) = n
      /\ rest \in Seq(Block) /\ NoDup(rest)
      /\ Range(fresh) \subseteq Range(queue) /\ Range(rest) = Range(queue) \ Range(fresh)
  <2>1. fresh = SubSeq(queue, 1, n)
    BY DEF Fresh
  <2>2. n \in 0..Len(queue)
    BY SMT, <1>8, <1>4
  <2> HIDE DEF queue, n, fresh
  <2> QED
    BY SMT, <2>1, <2>2, <1>4, SplitNoDup
<1> HIDE DEF queue, n, fresh, rest
<1>10. Range(queue) = {b \in Block \ {NullBlock} : ref_cnt[b] = 0 /\ b \notin Range(hits)}
  BY <1>1, <1>4
<1>11. \A b \in Range(fresh) : b \in Block /\ b # NullBlock /\ ref_cnt[b] = 0 /\ b \notin Range(hits)
  BY <1>9, <1>10
<1>12. Range(rest) = {b \in Block \ {NullBlock} :
                        ref_cnt[b] = 0 /\ b \notin Range(hits) \cup Range(fresh)}
  BY <1>9, <1>10
<1> QED
  BY <1>4, <1>8, <1>9, <1>11, <1>12 DEF queue, n, fresh, rest

(* The new block list: what the request held, the hits, the fresh blocks.   *)
NewBlockList(r, total, hits) == req_to_blocks[r] \o hits \o Fresh(r, total, hits)

(* It has no block twice, and its three parts are where one expects them.   *)
LEMMA BlockListFacts ==
    ASSUME KVInv, NEW r \in RequestIds, NEW total, NEW hits, GoodCall(r, total, hits)
    PROVE  LET fresh == Fresh(r, total, hits)
               blks == NewBlockList(r, total, hits)
           IN  /\ blks \in Seq(Block) /\ NoDup(blks) /\ NullBlock \notin Range(blks)
               /\ Range(blks) = Range(req_to_blocks[r]) \cup Range(hits) \cup Range(fresh)
               /\ Range(req_to_blocks[r]) \cap Range(hits) = {}
               /\ \A i \in 1..Len(req_to_blocks[r]) : i <= Len(blks) /\ blks[i] = req_to_blocks[r][i]
               /\ req_to_blocks[r] = << >> =>
                      \A i \in 1..Len(hits) : i <= Len(blks) /\ blks[i] = hits[i]
               /\ \A i \in 1..Len(blks) : i > Len(req_to_blocks[r]) + Len(hits) => blks[i] \in Range(fresh)
               /\ RequiredBlocks(total) <= Len(blks)
<1> USE SMT
<1> DEFINE old == req_to_blocks[r]
           fresh == Fresh(r, total, hits)
           blks == NewBlockList(r, total, hits)
<1>1. /\ old \in Seq(Block) /\ NoDup(old) /\ NullBlock \notin Range(old)
      /\ hits \in Seq(Block) /\ NoDup(hits) /\ NullBlock \notin Range(hits)
  BY Zenon DEF KVInv, KVTypeOK, RefCountIsHolders, GoodCall, GoodHits
<1>2. /\ fresh \in Seq(Block) /\ NoDup(fresh) /\ Len(fresh) = NumFresh(r, total, hits)
      /\ \A b \in Range(fresh) : b # NullBlock /\ ref_cnt[b] = 0 /\ b \notin Range(hits)
  BY FreshFacts
<1>3. Range(old) \cap Range(hits) = {}
  <2>1. Tracked(r) => Range(hits) = {}
    BY DEF GoodCall, Range
  <2>2. ~ Tracked(r) => Range(old) = {}
    BY DEF KVInv, CachedBlocksAreOwnPrefix, Range
  <2> QED
    BY Zenon, <2>1, <2>2
<1>4. Range(old) \cap Range(fresh) = {}
  <2>1. \A b \in Range(old) : ref_cnt[b] > 0
    BY Zenon, HeldIsReferenced
  <2> QED
    BY <2>1, <1>2
<1>0. blks = old \o hits \o fresh
  BY Zenon DEF NewBlockList
<1> HIDE DEF old, fresh, blks
<1>5. old \o hits \in Seq(Block) /\ NoDup(old \o hits) /\ Range(old \o hits) = Range(old) \cup Range(hits)
  BY <1>1, <1>3, NoDupConcat, RangeConcat
<1>6. Range(old \o hits) \cap Range(fresh) = {}
  BY Zenon, <1>5, <1>4, <1>2
<1>7. blks \in Seq(Block) /\ NoDup(blks) /\ Range(blks) = Range(old) \cup Range(hits) \cup Range(fresh)
  <2> DEFINE pre == old \o hits
  <2>0. pre \in Seq(Block) /\ NoDup(pre) /\ Range(pre) \cap Range(fresh) = {}
    BY Zenon, <1>5, <1>6
  <2> HIDE DEF pre
  <2>1. NoDup(pre \o fresh) /\ Range(pre \o fresh) = Range(pre) \cup Range(fresh) /\ pre \o fresh \in Seq(Block)
    BY <1>2, <2>0, NoDupConcat, RangeConcat
  <2> QED
    BY Zenon, <2>1, <1>5, <1>0 DEF pre
<1>8. old \in Seq(Block) /\ hits \in Seq(Block) /\ fresh \in Seq(Block)
  BY Zenon, <1>1, <1>2
<1>9. /\ Len(blks) = Len(old) + Len(hits) + Len(fresh)
      /\ \A i \in 1..Len(old) : i <= Len(blks) /\ blks[i] = old[i]
      /\ \A i \in 1..Len(hits) : Len(old) + i <= Len(blks) /\ blks[Len(old) + i] = hits[i]
      /\ \A i \in 1..Len(fresh) : blks[Len(old) + Len(hits) + i] = fresh[i]
  <2>1. Len(blks) = Len(old) + Len(hits) + Len(fresh)
    BY <1>0, <1>8
  <2>2. \A i \in 1..Len(old) : i <= Len(blks) /\ blks[i] = old[i]
    BY <1>0, <1>8
  <2>3. \A i \in 1..Len(hits) : Len(old) + i <= Len(blks) /\ blks[Len(old) + i] = hits[i]
    BY <1>0, <1>8
  <2>4. \A i \in 1..Len(fresh) : blks[Len(old) + Len(hits) + i] = fresh[i]
    BY <1>0, <1>8
  <2> QED
    BY Zenon, <2>1, <2>2, <2>3, <2>4
<1>10. old = << >> => \A i \in 1..Len(hits) : i <= Len(blks) /\ blks[i] = hits[i]
  <2> SUFFICES ASSUME old = << >>, NEW i \in 1..Len(hits) PROVE i <= Len(blks) /\ blks[i] = hits[i]
    BY Zenon
  <2>1. Len(old) + i = i
    BY <1>1
  <2> QED
    BY Zenon, <1>9, <2>1
<1>11. ASSUME NEW i \in 1..Len(blks), i > Len(old) + Len(hits) PROVE blks[i] \in Range(fresh)
  <2>1. Len(old) \in Nat /\ Len(hits) \in Nat /\ Len(fresh) \in Nat
    BY <1>1, <1>2
  <2>2. PICK j \in 1..Len(fresh) : i = Len(old) + Len(hits) + j
    <3>1. i - (Len(old) + Len(hits)) \in 1..Len(fresh)
      BY <2>1, <1>9, <1>11
    <3>2. i = Len(old) + Len(hits) + (i - (Len(old) + Len(hits)))
      BY <2>1
    <3> QED
      BY Zenon, <3>1, <3>2
  <2>3. blks[i] = fresh[j]
    BY Zenon, <1>9, <2>2
  <2> QED
    BY Zenon, <1>2, <2>2, <2>3, InRange
<1>12. RequiredBlocks(total) <= Len(blks)
  <2>1. Len(old) \in Nat /\ Len(hits) \in Nat
    BY <1>1
  <2>2. RequiredBlocks(total) \in Nat
    <3>1. Min2(total, MaxModelLen) \in Nat
      BY SizesAssumption DEF GoodCall, Min2, KVInv, KVTypeOK
    <3> QED
      BY Zenon, <3>1, SizesAssumption, CdivFacts DEF RequiredBlocks
  <2> QED
    BY <2>1, <2>2, <1>2, <1>9 DEF NumFresh, old
<1>13. NullBlock \notin Range(blks)
  BY Zenon, <1>1, <1>2, <1>7
<1> QED
  BY <1>3, <1>7, <1>9, <1>10, <1>11, <1>12, <1>13 DEF old, fresh, blks

(* The positions that allocate_slots caches lie in the new list, beyond the *)
(* blocks that are cached already, and cover only tokens the request has.   *)
LEMMA NewlyFullFacts ==
    ASSUME KVInv, NEW r \in RequestIds, NEW total, NEW hits, GoodCall(r, total, hits)
    PROVE  LET fresh == Fresh(r, total, hits)
               blks == NewBlockList(r, total, hits)
               I == NewlyFull(r, total, hits)
               c == IF Tracked(r) THEN num_cached_block[r] ELSE Len(hits)
           IN  /\ c \in Nat /\ NumFull(r, total) \in Nat
               /\ c <= NumFull(r, total) /\ NumFull(r, total) <= Len(blks)
               /\ NumFull(r, total) * BlockSize <= Len(all_token_ids[r])
               /\ I = (c + 1) .. NumFull(r, total)
               /\ \A i \in 1 .. NumFull(r, total) : i * BlockSize <= Len(all_token_ids[r])
               /\ \A i \in I : i \in 1..Len(blks) /\ blks[i] # NullBlock
               /\ \A i \in I : blks[i] \notin Range(fresh) => block_hash[blks[i]] = NoHash
<1> USE SMT
<1> DEFINE toks == all_token_ids[r]
           fresh == Fresh(r, total, hits)
           blks == NewBlockList(r, total, hits)
           I == NewlyFull(r, total, hits)
           c == IF Tracked(r) THEN num_cached_block[r] ELSE Len(hits)
           f == NumFull(r, total)
<1>1. /\ total \in Nat /\ total <= Len(toks) /\ total <= MaxModelLen /\ Len(toks) \in Nat
      /\ BlockSize \in Nat \ {0} /\ MaxModelLen \in Nat
  BY SizesAssumption DEF GoodCall, KVInv, KVTypeOK
<1>2. c \in Nat
  BY DEF KVInv, KVTypeOK, Tracked, GoodCall, GoodHits
<1>3. f = total \div BlockSize
  <2>1. Min2(total, Len(toks)) = total
    BY <1>1 DEF Min2
  <2> QED
    BY Zenon, <2>1 DEF NumFull
<1>4. f \in Nat /\ f * BlockSize <= total /\ total < (f + 1) * BlockSize
  BY Zenon, <1>1, <1>3, DivFacts
<1>5. c * BlockSize < total
  BY Zenon DEF GoodCall
<1> HIDE DEF c, f, toks
<1>6. c <= f
  <2> SUFFICES ASSUME f < c PROVE FALSE
    BY <1>2, <1>4
  <2>1. f + 1 = c \/ f + 1 < c
    BY <1>2, <1>4
  <2>2. f + 1 < c => (f + 1) * BlockSize < c * BlockSize
    BY <1>1, <1>2, <1>4, MultMono
  <2>3. (f + 1) * BlockSize \in Int /\ c * BlockSize \in Int
    BY <1>1, <1>2, <1>4
  <2> QED
    BY <2>1, <2>2, <2>3, <1>1, <1>4, <1>5
<1>7. f <= Len(blks)
  <2>1. RequiredBlocks(total) = cdiv(total, BlockSize)
    BY <1>1 DEF RequiredBlocks, Min2
  <2>2. f <= cdiv(total, BlockSize)
    <3>1. total <= total /\ total \in Nat /\ BlockSize \in Nat \ {0}
      BY <1>1
    <3>2. total \div BlockSize <= cdiv(total, BlockSize)
      BY Zenon, <3>1, FullBlocksCovered
    <3> QED
      BY Zenon, <3>2, <1>3
  <2>3. RequiredBlocks(total) <= Len(blks) /\ blks \in Seq(Block)
    BY Zenon, BlockListFacts
  <2> HIDE DEF blks
  <2>4. cdiv(total, BlockSize) \in Nat /\ Len(blks) \in Nat
    <3>1. total \in Nat /\ BlockSize \in Nat \ {0}
      BY Zenon, <1>1
    <3>2. cdiv(total, BlockSize) \in Nat
      BY Zenon, <3>1, CdivFacts
    <3> QED
      BY <2>3, <3>2
  <2> QED
    BY <2>1, <2>2, <2>3, <2>4, <1>4
<1>8. f * BlockSize <= Len(toks)
  <2>1. f * BlockSize \in Int
    BY <1>1, <1>4
  <2> QED
    BY <2>1, <1>1, <1>4
<1>9. ASSUME NEW i \in 1..f PROVE i * BlockSize <= Len(toks)
  <2>1. (i < f \/ i = f) /\ i \in Nat
    BY <1>4
  <2>2. i < f => i * BlockSize < f * BlockSize
    BY Zenon, <2>1, <1>1, <1>4, MultMono
  <2>3. i * BlockSize \in Int /\ f * BlockSize \in Int
    BY <2>1, <1>1, <1>4
  <2> QED
    BY <2>1, <2>2, <2>3, <1>1, <1>8
<1>10. I = (c + 1) .. f
  BY Zenon DEF NewlyFull, c, f
<1>11. ASSUME NEW i \in I
       PROVE  /\ i \in 1..Len(blks) /\ blks[i] # NullBlock
              /\ blks[i] \notin Range(fresh) => block_hash[blks[i]] = NoHash
  <2>1. i \in Int /\ c < i /\ i <= f
    BY <1>10, <1>2, <1>4
  <2>2. blks \in Seq(Block) /\ NullBlock \notin Range(blks)
    BY Zenon, BlockListFacts
  <2>3. Len(blks) \in Nat
    BY <2>2
  <2>4. i \in 1..Len(blks)
    BY <2>1, <2>3, <1>2, <1>4, <1>7
  <2>5. blks[i] # NullBlock
    <3> HIDE DEF blks
    <3> QED
      BY Zenon, <2>2, <2>4, InRange
  <2>6. ASSUME blks[i] \notin Range(fresh) PROVE block_hash[blks[i]] = NoHash
    <3>1. ~ (i > Len(req_to_blocks[r]) + Len(hits))
      BY Zenon, <2>4, <2>6, BlockListFacts
    <3>2. Len(req_to_blocks[r]) \in Nat /\ Len(hits) \in Nat
      BY DEF KVInv, KVTypeOK, GoodCall, GoodHits
    <3>3. Tracked(r)
      <4> SUFFICES ASSUME ~ Tracked(r) PROVE FALSE
        BY Zenon
      <4>1. req_to_blocks[r] = << >> /\ c = Len(hits)
        BY Zenon DEF KVInv, CachedBlocksAreOwnPrefix, c
      <4>2. Len(req_to_blocks[r]) = 0
        BY <4>1
      <4> QED
        BY <4>1, <4>2, <3>1, <3>2, <2>1
    <3>4. hits = << >> /\ c = num_cached_block[r]
      BY Zenon, <3>3 DEF GoodCall, c
    <3>5. Len(hits) = 0
      BY Zenon, <3>4
    <3>6. i \in 1..Len(req_to_blocks[r])
      BY <3>1, <3>2, <3>5, <2>1, <2>4
    <3>7. blks[i] = req_to_blocks[r][i]
      BY <3>6, BlockListFacts
    <3>8. ~ (i <= num_cached_block[r])
      BY <3>4, <2>1, <1>2
    <3> QED
      BY Zenon, <3>3, <3>6, <3>7, <3>8 DEF KVInv, CachedBlocksAreOwnPrefix
  <2> QED
    BY Zenon, <2>4, <2>5, <2>6
<1> QED
  BY <1>2, <1>4, <1>6, <1>7, <1>8, <1>9, <1>10, <1>11 DEF c, f, toks

(* allocate_slots gives r one reference to every hit and to every fresh     *)
(* block, and takes exactly those from the free queue.                     *)
LEMMA AllocateCounts ==
    ASSUME KVInv, NEW r \in RequestIds, NEW total, NEW hits, GoodCall(r, total, hits),
           allocate_slots(r, total, hits)
    PROVE  /\ ref_cnt' \in [Block -> Int] /\ free_block_queue' \in Seq(Block)
           /\ req_to_blocks' \in [RequestIds -> Seq(Block)]
           /\ RefCountIsHolders' /\ FreeQueueIsUnreferenced'
<1> DEFINE fresh == Fresh(r, total, hits)
           blks == NewBlockList(r, total, hits)
           New == Range(hits) \cup Range(fresh)
<1>1. /\ hits \in Seq(Block) /\ NoDup(hits) /\ NullBlock \notin Range(hits)
      /\ ref_cnt \in [Block -> Int] /\ req_to_blocks \in [RequestIds -> Seq(Block)]
  BY DEF GoodCall, GoodHits, KVInv, KVTypeOK
<1>2. /\ fresh \in Seq(Block) /\ NoDup(fresh)
      /\ \A b \in Range(fresh) : b # NullBlock /\ ref_cnt[b] = 0 /\ b \notin Range(hits)
  BY SMT, FreshFacts
<1>3. /\ blks \in Seq(Block) /\ NoDup(blks) /\ NullBlock \notin Range(blks)
      /\ Range(blks) = Range(req_to_blocks[r]) \cup New
  BY SMT, BlockListFacts
<1>4. New \cap Range(req_to_blocks[r]) = {}
  <2>1. Range(req_to_blocks[r]) \cap Range(hits) = {}
    BY BlockListFacts
  <2>2. \A b \in Range(req_to_blocks[r]) : ref_cnt[b] > 0
    BY HeldIsReferenced
  <2> QED
    BY SMT, <2>1, <2>2, <1>2
<1>5. /\ req_to_blocks' = [req_to_blocks EXCEPT ![r] = blks]
      /\ ref_cnt' = [b \in Block |-> ref_cnt[b] + Count(hits, b) + Count(fresh, b)]
  BY DEF allocate_slots, NewBlockList
<1> HIDE DEF fresh, blks
<1>6. ref_cnt' = [b \in Block |-> ref_cnt[b] + (IF b \in New THEN 1 ELSE 0)]
  <2>1. \A b \in Block : /\ Count(hits, b) = IF b \in Range(hits) THEN 1 ELSE 0
                        /\ Count(fresh, b) = IF b \in Range(fresh) THEN 1 ELSE 0
    BY <1>1, <1>2, CountNoDup
  <2>2. \A b \in Block : Count(hits, b) + Count(fresh, b) = IF b \in New THEN 1 ELSE 0
    BY SMT, <2>1, <1>2
  <2>3. \A b \in Block : Count(hits, b) \in Int /\ Count(fresh, b) \in Int /\ ref_cnt[b] \in Int
    BY SMT, <2>1, <1>1
  <2>4. \A b \in Block : ref_cnt[b] + Count(hits, b) + Count(fresh, b)
                            = ref_cnt[b] + (IF b \in New THEN 1 ELSE 0)
    <3> SUFFICES ASSUME NEW b \in Block
                 PROVE  ref_cnt[b] + Count(hits, b) + Count(fresh, b)
                            = ref_cnt[b] + (IF b \in New THEN 1 ELSE 0)
      OBVIOUS
    <3> HIDE DEF New
    <3> QED
      BY SMT, <2>2, <2>3
  <2> QED
    BY <1>5, <2>4
<1> HIDE DEF New
<1>7. req_to_blocks' \in [RequestIds -> Seq(Block)] /\ ref_cnt' \in [Block -> Int]
  <2>1. req_to_blocks' \in [RequestIds -> Seq(Block)]
    BY <1>1, <1>3, <1>5
  <2>2. \A b \in Block : ref_cnt[b] + (IF b \in New THEN 1 ELSE 0) \in Int
    BY SMT, <1>1
  <2>3. ref_cnt' \in [Block -> Int]
    BY <1>6, <2>2
  <2> QED
    BY <2>1, <2>3
<1>8. ASSUME NEW b \in Block \ {NullBlock} PROVE ref_cnt'[b] = Cardinality(Holders(b)')
  <2>1. ref_cnt[b] = Cardinality(Holders(b)) /\ IsFiniteSet(Holders(b))
    BY RequestIdsAssumption, FS_Subset DEF KVInv, RefCountIsHolders, Holders
  <2>2. \A q \in RequestIds : b \in Range(req_to_blocks'[q]) <=>
            (b \in Range(req_to_blocks[q]) \/ (q = r /\ b \in New))
    BY <1>1, <1>3, <1>5
  <2>3. CASE b \in New
    <3>1. Holders(b)' = Holders(b) \cup {r} /\ r \notin Holders(b)
      BY <2>2, <2>3, <1>4 DEF Holders
    <3>2. Cardinality(Holders(b)') = Cardinality(Holders(b)) + 1
      BY <3>1, <2>1, FS_AddElement
    <3> QED
      BY <3>2, <2>1, <2>3, <1>6
  <2>4. CASE b \notin New
    <3>1. Holders(b)' = Holders(b)
      BY <2>2, <2>4 DEF Holders
    <3>2. ref_cnt'[b] = ref_cnt[b]
      BY SMT, <2>4, <1>1, <1>6
    <3> QED
      BY <3>1, <3>2, <2>1
  <2> QED
    BY <2>3, <2>4
<1>9. RefCountIsHolders'
  <2>1. \A q \in RequestIds : NoDup(req_to_blocks[q]) /\ NullBlock \notin Range(req_to_blocks[q])
    BY DEF KVInv, RefCountIsHolders
  <2>2. \A q \in RequestIds : NoDup(req_to_blocks'[q]) /\ NullBlock \notin Range(req_to_blocks'[q])
    BY <2>1, <1>1, <1>3, <1>5
  <2> QED
    BY <2>2, <1>8 DEF RefCountIsHolders
<1>10. /\ free_block_queue' \in Seq(Block) /\ NoDup(free_block_queue')
       /\ Range(free_block_queue') = {b \in Block \ {NullBlock} : ref_cnt[b] = 0 /\ b \notin New}
  <2>1. free_block_queue' = SubSeq(TouchedQueue(hits), NumFresh(r, total, hits) + 1, Len(TouchedQueue(hits)))
    BY DEF allocate_slots
  <2> QED
    BY <2>1, FreshFacts DEF New, fresh
<1>11. FreeQueueIsUnreferenced'
  <2>1. \A b \in Block \ {NullBlock} : ref_cnt'[b] = 0 <=> (ref_cnt[b] = 0 /\ b \notin New)
    <3> SUFFICES ASSUME NEW b \in Block \ {NullBlock}
                 PROVE  ref_cnt'[b] = 0 <=> (ref_cnt[b] = 0 /\ b \notin New)
      OBVIOUS
    <3>1. ref_cnt[b] \in Nat
      BY CountIsNat
    <3> QED
      BY SMT, <3>1, <1>6
  <2> QED
    BY <2>1, <1>10 DEF FreeQueueIsUnreferenced
<1> QED
  BY <1>7, <1>9, <1>10, <1>11

(* allocate_slots caches the blocks it has filled, and evicts only blocks   *)
(* that no request holds.                                                  *)
LEMMA AllocateHashes ==
    ASSUME KVInv, NEW r \in RequestIds, NEW total, NEW hits, GoodCall(r, total, hits),
           allocate_slots(r, total, hits)
    PROVE  LET blks == NewBlockList(r, total, hits)
               I == NewlyFull(r, total, hits)
           IN
           /\ MapOK(block_hash', cached_block_hash_to_block') /\ ~ assert_failed'
           /\ \A i \in I : block_hash'[blks[i]] = BlockHash(all_token_ids[r], i)
           /\ \A b \in Block : (\A i \in I : blks[i] # b) =>
                  block_hash'[b] = IF b \in Range(Fresh(r, total, hits)) THEN NoHash ELSE block_hash[b]
<1> DEFINE toks == all_token_ids[r]
           fresh == Fresh(r, total, hits)
           blks == NewBlockList(r, total, hits)
           I == NewlyFull(r, total, hits)
           B == Range(fresh)
           bh == EvictHash(block_hash, cached_block_hash_to_block, B)
           map == EvictMap(block_hash, cached_block_hash_to_block, B)
<1>1. toks \in Seq(Tokens)
  BY DEF KVInv, KVTypeOK
<1>2. /\ B \in SUBSET Block
      /\ \A b \in B : ref_cnt[b] = 0 /\ b \notin Range(hits)
      /\ NumFresh(r, total, hits) <= Len(TouchedQueue(hits))
  BY SMT, FreshFacts
<1>3. MapOK(bh, map) /\ \A b \in Block : bh[b] = IF b \in B THEN NoHash ELSE block_hash[b]
  BY SMT, <1>2, MapOKOfInv, EvictOK
<1>4. blks \in Seq(Block) /\ NoDup(blks)
  BY BlockListFacts
<1>5. /\ \A i \in I : i \in 1..Len(blks) /\ blks[i] # NullBlock /\ i * BlockSize <= Len(toks)
      /\ \A i \in I : blks[i] \notin B => block_hash[blks[i]] = NoHash
  <2> DEFINE n == NumFull(r, total)
             c == IF Tracked(r) THEN num_cached_block[r] ELSE Len(hits)
  <2>1. I = (c + 1) .. n /\ c \in Nat /\ n \in Nat
    BY NewlyFullFacts
  <2>2. \A i \in 1..n : i * BlockSize <= Len(toks)
    BY NewlyFullFacts
  <2>3. \A i \in I : i \in 1..Len(blks) /\ blks[i] # NullBlock
    BY NewlyFullFacts
  <2>4. \A i \in I : blks[i] \notin B => block_hash[blks[i]] = NoHash
    BY SMT, NewlyFullFacts
  <2> HIDE DEF n, c, toks, I, blks, B
  <2>5. \A i \in I : i \in 1..n
    BY SMT, <2>1
  <2> QED
    BY <2>2, <2>3, <2>4, <2>5
<1>6. /\ block_hash' = StoreHash(bh, toks, blks, I)
      /\ cached_block_hash_to_block' = StoreMap(map, toks, blks, I)
      /\ assert_failed' =
           ~ /\ IF Tracked(r) THEN hits = << >> ELSE req_to_blocks[r] = << >>
             /\ NumFresh(r, total, hits) <= Len(TouchedQueue(hits))
             /\ \A b \in B : ref_cnt[b] + Count(hits, b) = 0
             /\ \A i \in I : i <= Len(blks) /\ bh[blks[i]] = NoHash
  BY DEF allocate_slots, NewBlockList
<1>7. IF Tracked(r) THEN hits = << >> ELSE req_to_blocks[r] = << >>
  BY DEF GoodCall, KVInv, CachedBlocksAreOwnPrefix
<1>8. \A b \in B : ref_cnt[b] + Count(hits, b) = 0
  <2>1. hits \in Seq(Block) /\ NoDup(hits)
    BY DEF GoodCall, GoodHits
  <2>2. \A b \in B : Count(hits, b) = 0
    BY <2>1, <1>2, CountNoDup
  <2> QED
    BY SMT, <2>2, <1>2
<1> HIDE DEF toks, fresh, blks, I, B, bh, map
<1>9. I \in SUBSET (1..Len(blks)) /\ \A i \in I : blks[i] \in Block
  BY SMT, <1>4, <1>5
<1>10. \A i \in I : /\ i * BlockSize <= Len(toks)
                    /\ bh[blks[i]] = NoHash /\ blks[i] # NullBlock /\ i <= Len(blks)
  BY SMT, <1>3, <1>4, <1>5, <1>9
<1>11. /\ MapOK(block_hash', cached_block_hash_to_block')
       /\ \A i \in I : block_hash'[blks[i]] = BlockHash(toks, i)
       /\ \A b \in Block : (\A i \in I : blks[i] # b) => block_hash'[b] = bh[b]
  <2>1. \A i \in I : /\ i * BlockSize <= Len(toks)
                     /\ bh[blks[i]] = NoHash /\ blks[i] # NullBlock
    BY <1>10
  <2>2. /\ MapOK(StoreHash(bh, toks, blks, I), StoreMap(map, toks, blks, I))
        /\ \A i \in I : StoreHash(bh, toks, blks, I)[blks[i]] = BlockHash(toks, i)
        /\ \A b \in Block : (\A i \in I : blks[i] # b) => StoreHash(bh, toks, blks, I)[b] = bh[b]
    <3>1. MapOK(bh, map) /\ blks \in Seq(Block) /\ NoDup(blks) /\ I \in SUBSET (1..Len(blks))
      BY <1>3, <1>4, <1>9
    <3> QED
      BY <3>1, <2>1, <1>1, StoreOK
  <2> QED
    BY <2>2, <1>6
<1>12. ~ assert_failed'
  BY <1>2, <1>6, <1>7, <1>8, <1>10
<1>13. \A b \in Block : (\A i \in I : blks[i] # b) =>
           block_hash'[b] = IF b \in B THEN NoHash ELSE block_hash[b]
  BY <1>3, <1>11
<1> QED
  BY <1>11, <1>12, <1>13 DEF toks, fresh, blks, I, B

LEMMA AllocateOK ==
    ASSUME KVInv, NEW r \in RequestIds, NEW total, NEW hits, GoodCall(r, total, hits),
           allocate_slots(r, total, hits)
    PROVE  KVInv'
<1> DEFINE toks == all_token_ids[r]
           old == req_to_blocks[r]
           fresh == Fresh(r, total, hits)
           blks == NewBlockList(r, total, hits)
           I == NewlyFull(r, total, hits)
           n == NumFull(r, total)
           c == IF Tracked(r) THEN num_cached_block[r] ELSE Len(hits)
<1>1. /\ req_to_blocks' = [req_to_blocks EXCEPT ![r] = blks]
      /\ num_cached_block' = [num_cached_block EXCEPT ![r] = n]
      /\ all_token_ids' = all_token_ids
  BY DEF allocate_slots, NewBlockList
<1>2. /\ req_to_blocks \in [RequestIds -> Seq(Block)] /\ toks \in Seq(Tokens)
      /\ num_cached_block \in [RequestIds -> Nat \cup {NotTracked}]
      /\ hits \in Seq(Block)
      /\ \A i \in 1..Len(hits) : block_hash[hits[i]] = BlockHash(toks, i)
  BY DEF KVInv, KVTypeOK, GoodCall, GoodHits
<1>3. /\ blks \in Seq(Block) /\ NoDup(blks)
      /\ Range(blks) = Range(old) \cup Range(hits) \cup Range(fresh)
      /\ \A i \in 1..Len(old) : i <= Len(blks) /\ blks[i] = old[i]
      /\ old = << >> => \A i \in 1..Len(hits) : i <= Len(blks) /\ blks[i] = hits[i]
      /\ \A i \in 1..Len(blks) : i > Len(old) + Len(hits) => blks[i] \in Range(fresh)
  BY SMT, BlockListFacts
<1>4. /\ c \in Nat /\ n \in Nat /\ c <= n /\ n <= Len(blks) /\ n * BlockSize <= Len(toks)
      /\ I = (c + 1) .. n
      /\ \A i \in 1..n : i * BlockSize <= Len(toks)
  BY NewlyFullFacts
<1>5. /\ \A i \in I : i \in 1..Len(blks)
      /\ \A i \in I : blks[i] \notin Range(fresh) => block_hash[blks[i]] = NoHash
  BY SMT, NewlyFullFacts
<1>6. /\ MapOK(block_hash', cached_block_hash_to_block') /\ ~ assert_failed'
      /\ \A i \in I : block_hash'[blks[i]] = BlockHash(toks, i)
      /\ \A b \in Block : (\A i \in I : blks[i] # b) =>
             block_hash'[b] = IF b \in Range(fresh) THEN NoHash ELSE block_hash[b]
  BY SMT, AllocateHashes
<1>7. \A b \in Range(fresh) : ref_cnt[b] = 0 /\ b \notin Range(hits)
  BY SMT, FreshFacts
<1>8. \A q \in RequestIds : \A b \in Range(req_to_blocks[q]) : b \in Block /\ b \notin Range(fresh)
  <2> SUFFICES ASSUME NEW q \in RequestIds, NEW b \in Range(req_to_blocks[q])
               PROVE  b \in Block /\ b \notin Range(fresh)
    OBVIOUS
  <2>1. b \in Block /\ ref_cnt[b] > 0
    BY HeldIsReferenced
  <2> HIDE DEF fresh
  <2> QED
    BY SMT, <2>1, <1>7
<1>9. IF Tracked(r)
      THEN /\ hits = << >> /\ c = num_cached_block[r] /\ c <= Len(old)
           /\ \A i \in 1..Len(old) :
                 block_hash[old[i]] = IF i <= c THEN BlockHash(toks, i) ELSE NoHash
      ELSE old = << >> /\ c = Len(hits)
  BY DEF GoodCall, KVInv, CachedBlocksAreOwnPrefix
<1>10. \A b \in Range(hits) : block_hash[b] # NoHash
  <2> SUFFICES ASSUME NEW b \in Range(hits) PROVE block_hash[b] # NoHash
    OBVIOUS
  <2>1. PICK i \in 1..Len(hits) : hits[i] = b
    BY <1>2, InRange
  <2>2. CASE Tracked(r)
    BY SMT, <2>1, <2>2, <1>9
  <2>3. CASE ~ Tracked(r)
    <3>1. i \in Nat /\ i > 0 /\ i \in 1..n
      BY SMT, <2>1, <2>3, <1>2, <1>4, <1>9
    <3>2. i * BlockSize <= Len(toks)
      BY <3>1, <1>4
    <3> HIDE DEF toks
    <3>3. BlockHash(toks, i) # NoHash
      BY <3>1, <3>2, <1>2, BlockHashFacts
    <3> QED
      BY <3>3, <2>1, <1>2
  <2> QED
    BY <2>2, <2>3
<1> HIDE DEF toks, fresh, blks, I, n, c
<1>11. ASSUME NEW q \in RequestIds, q # r, NEW b \in Range(req_to_blocks[q])
       PROVE  block_hash'[b] = block_hash[b] /\ (block_hash[b] = NoHash => b \notin Range(blks))
  <2>1. b \in Block /\ b \notin Range(fresh)
    BY <1>8
  <2>2. block_hash[b] = NoHash => b \notin Range(old)
    BY <1>11 DEF KVInv, UncachedBlocksArePrivate
  <2>3. block_hash[b] = NoHash => b \notin Range(blks)
    BY <2>1, <2>2, <1>3, <1>10
  <2>4. \A i \in I : blks[i] # b
    BY SMT, <2>1, <2>3, <1>3, <1>5, InRange
  <2> QED
    BY SMT, <2>1, <2>3, <2>4, <1>6
<1>12. ASSUME NEW i \in 1..Len(blks)
       PROVE  block_hash'[blks[i]] = IF i <= n THEN BlockHash(toks, i) ELSE NoHash
  <2>1. CASE i \in I
    BY SMT, <2>1, <1>4, <1>6
  <2>2. CASE i \notin I
    <3>1. \A j \in I : blks[j] # blks[i]
      BY <2>2, <1>3, <1>5 DEF NoDup
    <3>2. block_hash'[blks[i]] = IF blks[i] \in Range(fresh) THEN NoHash ELSE block_hash[blks[i]]
      BY SMT, <3>1, <1>3, <1>6
    <3>3. CASE i <= c
      <4>1. i <= n /\ i \in 1..c
        BY SMT, <3>3, <1>4
      <4>2. blks[i] \notin Range(fresh) /\ block_hash[blks[i]] = BlockHash(toks, i)
        <5>1. CASE Tracked(r)
          <6>1. i \in 1..Len(old) /\ blks[i] = old[i]
            BY SMT, <5>1, <4>1, <1>2, <1>3, <1>4, <1>9
          <6>2. old[i] \in Range(old)
            BY <6>1, <1>2, InRange
          <6> QED
            BY SMT, <5>1, <6>1, <6>2, <4>1, <1>8, <1>9
        <5>2. CASE ~ Tracked(r)
          <6>1. i \in 1..Len(hits) /\ blks[i] = hits[i]
            BY <5>2, <4>1, <1>2, <1>3, <1>9
          <6>2. hits[i] \in Range(hits)
            BY <6>1, <1>2, InRange
          <6> QED
            BY <6>1, <6>2, <1>2, <1>7
        <5> QED
          BY <5>1, <5>2
      <4> QED
        BY <4>1, <4>2, <3>2
    <3>4. CASE ~ (i <= c)
      <4>1. ~ (i <= n)
        BY SMT, <3>4, <2>2, <1>4
      <4>2. CASE blks[i] \in Range(fresh)
        BY <4>1, <4>2, <3>2
      <4>3. CASE blks[i] \notin Range(fresh)
        <5>1. i <= Len(old) + Len(hits) /\ Len(old) \in Nat /\ Len(hits) \in Nat
          BY SMT, <4>3, <1>2, <1>3
        <5>2. Tracked(r)
          <6> SUFFICES ASSUME ~ Tracked(r) PROVE FALSE
            OBVIOUS
          <6>1. c = Len(hits) /\ Len(old) = 0
            BY SMT, <1>9
          <6> QED
            BY SMT, <6>1, <5>1, <3>4
        <5>3. Len(hits) = 0
          BY SMT, <5>2, <1>9
        <5>4. i \in 1..Len(old)
          BY SMT, <5>1, <5>3
        <5>5. block_hash[blks[i]] = NoHash
          BY <5>2, <5>4, <3>4, <1>3, <1>9
        <5> QED
          BY <5>5, <4>1, <4>3, <3>2
      <4> QED
        BY <4>2, <4>3
    <3> QED
      BY <3>3, <3>4
  <2> QED
    BY <2>1, <2>2
<1>13. CachedBlocksAreOwnPrefix'
  <2> SUFFICES ASSUME NEW q \in RequestIds
               PROVE  IF num_cached_block'[q] # NotTracked
                      THEN /\ num_cached_block'[q] <= Len(req_to_blocks'[q])
                           /\ num_cached_block'[q] * BlockSize <= Len(all_token_ids[q])
                           /\ \A i \in 1 .. Len(req_to_blocks'[q]) :
                                 block_hash'[req_to_blocks'[q][i]] =
                                     IF i <= num_cached_block'[q]
                                     THEN BlockHash(all_token_ids[q], i) ELSE NoHash
                      ELSE req_to_blocks'[q] = << >>
    BY SMT, <1>1 DEF CachedBlocksAreOwnPrefix, Tracked, BlockHash
  <2>1. CASE q = r
    <3>1. num_cached_block'[q] = n /\ req_to_blocks'[q] = blks
      BY SMT, <2>1, <1>1, <1>2
    <3>2. n # NotTracked
      BY SMT, <1>4 DEF NotTracked
    <3> QED
      BY <2>1, <3>1, <3>2, <1>4, <1>12 DEF toks
  <2>2. CASE q # r
    <3>1. num_cached_block'[q] = num_cached_block[q] /\ req_to_blocks'[q] = req_to_blocks[q]
      BY SMT, <2>2, <1>1, <1>2
    <3>2. \A i \in 1 .. Len(req_to_blocks[q]) :
              block_hash'[req_to_blocks[q][i]] = block_hash[req_to_blocks[q][i]]
      BY <2>2, <1>2, <1>11, InRange
    <3> QED
      BY <3>1, <3>2 DEF KVInv, CachedBlocksAreOwnPrefix, Tracked
  <2> QED
    BY <2>1, <2>2
<1>14. UncachedBlocksArePrivate'
  <2> SUFFICES ASSUME NEW p \in RequestIds, NEW q \in RequestIds, p # q,
                      NEW b \in Range(req_to_blocks'[p]) \cap Range(req_to_blocks'[q])
               PROVE  block_hash'[b] # NoHash
    BY DEF UncachedBlocksArePrivate
  <2>1. /\ req_to_blocks'[r] = blks
        /\ \A x \in RequestIds : x # r => req_to_blocks'[x] = req_to_blocks[x]
    BY <1>1, <1>2
  <2>2. CASE p # r /\ q # r
    <3>1. b \in Range(req_to_blocks[p]) \cap Range(req_to_blocks[q])
      BY <2>1, <2>2
    <3>2. block_hash[b] # NoHash
      BY <3>1 DEF KVInv, UncachedBlocksArePrivate
    <3> QED
      BY <3>1, <3>2, <2>2, <1>11
  <2>3. CASE p = r
    BY <2>1, <2>3, <1>11
  <2>4. CASE q = r
    BY SMT, <2>1, <2>4, <1>11
  <2> QED
    BY SMT, <2>2, <2>3, <2>4
<1>15. HashMapConsistent' /\ AssertsHold'
  BY <1>6 DEF MapOK, HashMapConsistent, AssertsHold
<1>16. KVTypeOK'
  <2>1. num_cached_block' \in [RequestIds -> Nat \cup {NotTracked}]
    BY <1>1, <1>2, <1>4
  <2>2. assert_failed' \in BOOLEAN
    BY DEF allocate_slots
  <2>3. /\ block_hash' \in [Block -> Seq(Tokens)]
        /\ DOMAIN cached_block_hash_to_block' \subseteq Seq(Tokens)
        /\ \A h \in DOMAIN cached_block_hash_to_block' : cached_block_hash_to_block'[h] \in Seq(Block)
    BY <1>6 DEF MapOK
  <2>4. all_token_ids' \in [RequestIds -> Seq(Tokens)] /\ \A q \in RequestIds : Len(all_token_ids'[q]) <= MaxModelLen + 1
    BY <1>1 DEF KVInv, KVTypeOK
  <2> QED
    BY SMT, <2>1, <2>2, <2>3, <2>4, AllocateCounts DEF KVTypeOK
<1> QED
  BY SMT, <1>13, <1>14, <1>15, <1>16, AllocateCounts DEF KVInv

-------------------------------------------------------------------------------
(* allocate_slots leaves the hash of a block that is held. *)
LEMMA AllocateKeepsHeld ==
    ASSUME KVInv, NEW r \in RequestIds, NEW total, NEW hits, GoodCall(r, total, hits),
           allocate_slots(r, total, hits),
           NEW b \in Block, ref_cnt[b] > 0, block_hash[b] # NoHash
    PROVE  block_hash'[b] = block_hash[b]
<1> DEFINE blks == NewBlockList(r, total, hits)
           I == NewlyFull(r, total, hits)
           fresh == Fresh(r, total, hits)
<1>1. b \notin Range(fresh)
  BY SMT, FreshFacts
<1>2. \A i \in I : blks[i] \notin Range(fresh) => block_hash[blks[i]] = NoHash
  BY SMT, NewlyFullFacts
<1> HIDE DEF blks, fresh, I
<1>3. \A i \in I : blks[i] # b
  BY <1>1, <1>2
<1>4. \A x \in Block : (\A i \in I : blks[i] # x) =>
          block_hash'[x] = IF x \in Range(fresh) THEN NoHash ELSE block_hash[x]
  BY SMT, AllocateHashes DEF blks, fresh, I
<1> QED
  BY <1>1, <1>3, <1>4

-------------------------------------------------------------------------------
(* free. *)

LEMMA FreeOK ==
    ASSUME KVInv, NEW r \in RequestIds, free(r)
    PROVE  KVInv'
<1> DEFINE blks == req_to_blocks[r]
           Dead == {b \in Block : ref_cnt'[b] = 0 /\ b # NullBlock}
           tail == Keep(Backwards(blks), Dead)
<1>1. /\ ref_cnt' = [b \in Block |-> ref_cnt[b] - Count(blks, b)]
      /\ free_block_queue' = free_block_queue \o tail
      /\ req_to_blocks' = [req_to_blocks EXCEPT ![r] = << >>]
      /\ num_cached_block' = [num_cached_block EXCEPT ![r] = NotTracked]
      /\ UNCHANGED <<block_hash, cached_block_hash_to_block, all_token_ids, assert_failed>>
  BY DEF free
<1>2. /\ blks \in Seq(Block) /\ NoDup(blks) /\ ref_cnt \in [Block -> Int]
      /\ free_block_queue \in Seq(Block) /\ NoDup(free_block_queue)
      /\ Range(free_block_queue) = {b \in Block \ {NullBlock} : ref_cnt[b] = 0}
      /\ req_to_blocks \in [RequestIds -> Seq(Block)]
      /\ num_cached_block \in [RequestIds -> Nat \cup {NotTracked}]
  BY DEF KVInv, KVTypeOK, RefCountIsHolders, FreeQueueIsUnreferenced
<1>3. \A b \in Range(blks) : b \in Block /\ b # NullBlock /\ ref_cnt[b] > 0
  BY HeldIsReferenced
<1>4. tail \in Seq(Block) /\ NoDup(tail) /\ Range(tail) = Range(blks) \cap Dead
  <2> HIDE DEF blks, Dead
  <2> DEFINE back == Backwards(blks)
  <2>1. back \in Seq(Block) /\ NoDup(back) /\ Range(back) = Range(blks)
    BY <1>2, BackwardsProperties
  <2> HIDE DEF back
  <2>2. Keep(back, Dead) \in Seq(Block) /\ NoDup(Keep(back, Dead)) /\ Range(Keep(back, Dead)) = Range(back) \cap Dead
    BY SMT, <2>1, KeepProperties
  <2> QED
    BY <2>1, <2>2 DEF back
<1> HIDE DEF tail
<1>5. ref_cnt' = [b \in Block |-> ref_cnt[b] - (IF b \in Range(blks) THEN 1 ELSE 0)]
  <2> HIDE DEF blks
  <2>1. \A b \in Block : Count(blks, b) = IF b \in Range(blks) THEN 1 ELSE 0
    BY <1>2, CountNoDup
  <2> QED
    BY <2>1, <1>1
<1>6. ref_cnt' \in [Block -> Int]
  <2>1. \A b \in Block : ref_cnt[b] - (IF b \in Range(blks) THEN 1 ELSE 0) \in Int
    BY SMT, <1>2
  <2> QED
    BY <2>1, <1>5
<1>7. /\ req_to_blocks' \in [RequestIds -> Seq(Block)] /\ req_to_blocks'[r] = << >>
      /\ \A q \in RequestIds : q # r => req_to_blocks'[q] = req_to_blocks[q]
      /\ num_cached_block' \in [RequestIds -> Nat \cup {NotTracked}] /\ num_cached_block'[r] = NotTracked
      /\ \A q \in RequestIds : q # r => num_cached_block'[q] = num_cached_block[q]
  BY SMT, <1>1, <1>2
<1>8. Range(<< >>) = {} /\ NoDup(<< >>)
  BY SMT DEF Range, NoDup
<1> HIDE DEF blks
<1>9. ASSUME NEW b \in Block \ {NullBlock} PROVE ref_cnt'[b] = Cardinality(Holders(b)')
  <2>1. ref_cnt[b] = Cardinality(Holders(b)) /\ IsFiniteSet(Holders(b))
    BY RequestIdsAssumption, FS_Subset DEF KVInv, RefCountIsHolders, Holders
  <2>2. \A q \in RequestIds : b \in Range(req_to_blocks'[q]) <=> (q # r /\ b \in Range(req_to_blocks[q]))
    BY <1>7, <1>8
  <2>3. CASE b \in Range(blks)
    <3>1. Holders(b)' = Holders(b) \ {r} /\ r \in Holders(b)
      BY <2>2, <2>3 DEF Holders, blks
    <3>2. Cardinality(Holders(b)') = Cardinality(Holders(b)) - 1
      BY <3>1, <2>1, FS_RemoveElement
    <3> QED
      BY <3>2, <2>1, <2>3, <1>5
  <2>4. CASE b \notin Range(blks)
    <3>1. Holders(b)' = Holders(b)
      BY <2>2, <2>4 DEF Holders, blks
    <3>2. ref_cnt'[b] = ref_cnt[b]
      BY SMT, <2>4, <1>2, <1>5
    <3> QED
      BY <3>1, <3>2, <2>1
  <2> QED
    BY <2>3, <2>4
<1>10. RefCountIsHolders'
  <2>1. \A q \in RequestIds : NoDup(req_to_blocks[q]) /\ NullBlock \notin Range(req_to_blocks[q])
    BY DEF KVInv, RefCountIsHolders
  <2>2. \A q \in RequestIds : NoDup(req_to_blocks'[q]) /\ NullBlock \notin Range(req_to_blocks'[q])
    BY <2>1, <1>7, <1>8
  <2> QED
    BY <2>2, <1>9 DEF RefCountIsHolders
<1>11. FreeQueueIsUnreferenced' /\ free_block_queue' \in Seq(Block)
  <2>1. Range(free_block_queue) \cap Range(tail) = {}
    BY SMT, <1>2, <1>3, <1>4
  <2> DEFINE fq == free_block_queue
  <2>2. fq \in Seq(Block) /\ NoDup(fq) /\ Range(fq) \cap Range(tail) = {}
    BY <2>1, <1>2
  <2> HIDE DEF fq
  <2>3. fq \o tail \in Seq(Block) /\ NoDup(fq \o tail) /\ Range(fq \o tail) = Range(fq) \cup Range(tail)
    BY SMT, <2>2, <1>4, NoDupConcat, RangeConcat
  <2>4. ASSUME NEW b \in Block \ {NullBlock}
        PROVE  ref_cnt'[b] = 0 <=> (ref_cnt[b] = 0 \/ (b \in Range(blks) /\ b \in Dead))
    <3>1. CASE b \in Range(blks)
      BY SMT, <3>1, <1>3
    <3>2. CASE b \notin Range(blks)
      BY SMT, <3>2, <1>2, <1>5
    <3> QED
      BY <3>1, <3>2
  <2>5. Range(fq \o tail) = {b \in Block \ {NullBlock} : ref_cnt'[b] = 0}
    BY <2>3, <2>4, <1>2, <1>4 DEF fq
  <2> QED
    BY <2>3, <2>5, <1>1 DEF fq, FreeQueueIsUnreferenced
<1>12. HashMapConsistent' /\ AssertsHold'
  BY <1>1 DEF KVInv, HashMapConsistent, AssertsHold
<1>13. CachedBlocksAreOwnPrefix'
  <2> SUFFICES ASSUME NEW q \in RequestIds
               PROVE  IF num_cached_block'[q] # NotTracked
                      THEN /\ num_cached_block'[q] <= Len(req_to_blocks'[q])
                           /\ num_cached_block'[q] * BlockSize <= Len(all_token_ids[q])
                           /\ \A i \in 1 .. Len(req_to_blocks'[q]) :
                                 block_hash[req_to_blocks'[q][i]] =
                                     IF i <= num_cached_block'[q]
                                     THEN BlockHash(all_token_ids[q], i) ELSE NoHash
                      ELSE req_to_blocks'[q] = << >>
    BY SMT, <1>1 DEF CachedBlocksAreOwnPrefix, Tracked, BlockHash
  <2> QED
    BY SMT, <1>7 DEF KVInv, CachedBlocksAreOwnPrefix, Tracked
<1>14. UncachedBlocksArePrivate'
  BY SMT, <1>1, <1>7, <1>8 DEF KVInv, UncachedBlocksArePrivate
<1>15. KVTypeOK'
  BY SMT, <1>1, <1>6, <1>7, <1>11 DEF KVInv, KVTypeOK
<1> QED
  BY SMT, <1>10, <1>11, <1>12, <1>13, <1>14, <1>15 DEF KVInv

-------------------------------------------------------------------------------
(* The invariant. *)

LEMMA InitOK == KVInit => KVInv
<1> SUFFICES ASSUME KVInit PROVE KVInv
  OBVIOUS
<1> DEFINE q == [i \in 1 .. NumBlocks - 1 |-> i]
<1>1. NumBlocks \in Nat /\ NumBlocks - 1 \in Nat /\ MaxModelLen \in Nat
  BY SMT, SizesAssumption
<1>2. q \in Seq(Block) /\ Len(q) = NumBlocks - 1
  BY SMT, <1>1 DEF Block
<1>3. NoDup(q)
  BY <1>2 DEF NoDup
<1>4. Range(q) = Block \ {NullBlock}
  BY SMT, <1>1 DEF Range, Block, NullBlock
<1>5. Range(<< >>) = {} /\ NoDup(<< >>)
  BY SMT DEF Range, NoDup
<1>6. KVTypeOK
  <2>1. ref_cnt \in [Block -> Int] /\ block_hash \in [Block -> Seq(Tokens)] /\ free_block_queue \in Seq(Block)
    BY SMT, <1>2, NoHashIsSeq DEF KVInit
  <2>2. DOMAIN cached_block_hash_to_block = {}
    BY DEF KVInit
  <2>3. req_to_blocks \in [RequestIds -> Seq(Block)] /\ all_token_ids \in [RequestIds -> Seq(Tokens)]
    BY SMT DEF KVInit
  <2>4. \A r \in RequestIds : Len(all_token_ids[r]) <= MaxModelLen + 1
    BY SMT, <1>1 DEF KVInit
  <2>5. num_cached_block \in [RequestIds -> Nat \cup {NotTracked}] /\ assert_failed \in BOOLEAN
    BY DEF KVInit
  <2> QED
    BY <2>1, <2>2, <2>3, <2>4, <2>5 DEF KVTypeOK
<1>7. RefCountIsHolders
  <2>1. \A b \in Block : Holders(b) = {}
    BY <1>5 DEF KVInit, Holders
  <2> QED
    BY <2>1, <1>5, FS_EmptySet DEF KVInit, RefCountIsHolders
<1>8. FreeQueueIsUnreferenced
  <2>1. free_block_queue = q /\ \A b \in Block : ref_cnt[b] = 0
    BY DEF KVInit
  <2> HIDE DEF q
  <2> QED
    BY <2>1, <1>3, <1>4 DEF FreeQueueIsUnreferenced
<1>9. HashMapConsistent
  BY NullIsBlock DEF KVInit, HashMapConsistent
<1>10. CachedBlocksAreOwnPrefix /\ UncachedBlocksArePrivate /\ AssertsHold
  BY <1>5 DEF KVInit, CachedBlocksAreOwnPrefix, UncachedBlocksArePrivate, AssertsHold, Tracked
<1> QED
  BY <1>6, <1>7, <1>8, <1>9, <1>10 DEF KVInv

(* Tokens only grow at the end, or belong to an id that holds no blocks. *)
LEMMA TokensOK ==
    ASSUME KVInv, NEW r \in RequestIds, NEW toks \in Seq(Tokens), Len(toks) <= MaxModelLen + 1,
           all_token_ids' = [all_token_ids EXCEPT ![r] = toks],
           UNCHANGED <<pool, req_to_blocks, num_cached_block, assert_failed>>,
           Tracked(r) => \A i \in Nat : i * BlockSize <= Len(all_token_ids[r]) =>
                             /\ i * BlockSize <= Len(toks)
                             /\ BlockHash(toks, i) = BlockHash(all_token_ids[r], i)
    PROVE  KVInv'
<1>1. /\ all_token_ids \in [RequestIds -> Seq(Tokens)] /\ BlockSize \in Nat \ {0}
      /\ num_cached_block \in [RequestIds -> Nat \cup {NotTracked}]
  BY SizesAssumption DEF KVInv, KVTypeOK
<1>2. KVTypeOK'
  BY <1>1 DEF KVInv, KVTypeOK, pool
<1>3. RefCountIsHolders' /\ FreeQueueIsUnreferenced' /\ HashMapConsistent' /\ UncachedBlocksArePrivate' /\ AssertsHold'
  <2>1. UNCHANGED <<ref_cnt, block_hash, free_block_queue, cached_block_hash_to_block,
                    req_to_blocks, assert_failed>>
    BY DEF pool
  <2>2. RefCountIsHolders' /\ FreeQueueIsUnreferenced'
    BY <2>1 DEF KVInv, RefCountIsHolders, Holders, FreeQueueIsUnreferenced
  <2>3. HashMapConsistent'
    BY <2>1 DEF KVInv, HashMapConsistent
  <2>4. UncachedBlocksArePrivate' /\ AssertsHold'
    BY SMT, <2>1 DEF KVInv, UncachedBlocksArePrivate, AssertsHold
  <2> QED
    BY <2>2, <2>3, <2>4
<1>4. CachedBlocksAreOwnPrefix'
  <2> SUFFICES ASSUME NEW q \in RequestIds
               PROVE  IF Tracked(q)
                      THEN /\ num_cached_block[q] <= Len(req_to_blocks[q])
                           /\ num_cached_block[q] * BlockSize <= Len(all_token_ids'[q])
                           /\ \A i \in 1 .. Len(req_to_blocks[q]) :
                                 block_hash[req_to_blocks[q][i]] =
                                     IF i <= num_cached_block[q]
                                     THEN BlockHash(all_token_ids'[q], i) ELSE NoHash
                      ELSE req_to_blocks[q] = << >>
    BY DEF CachedBlocksAreOwnPrefix, Tracked, BlockHash, pool
  <2>1. IF Tracked(q)
        THEN /\ num_cached_block[q] <= Len(req_to_blocks[q])
             /\ num_cached_block[q] * BlockSize <= Len(all_token_ids[q])
             /\ \A i \in 1 .. Len(req_to_blocks[q]) :
                   block_hash[req_to_blocks[q][i]] =
                       IF i <= num_cached_block[q]
                       THEN BlockHash(all_token_ids[q], i) ELSE NoHash
        ELSE req_to_blocks[q] = << >>
    BY DEF KVInv, CachedBlocksAreOwnPrefix
  <2>2. CASE q = r /\ Tracked(q)
    <3> DEFINE n == num_cached_block[q]
    <3>1. all_token_ids'[q] = toks /\ n \in Nat
      BY <2>2, <1>1 DEF Tracked
    <3>2. n * BlockSize <= Len(toks)
      BY <3>1, <2>1, <2>2
    <3>3. ASSUME NEW i \in 1 .. Len(req_to_blocks[q]), i <= n
          PROVE  BlockHash(toks, i) = BlockHash(all_token_ids[q], i)
      <4>1. i \in Nat /\ (i = n \/ i < n) /\ Len(all_token_ids[q]) \in Nat
        BY SMT, <3>1, <3>3, <1>1
      <4> HIDE DEF n
      <4>2. i < n => i * BlockSize < n * BlockSize
        BY <4>1, <3>1, <1>1, MultMono
      <4>3. i * BlockSize \in Int /\ n * BlockSize \in Int
        BY SMT, <4>1, <3>1, <1>1
      <4>4. n * BlockSize <= Len(all_token_ids[q])
        BY <2>1, <2>2 DEF n
      <4>5. i * BlockSize <= Len(all_token_ids[q])
        BY SMT, <4>1, <4>2, <4>3, <4>4
      <4> QED
        BY <4>1, <4>5, <2>2
    <3> QED
      BY <3>1, <3>2, <3>3, <2>1, <2>2
  <2>3. CASE q # r
    BY <2>1, <2>3, <1>1
  <2>4. CASE ~ Tracked(q)
    BY <2>1, <2>4
  <2> QED
    BY <2>2, <2>3, <2>4
<1> QED
  BY <1>2, <1>3, <1>4 DEF KVInv

(* reset_prefix_cache only proceeds when the free queue has every block. *)
LEMMA ResetAllFree ==
    ASSUME KVInv, reset_prefix_cache
    PROVE  Range(free_block_queue) = Block \ {NullBlock}
<1> DEFINE U == Block \ {NullBlock}
           F == Range(free_block_queue)
<1>1. NumBlocks \in Nat /\ NumBlocks - 1 \in Int /\ 1 \in Int /\ U = 1 .. NumBlocks - 1
  BY SMT, SizesAssumption DEF Block, NullBlock
<1>2. IsFiniteSet(U) /\ Cardinality(U) = IF 1 > NumBlocks - 1 THEN 0 ELSE NumBlocks - 1 - 1 + 1
  BY <1>1, FS_Interval
<1>3. free_block_queue \in Seq(Block) /\ NoDup(free_block_queue) /\ F \subseteq U
  BY DEF KVInv, KVTypeOK, FreeQueueIsUnreferenced
<1>4. Cardinality(F) = Len(free_block_queue) /\ Len(free_block_queue) \in Nat
  BY SMT, <1>3, LenNoDup
<1>5. NumBlocks - Len(free_block_queue) = 1
  BY DEF reset_prefix_cache
<1> HIDE DEF U, F
<1>6. Cardinality(F) = Cardinality(U)
  BY SMT, <1>1, <1>2, <1>4, <1>5
<1> QED
  BY <1>2, <1>3, <1>6, FS_Subset DEF U, F

LEMMA ResetOK == KVInv /\ reset_prefix_cache => KVInv'
<1> SUFFICES ASSUME KVInv, reset_prefix_cache PROVE KVInv'
  OBVIOUS
<1>1. /\ block_hash' = [b \in Block |-> NoHash] /\ DOMAIN cached_block_hash_to_block' = {}
      /\ UNCHANGED <<ref_cnt, free_block_queue, req_to_blocks, num_cached_block,
                     all_token_ids, assert_failed>>
  BY DEF reset_prefix_cache
<1>2. \A r \in RequestIds : Range(req_to_blocks[r]) = {}
  <2>1. Range(free_block_queue) = Block \ {NullBlock}
    BY ResetAllFree
  <2>2. \A r \in RequestIds : \A b \in Range(req_to_blocks[r]) :
            b \in Block /\ b # NullBlock /\ b \notin Range(free_block_queue)
    BY HeldIsReferenced
  <2> QED
    BY <2>1, <2>2
<1>3. KVTypeOK'
  BY <1>1, NoHashIsSeq DEF KVInv, KVTypeOK
<1>4. RefCountIsHolders' /\ FreeQueueIsUnreferenced' /\ AssertsHold'
  BY <1>1 DEF KVInv, RefCountIsHolders, Holders, FreeQueueIsUnreferenced, AssertsHold
<1>5. HashMapConsistent'
  BY <1>1, NullIsBlock DEF HashMapConsistent
<1>6. UncachedBlocksArePrivate'
  BY <1>1, <1>2 DEF UncachedBlocksArePrivate
<1>7. CachedBlocksAreOwnPrefix'
  <2>1. \A r \in RequestIds : req_to_blocks[r] \in Seq(Block) /\ req_to_blocks[r] = << >>
    BY <1>2, NonEmptyRange DEF KVInv, KVTypeOK
  <2>2. \A r \in RequestIds : 1 .. Len(req_to_blocks[r]) = {}
    BY SMT, <2>1
  <2> QED
    BY <1>1, <2>1, <2>2 DEF KVInv, CachedBlocksAreOwnPrefix, Tracked, BlockHash
<1> QED
  BY SMT, <1>3, <1>4, <1>5, <1>6, <1>7 DEF KVInv

(* The scheduler's two kinds of calls meet the precondition. *)
LEMMA WaitingCall ==
    ASSUME KVInv, NEW r \in RequestIds, NEW total \in 1..Len(all_token_ids[r]),
           ScheduleWaiting(r, total)
    PROVE  GoodCall(r, total, get_computed_blocks(r))
<1>1. GoodHits(r, get_computed_blocks(r))
  BY LookupGood DEF ScheduleWaiting
<1> QED
  BY <1>1 DEF ScheduleWaiting, GoodCall

LEMMA RunningCall ==
    ASSUME KVInv, NEW r \in RequestIds, NEW total \in 1..Len(all_token_ids[r]),
           ScheduleRunning(r, total)
    PROVE  GoodCall(r, total, << >>)
<1> USE SMT
<1>1. << >> \in Seq(Block) /\ Len(<< >>) = 0 /\ Range(<< >>) = {} /\ NoDup(<< >>)
  BY DEF Range, NoDup
<1>2. 0 * BlockSize <= Len(all_token_ids[r])
  BY SizesAssumption DEF KVInv, KVTypeOK
<1>3. GoodHits(r, << >>)
  BY <1>1, <1>2 DEF GoodHits
<1> QED
  BY Zenon, <1>3 DEF ScheduleRunning, GoodCall

LEMMA NextOK == KVInv /\ [KVNext]_kvVars => KVInv'
<1> SUFFICES ASSUME KVInv, [KVNext]_kvVars PROVE KVInv'
  OBVIOUS
<1>1. CASE reset_prefix_cache
  BY <1>1, ResetOK
<1>2. ASSUME NEW r \in RequestIds, NEW p \in Prompts, NewRequest(r, p) PROVE KVInv'
  <2>1. p \in Seq(Tokens) /\ Len(p) <= MaxModelLen + 1
    BY SMT, PromptsAssumption, SizesAssumption
  <2> QED
    BY <2>1, <1>2, TokensOK DEF NewRequest
<1>3. ASSUME NEW r \in RequestIds, NEW t \in Tokens, AppendToken(r, t) PROVE KVInv'
  <2> DEFINE old == all_token_ids[r]
             new == Append(old, t)
  <2>1. old \in Seq(Tokens) /\ Len(old) <= MaxModelLen
    BY <1>3 DEF KVInv, KVTypeOK, AppendToken
  <2>2. new \in Seq(Tokens) /\ Len(new) <= MaxModelLen + 1 /\ Len(new) = Len(old) + 1
    BY SMT, <2>1, SizesAssumption
  <2>3. ASSUME NEW i \in Nat, i * BlockSize <= Len(old)
        PROVE  i * BlockSize <= Len(new) /\ BlockHash(new, i) = BlockHash(old, i)
    <3>1. i * BlockSize \in Int /\ Len(old) \in Int
      BY SMT, SizesAssumption, <2>1
    <3>2. i * BlockSize <= Len(new)
      BY SMT, <3>1, <2>2, <2>3
    <3> HIDE DEF old
    <3> QED
      BY <3>2, <2>1, <2>3, BlockHashAppend
  <2>4. all_token_ids' = [all_token_ids EXCEPT ![r] = new] /\ UNCHANGED <<pool, req_to_blocks, num_cached_block, assert_failed>>
    BY <1>3 DEF AppendToken
  <2> HIDE DEF new
  <2> QED
    BY <2>2, <2>3, <2>4, TokensOK
<1>4. ASSUME NEW r \in RequestIds, NEW total \in 1..Len(all_token_ids[r]), ScheduleWaiting(r, total)
      PROVE  KVInv'
  BY <1>4, WaitingCall, AllocateOK DEF ScheduleWaiting
<1>5. ASSUME NEW r \in RequestIds, NEW total \in 1..Len(all_token_ids[r]), ScheduleRunning(r, total)
      PROVE  KVInv'
  BY <1>5, RunningCall, AllocateOK DEF ScheduleRunning
<1>6. ASSUME NEW r \in RequestIds, Free(r) PROVE KVInv'
  BY <1>6, FreeOK DEF Free
<1>7. CASE UNCHANGED kvVars
  <2>1. UNCHANGED <<ref_cnt, block_hash, free_block_queue, cached_block_hash_to_block,
                    req_to_blocks, num_cached_block, all_token_ids, assert_failed>>
    BY <1>7 DEF kvVars, pool
  <2>2. KVTypeOK' /\ RefCountIsHolders' /\ FreeQueueIsUnreferenced'
    BY SMT, <2>1 DEF KVInv, KVTypeOK, RefCountIsHolders, Holders, FreeQueueIsUnreferenced
  <2>3. HashMapConsistent' /\ AssertsHold'
    BY <2>1 DEF KVInv, HashMapConsistent, AssertsHold
  <2>4. CachedBlocksAreOwnPrefix' /\ UncachedBlocksArePrivate'
    BY <2>1 DEF KVInv, CachedBlocksAreOwnPrefix, Tracked, BlockHash, UncachedBlocksArePrivate
  <2> QED
    BY <2>2, <2>3, <2>4 DEF KVInv
<1> QED
  BY <1>1, <1>2, <1>3, <1>4, <1>5, <1>6, <1>7 DEF KVNext

(* Every reachable state of the block pool satisfies the whole invariant:   *)
(* reference counts, free queue, hash map and block lists agree, and no     *)
(* assert of BlockPool or SingleTypeKVCacheManager fails.                  *)
THEOREM KVCacheManagerCorrect == KVSpec => []KVInv
<1>1. KVInit => KVInv
  BY InitOK
<1>2. KVInv /\ [KVNext]_kvVars => KVInv'
  BY NextOK
<1> QED
  BY <1>1, <1>2, PTL DEF KVSpec

(* BlockPool.touch, get_new_blocks and free_blocks keep every reference     *)
(* count equal to the number of requests holding the block.                *)
THEOREM RefCountsExact == KVSpec => []RefCountIsHolders
<1>1. KVInv => RefCountIsHolders
  BY DEF KVInv
<1> QED
  BY <1>1, KVCacheManagerCorrect, PTL

(* No block leaks from the free queue and none in use can be handed out.    *)
THEOREM FreeQueueExact == KVSpec => []FreeQueueIsUnreferenced
<1>1. KVInv => FreeQueueIsUnreferenced
  BY DEF KVInv
<1> QED
  BY <1>1, KVCacheManagerCorrect, PTL

(* The prefix-cache dict and the hashes on the blocks say the same.         *)
THEOREM HashMapExact == KVSpec => []HashMapConsistent
<1>1. KVInv => HashMapConsistent
  BY DEF KVInv
<1> QED
  BY <1>1, KVCacheManagerCorrect, PTL

(* Only full blocks under a shared prefix have two users: the block that a  *)
(* request is writing is its own.                                          *)
THEOREM PrivateBlocks == KVSpec => []UncachedBlocksArePrivate
<1>1. KVInv => UncachedBlocksArePrivate
  BY DEF KVInv
<1> QED
  BY <1>1, KVCacheManagerCorrect, PTL

(* A request's blocks are cached under its own prefix hashes exactly up to  *)
(* num_cached_block.                                                       *)
THEOREM OwnPrefix == KVSpec => []CachedBlocksAreOwnPrefix
<1>1. KVInv => CachedBlocksAreOwnPrefix
  BY DEF KVInv
<1> QED
  BY <1>1, KVCacheManagerCorrect, PTL

(* The asserts of get_new_blocks, cache_full_blocks and                     *)
(* save_new_computed_blocks never fail.                                    *)
THEOREM NoAssertFails == KVSpec => []AssertsHold
<1>1. KVInv => AssertsHold
  BY DEF KVInv
<1> QED
  BY <1>1, KVCacheManagerCorrect, PTL

(* _maybe_evict_cached_block and cache_full_blocks never change the hash of *)
(* a cached block while a request keeps using it.                          *)
THEOREM HeldBlocksKeep == KVSpec => HeldBlocksKeepHash
<1> DEFINE Kept == \A b \in Block :
                      ref_cnt[b] > 0 /\ ref_cnt'[b] > 0 /\ block_hash[b] # NoHash =>
                          block_hash'[b] = block_hash[b]
<1>1. KVInv /\ [KVNext]_kvVars => [Kept]_kvVars
  <2> SUFFICES ASSUME KVInv, KVNext, NEW b \in Block, ref_cnt[b] > 0, block_hash[b] # NoHash
               PROVE  block_hash'[b] = block_hash[b]
    BY DEF Kept
  <2>1. CASE reset_prefix_cache
    <3>1. b # NullBlock
      BY DEF KVInv, HashMapConsistent
    <3>2. b \in Range(free_block_queue)
      BY <3>1, <2>1, ResetAllFree
    <3> QED
      BY SMT, <3>2 DEF KVInv, FreeQueueIsUnreferenced
  <2>2. ASSUME NEW r \in RequestIds, NEW p \in Prompts, NewRequest(r, p) PROVE block_hash' = block_hash
    BY <2>2 DEF NewRequest, pool
  <2>3. ASSUME NEW r \in RequestIds, NEW t \in Tokens, AppendToken(r, t) PROVE block_hash' = block_hash
    BY <2>3 DEF AppendToken, pool
  <2>4. ASSUME NEW r \in RequestIds, NEW total \in 1..Len(all_token_ids[r]), ScheduleWaiting(r, total)
        PROVE  block_hash'[b] = block_hash[b]
    BY <2>4, WaitingCall, AllocateKeepsHeld DEF ScheduleWaiting
  <2>5. ASSUME NEW r \in RequestIds, NEW total \in 1..Len(all_token_ids[r]), ScheduleRunning(r, total)
        PROVE  block_hash'[b] = block_hash[b]
    BY SMT, <2>5, RunningCall, AllocateKeepsHeld DEF ScheduleRunning
  <2>6. ASSUME NEW r \in RequestIds, Free(r) PROVE block_hash' = block_hash
    BY <2>6 DEF Free, free
  <2> QED
    BY <2>1, <2>2, <2>3, <2>4, <2>5, <2>6 DEF KVNext
<1> QED
  BY <1>1, KVCacheManagerCorrect, PTL DEF KVSpec, HeldBlocksKeepHash

-------------------------------------------------------------------------------
(* The blocks that cache a prefix are evicted from its end.                *)

(* The hash of the block before. *)
ParentHash(h) == SubSeq(h, 1, Len(h) - BlockSize)

(* A free block that is cached leaves the free queue before some block that *)
(* caches the prefix before its own, unless a request holds that one.      *)
EvictionOrder ==
    \A b \in Range(free_block_queue) : Len(block_hash[b]) > BlockSize =>
        \E p \in Block : /\ block_hash[p] = ParentHash(block_hash[b])
                         /\ p \notin Range(free_block_queue) \/ Before(free_block_queue, b, p)

LEMMA ParentIsHash ==
    ASSUME NEW h \in Seq(Tokens), Len(h) > BlockSize PROVE ParentHash(h) # NoHash
<1> USE SMT
<1>1. Len(h) - BlockSize \in 1 .. Len(h)
  BY SizesAssumption
<1>2. Len(ParentHash(h)) = Len(h) - BlockSize
  BY <1>1 DEF ParentHash
<1> QED
  BY <1>1, <1>2 DEF NoHash

(* The block before a cached block in the list of a request. *)
LEMMA ParentInList ==
    ASSUME KVInv, NEW r \in RequestIds, NEW i \in 1 .. Len(req_to_blocks[r]),
           Len(block_hash[req_to_blocks[r][i]]) > BlockSize
    PROVE  /\ i - 1 \in 1 .. Len(req_to_blocks[r])
           /\ block_hash[req_to_blocks[r][i - 1]] = ParentHash(block_hash[req_to_blocks[r][i]])
<1> USE SMT
<1> DEFINE toks == all_token_ids[r]
           blks == req_to_blocks[r]
           n == num_cached_block[r]
<1>1. toks \in Seq(Tokens) /\ blks \in Seq(Block) /\ n \in Nat \cup {NotTracked}
  BY Zenon DEF KVInv, KVTypeOK
<1>2. Tracked(r)
  <2> SUFFICES ASSUME ~ Tracked(r) PROVE FALSE
    BY Zenon
  <2>1. blks = << >>
    BY Zenon DEF KVInv, CachedBlocksAreOwnPrefix
  <2> QED
    BY <2>1
<1>3. /\ n \in Nat /\ n * BlockSize <= Len(toks) /\ n <= Len(blks)
      /\ \A j \in 1 .. Len(blks) :
            block_hash[blks[j]] = IF j <= n THEN BlockHash(toks, j) ELSE NoHash
  BY Zenon, <1>1, <1>2 DEF KVInv, CachedBlocksAreOwnPrefix, Tracked
<1> HIDE DEF toks, blks, n
<1>4. i \in Nat /\ i > 0 /\ BlockSize \in Nat \ {0} /\ Len(toks) \in Nat
  BY <1>1, SizesAssumption
<1>5. i <= n
  <2> SUFFICES ASSUME ~ (i <= n) PROVE FALSE
    BY Zenon
  <2>1. block_hash[blks[i]] = NoHash
    BY Zenon, <1>3 DEF blks
  <2>2. Len(NoHash) = 0
    BY Zenon DEF NoHash
  <2> QED
    BY <1>4, <2>1, <2>2 DEF blks
<1>6. \A j \in Nat : j <= n => j * BlockSize <= Len(toks)
  <2> SUFFICES ASSUME NEW j \in Nat, j < n PROVE j * BlockSize <= Len(toks)
    BY <1>3
  <2>1. j * BlockSize < n * BlockSize /\ j * BlockSize \in Nat
    BY Zenon, <1>3, <1>4, MultMono
  <2> DEFINE low == j * BlockSize
             high == n * BlockSize
  <2>2. low \in Nat /\ high \in Nat /\ low < high /\ high <= Len(toks)
    BY <1>3, <1>4, <2>1
  <2> HIDE DEF low, high
  <2>3. low <= Len(toks)
    BY <1>4, <2>2
  <2> QED
    BY Zenon, <2>3 DEF low
<1>7. block_hash[blks[i]] = BlockHash(toks, i) /\ Len(BlockHash(toks, i)) = i * BlockSize
  BY Zenon, <1>1, <1>3, <1>4, <1>5, <1>6, BlockHashFacts DEF blks
<1>8. i > 1
  <2> SUFFICES ASSUME i = 1 PROVE FALSE
    BY <1>4
  <2>1. Len(BlockHash(toks, i)) = BlockSize
    BY <1>4, <1>7
  <2> QED
    BY <1>4, <1>7, <2>1 DEF blks
<1>9. i - 1 \in 1 .. Len(blks) /\ i - 1 <= n /\ i - 1 \in Nat
  BY <1>3, <1>4, <1>5, <1>8 DEF blks
<1>10. block_hash[blks[i - 1]] = BlockHash(toks, i - 1)
  BY Zenon, <1>3, <1>9
<1>11. i * BlockSize - BlockSize = (i - 1) * BlockSize /\ i * BlockSize <= Len(toks)
       /\ i * BlockSize \in Nat /\ (i - 1) * BlockSize \in Nat
  BY <1>4, <1>5, <1>6, <1>9
<1>12. ParentHash(BlockHash(toks, i)) = BlockHash(toks, i - 1)
  <2> DEFINE h == BlockHash(toks, i)
             g == BlockHash(toks, i - 1)
             m == i * BlockSize
             k == (i - 1) * BlockSize
  <2>1. /\ k \in Nat /\ m \in Nat /\ k <= m /\ m <= Len(toks)
        /\ h = SubSeq(toks, 1, m) /\ g = SubSeq(toks, 1, k) /\ Len(h) - BlockSize = k
    BY <1>4, <1>7, <1>11 DEF BlockHash
  <2> HIDE DEF h, g, m, k
  <2>2. h \in Seq(Tokens) /\ Len(h) = m /\ \A j \in 1 .. m : h[j] = toks[j]
    BY <1>1, <2>1
  <2>3. g \in Seq(Tokens) /\ Len(g) = k /\ \A j \in 1 .. k : g[j] = toks[j]
    BY <1>1, <2>1
  <2>4. SubSeq(h, 1, k) \in Seq(Tokens) /\ Len(SubSeq(h, 1, k)) = k
        /\ \A j \in 1 .. k : SubSeq(h, 1, k)[j] = h[j]
    BY <2>1, <2>2
  <2>5. SubSeq(h, 1, k) = g
    BY <2>1, <2>2, <2>3, <2>4
  <2> QED
    BY Zenon, <2>1, <2>5 DEF ParentHash, h, g
<1> QED
  BY <1>7, <1>9, <1>10, <1>12 DEF blks

(* free appends the blocks of a request from the last one. *)
LEMMA FreeKeepsOrder ==
    ASSUME KVInv, EvictionOrder, NEW r \in RequestIds, free(r)
    PROVE  EvictionOrder'
<1> DEFINE blks == req_to_blocks[r]
           fq == free_block_queue
           Dead == {b \in Block : ref_cnt'[b] = 0 /\ b # NullBlock}
           tail == Keep(Backwards(blks), Dead)
<1>1. free_block_queue' = fq \o tail /\ block_hash' = block_hash
  BY DEF free
<1>2. blks \in Seq(Block) /\ fq \in Seq(Block)
  BY DEF KVInv, KVTypeOK
<1>3. \A b \in Range(blks) : b \in Block /\ b \notin Range(fq)
  BY HeldIsReferenced
<1> HIDE DEF blks, Dead, fq
<1>4. tail \in Seq(Block) /\ Range(tail) = Range(blks) \cap Dead
  <2>1. Backwards(blks) \in Seq(Block) /\ Range(Backwards(blks)) = Range(blks)
    BY <1>2, BackwardsProperties
  <2> QED
    BY SMT, <2>1, KeepProperties
<1>5. ASSUME NEW x, NEW y \in Dead, x \in Dead, Before(blks, y, x) PROVE Before(tail, x, y)
  <2>1. Backwards(blks) \in Seq(Block) /\ Before(Backwards(blks), x, y)
    BY <1>2, <1>5, BackwardsProperties, BackwardsOrder
  <2> QED
    BY <1>5, <2>1, KeepOrder
<1> HIDE DEF tail
<1>6. Range(fq \o tail) = Range(fq) \cup Range(tail)
  BY SMT, <1>2, <1>4, RangeConcat
<1> SUFFICES ASSUME NEW b \in Range(fq \o tail), Len(block_hash[b]) > BlockSize
             PROVE  \E p \in Block : /\ block_hash[p] = ParentHash(block_hash[b])
                                     /\ p \notin Range(fq \o tail) \/ Before(fq \o tail, b, p)
  BY <1>1 DEF EvictionOrder
<1>7. CASE b \in Range(fq)
  <2>1. PICK p \in Block : /\ block_hash[p] = ParentHash(block_hash[b])
                           /\ p \notin Range(fq) \/ Before(fq, b, p)
    BY <1>7 DEF EvictionOrder, fq
  <2>2. CASE Before(fq, b, p)
    BY <1>2, <1>4, <2>1, <2>2, ConcatOrder
  <2>3. CASE p \notin Range(fq) /\ p \in Range(tail)
    BY <1>2, <1>4, <1>7, <2>1, <2>3, ConcatOrder
  <2>4. CASE p \notin Range(fq) /\ p \notin Range(tail)
    BY <1>6, <2>1, <2>4
  <2> QED
    BY <2>1, <2>2, <2>3, <2>4
<1>8. CASE b \in Range(tail)
  <2>1. b \in Dead /\ b \in Range(blks)
    BY <1>4, <1>8
  <2>2. PICK i \in 1 .. Len(blks) : blks[i] = b
    BY <1>2, <2>1, InRange
  <2>3. i - 1 \in 1 .. Len(blks) /\ block_hash[blks[i - 1]] = ParentHash(block_hash[b])
    BY <2>2, ParentInList DEF blks
  <2> DEFINE p == blks[i - 1]
  <2>4. p \in Range(blks) /\ Before(blks, p, b)
    BY SMT, <1>2, <2>2, <2>3, InRange DEF Before
  <2>5. p \in Block /\ p \notin Range(fq) /\ block_hash[p] = ParentHash(block_hash[b])
    BY <1>3, <2>3, <2>4
  <2> HIDE DEF p
  <2>6. CASE p \in Dead
    <3>1. Before(tail, b, p)
      BY <1>5, <2>1, <2>4, <2>6
    <3> QED
      BY <1>2, <1>4, <2>5, <3>1, ConcatOrder
  <2>7. CASE p \notin Dead
    BY <1>4, <1>6, <2>5, <2>7
  <2> QED
    BY <2>6, <2>7
<1> QED
  BY <1>6, <1>7, <1>8

(* get_new_blocks takes the blocks at the head of the queue, touch takes hits *)
(* out of it, and a block that is cached keeps its hash unless it is taken. *)
LEMMA AllocateKeepsOrder ==
    ASSUME KVInv, EvictionOrder, NEW r \in RequestIds, NEW total, NEW hits,
           GoodCall(r, total, hits), allocate_slots(r, total, hits)
    PROVE  EvictionOrder'
<1> DEFINE fq == free_block_queue
           T == {b \in Range(hits) : ref_cnt[b] = 0 /\ b # NullBlock}
           queue == TouchedQueue(hits)
           n == NumFresh(r, total, hits)
           fresh == Fresh(r, total, hits)
           blks == NewBlockList(r, total, hits)
           I == NewlyFull(r, total, hits)
           rest == SubSeq(queue, n + 1, Len(queue))
<1>1. /\ fq \in Seq(Block) /\ NoDup(fq) /\ Range(fq) = {b \in Block \ {NullBlock} : ref_cnt[b] = 0}
      /\ block_hash \in [Block -> Seq(Tokens)]
  BY DEF KVInv, KVTypeOK, FreeQueueIsUnreferenced
<1>2. queue = Drop(fq, T) /\ free_block_queue' = rest
  BY DEF TouchedQueue, allocate_slots
<1>3. /\ n \in 0 .. Len(queue) /\ queue \in Seq(Block)
      /\ \A b \in Range(fresh) : b \in Block /\ b # NullBlock /\ ref_cnt[b] = 0 /\ b \notin Range(hits)
      /\ Range(rest) = {b \in Block \ {NullBlock} :
                           ref_cnt[b] = 0 /\ b \notin Range(hits) \cup Range(fresh)}
  BY SMT, FreshFacts
<1>4. \A i \in I : i \in 1 .. Len(blks) /\ (blks[i] \notin Range(fresh) => block_hash[blks[i]] = NoHash)
  BY SMT, NewlyFullFacts
<1>5. \A x \in Block : (\A i \in I : blks[i] # x) =>
          block_hash'[x] = IF x \in Range(fresh) THEN NoHash ELSE block_hash[x]
  BY AllocateHashes
<1>6. blks \in Seq(Block) /\ Range(blks) = Range(req_to_blocks[r]) \cup Range(hits) \cup Range(fresh)
  BY SMT, BlockListFacts
<1>7. \A b \in Range(req_to_blocks[r]) : ref_cnt[b] > 0
  BY HeldIsReferenced
<1> HIDE DEF fq, queue, n, fresh, blks, I
<1>8. NoDup(queue)
  BY <1>1, <1>2, DropProperties
<1>9. ASSUME NEW x \in Block, x \notin Range(fresh), block_hash[x] # NoHash
      PROVE  block_hash'[x] = block_hash[x]
  BY <1>4, <1>5, <1>9
<1>10. ASSUME NEW b \in Range(rest) PROVE b \in Range(fq) /\ b \in Block /\ block_hash'[b] = block_hash[b]
  <2>1. b \in Range(fq) /\ b \in Block /\ b \notin Range(blks) /\ b \notin Range(fresh)
    BY SMT, <1>1, <1>3, <1>6, <1>7
  <2>2. \A i \in I : blks[i] # b
    BY <1>4, <1>6, <2>1, InRange
  <2> QED
    BY <1>5, <2>1, <2>2
<1> HIDE DEF T, rest
<1> SUFFICES ASSUME NEW b \in Range(rest), Len(block_hash'[b]) > BlockSize
             PROVE  \E p \in Block : /\ block_hash'[p] = ParentHash(block_hash'[b])
                                     /\ p \notin Range(rest) \/ Before(rest, b, p)
  BY <1>2 DEF EvictionOrder
<1>11. b \in Range(fq) /\ b \in Block /\ block_hash'[b] = block_hash[b]
  BY <1>10
<1>12. PICK p \in Block : /\ block_hash[p] = ParentHash(block_hash[b])
                          /\ p \notin Range(fq) \/ Before(fq, b, p)
  BY <1>11 DEF EvictionOrder, fq
<1>13. block_hash[p] # NoHash
  BY <1>1, <1>11, <1>12, ParentIsHash
<1>14. CASE p \notin Range(fq)
  <2>1. p \notin Range(fresh) /\ p \notin Range(rest)
    BY SMT, <1>1, <1>3, <1>10, <1>14
  <2> QED
    BY <1>9, <1>11, <1>12, <1>13, <2>1
<1>15. CASE p \in T
  <2>1. p \notin Range(fresh) /\ p \notin Range(rest)
    BY <1>3, <1>15 DEF T
  <2> QED
    BY SMT, <1>9, <1>11, <1>12, <1>13, <2>1
<1>16. CASE Before(fq, b, p) /\ p \notin T
  <2>1. b \notin T
    BY <1>3 DEF T
  <2>2. Before(queue, b, p)
    BY SMT, <1>1, <1>2, <1>16, <2>1, DropOrder
  <2>3. Before(rest, b, p)
    BY <1>3, <1>8, <2>2, SuffixOrder DEF rest
  <2>4. rest \in Seq(Block)
    BY SMT, <1>3 DEF rest
  <2>5. p \in Range(rest)
    BY <2>3, <2>4, InRange DEF Before
  <2>6. p \notin Range(fresh)
    BY <1>3, <2>5
  <2> QED
    BY SMT, <1>9, <1>11, <1>12, <1>13, <2>3, <2>6
<1> QED
  BY <1>12, <1>14, <1>15, <1>16

LEMMA OrderInit == KVInit => EvictionOrder
<1> SUFFICES ASSUME KVInit, NEW b \in Range(free_block_queue) PROVE ~ (Len(block_hash[b]) > BlockSize)
  BY DEF EvictionOrder
<1>1. free_block_queue \in Seq(Block)
  BY InitOK DEF KVInv, KVTypeOK
<1>2. b \in Block
  BY SMT, <1>1, InRange
<1>3. Len(block_hash[b]) = 0
  BY <1>2 DEF KVInit, NoHash
<1> QED
  BY SMT, <1>3, SizesAssumption

LEMMA OrderStep == KVInv /\ EvictionOrder /\ [KVNext]_kvVars => EvictionOrder'
<1> SUFFICES ASSUME KVInv, EvictionOrder, [KVNext]_kvVars PROVE EvictionOrder'
  OBVIOUS
<1>1. CASE reset_prefix_cache
  <2>1. \A b \in Range(free_block_queue) : Len(block_hash'[b]) = 0 /\ BlockSize \in Nat
    <3>1. Range(free_block_queue) \subseteq Block
      BY DEF KVInv, FreeQueueIsUnreferenced
    <3> QED
      BY <1>1, <3>1, SizesAssumption DEF reset_prefix_cache, NoHash
  <2>2. free_block_queue' = free_block_queue
    BY <1>1 DEF reset_prefix_cache
  <2> QED
    BY SMT, <2>1, <2>2 DEF EvictionOrder
<1>2. CASE UNCHANGED <<free_block_queue, block_hash>>
  BY SMT, <1>2 DEF EvictionOrder, Before
<1>3. ASSUME NEW r \in RequestIds,
             \/ \E p \in Prompts : NewRequest(r, p)
             \/ \E t \in Tokens : AppendToken(r, t)
      PROVE  UNCHANGED <<free_block_queue, block_hash>>
  BY <1>3 DEF NewRequest, AppendToken, pool
<1>4. ASSUME NEW r \in RequestIds, NEW total \in 1..Len(all_token_ids[r]), ScheduleWaiting(r, total)
      PROVE  EvictionOrder'
  BY <1>4, WaitingCall, AllocateKeepsOrder DEF ScheduleWaiting
<1>5. ASSUME NEW r \in RequestIds, NEW total \in 1..Len(all_token_ids[r]), ScheduleRunning(r, total)
      PROVE  EvictionOrder'
  BY <1>5, RunningCall, AllocateKeepsOrder DEF ScheduleRunning
<1>6. ASSUME NEW r \in RequestIds, Free(r) PROVE EvictionOrder'
  BY <1>6, FreeKeepsOrder DEF Free
<1>7. UNCHANGED kvVars => UNCHANGED <<free_block_queue, block_hash>>
  BY DEF kvVars, pool
<1> QED
  BY <1>1, <1>2, <1>3, <1>4, <1>5, <1>6, <1>7 DEF KVNext

(* find_longest_cache_hit may stop at the first hash that is not cached: no   *)
(* block caches a longer prefix, whatever has been evicted, because free      *)
(* queues the blocks of a request from the last one and touch takes whole     *)
(* prefixes out of the queue.                                               *)
THEOREM CacheStaysPrefixClosed == KVSpec => []CacheIsPrefixClosed
<1>1. KVInv /\ EvictionOrder => CacheIsPrefixClosed
  <2> SUFFICES ASSUME KVInv, EvictionOrder, NEW h \in DOMAIN cached_block_hash_to_block,
                      Len(h) > BlockSize
               PROVE  ParentHash(h) \in DOMAIN cached_block_hash_to_block
    BY DEF CacheIsPrefixClosed, ParentHash
  <2>1. /\ h \in Seq(Tokens) /\ cached_block_hash_to_block[h] \in Seq(Block)
        /\ cached_block_hash_to_block[h] # << >>
        /\ Range(cached_block_hash_to_block[h]) = {b \in Block : block_hash[b] = h}
    BY DEF KVInv, KVTypeOK, HashMapConsistent
  <2>2. PICK b \in Block : block_hash[b] = h
    BY <2>1, NonEmptyRange
  <2>3. ParentHash(h) # NoHash
    BY <2>1, ParentIsHash
  <2>4. \E p \in Block : block_hash[p] = ParentHash(h)
    <3>1. CASE b \in Range(free_block_queue)
      BY <2>2, <3>1 DEF EvictionOrder
    <3>2. CASE b \notin Range(free_block_queue)
      <4>1. b # NullBlock
        <5>1. h # NoHash
          BY DEF KVInv, HashMapConsistent
        <5> QED
          BY <2>2, <5>1 DEF KVInv, HashMapConsistent
      <4>2. ref_cnt[b] # 0 /\ ref_cnt[b] = Cardinality(Holders(b))
        BY <3>2, <4>1 DEF KVInv, FreeQueueIsUnreferenced, RefCountIsHolders
      <4>3. PICK r \in RequestIds : b \in Range(req_to_blocks[r])
        <5>1. Holders(b) # {}
          BY <4>2, FS_EmptySet
        <5> QED
          BY <5>1 DEF Holders
      <4>4. req_to_blocks[r] \in Seq(Block)
        BY DEF KVInv, KVTypeOK
      <4>5. PICK i \in 1 .. Len(req_to_blocks[r]) : req_to_blocks[r][i] = b
        BY <4>3, <4>4, InRange
      <4>6. /\ i - 1 \in 1 .. Len(req_to_blocks[r])
            /\ block_hash[req_to_blocks[r][i - 1]] = ParentHash(h)
        BY <2>2, <4>5, ParentInList
      <4> QED
        BY SMT, <4>4, <4>6
    <3> QED
      BY <3>1, <3>2
  <2> QED
    BY <2>3, <2>4 DEF KVInv, HashMapConsistent
<1>2. KVInit => KVInv /\ EvictionOrder
  BY InitOK, OrderInit
<1>3. KVInv /\ EvictionOrder /\ [KVNext]_kvVars => KVInv' /\ EvictionOrder'
  BY NextOK, OrderStep
<1> QED
  BY <1>1, <1>2, <1>3, PTL DEF KVSpec

(* Every field of the block pool and of the manager keeps its type. *)
THEOREM KVTypesCorrect == KVSpec => []KVTypeOK
<1>1. KVInv => KVTypeOK
  BY DEF KVInv
<1> QED
  BY <1>1, KVCacheManagerCorrect, PTL

================================================================================
