--------------------------- MODULE MCKVCacheManager ---------------------------
(***************************************************************************)
(* Small instances of KVCacheManager.                                      *)
(***************************************************************************)
EXTENDS KVCacheManager, TLC

(* With two-token blocks: prompts that share a full first block, differ     *)
(* after it, and fill their second block with the first output token.      *)
ForkingPrompts == {<<1, 1, 1>>, <<1, 1, 2>>}

(* With one-token blocks: prompts that are prefixes of each other, so that  *)
(* chains of up to three blocks are cached, duplicated and evicted.        *)
NestedPrompts == {<<1>>, <<1, 1>>, <<1, 1, 1>>}

Symmetry == Permutations(RequestIds)
===============================================================================
