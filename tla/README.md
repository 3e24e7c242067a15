# Mimir2 in TLA+

Mimir2 is vLLM 0.10.2 with an agent-aware life cycle for the KV cache. When a
turn of a multi-turn agent finishes with a short tool call ahead, the scheduler
*pins* its KV blocks on the GPU for a TTL, so that the next turn of the job finds
its prefix in the prefix cache. This directory holds the TLA+ models of the
engine that decides who gets which KV block and when: the KV cache manager, the
scheduler with its pins, and the engine loop that drives it.

## The system and its parts

| part | source (under `src/vllm/`) | here |
|---|---|---|
| KV cache manager: block pool, free queue, prefix cache, block lists | `v1/core/kv_cache_manager.py`, `kv_cache_coordinator.py`, `single_type_kv_cache_manager.py`, `block_pool.py`, `kv_cache_utils.py` | `KVCacheManager`, `SeqFilter` |
| Scheduler: `schedule`, `update_from_output`, preemption, aborts | `v1/core/sched/scheduler.py`, `utils.py` | `Scheduler` |
| Mimir pins: `_set_up_pin`, `_pin_request`, `_mimir_expire_pins` | `v1/core/sched/scheduler.py` | `Scheduler` |
| Request queues (FCFS, priority) | `v1/core/sched/request_queue.py` | `Scheduler` |
| EngineCore busy loop, batch queue | `v1/engine/core.py` | `Scheduler` |
| Request | `v1/request.py` | both |
| Model runner: which requests it caches, what a batch writes and returns | `v1/worker/gpu_model_runner.py` | `Scheduler` (partly) |
| MimirConnector (offload to CPU, reload) | `distributed/kv_transfer/.../mimir_connector.py` | planned |
| Free block queue (linked list), encoder cache manager, AsyncScheduler, front end, data-parallel coordinator, shared-memory ring buffer | `v1/core`, `v1/engine`, `distributed/device_communicators` | planned |
| Models, kernels, API servers, v0 engine, other connectors, configuration | rest of `vllm/`, `csrc/` | not modelled |

They interact as follows. Clients' ADD and ABORT messages wait in EngineCore's
input queue and are handled between two steps. A step calls `schedule()`, which
expires pins, gives tokens to running and then to waiting requests, and calls
`get_computed_blocks`, `allocate_slots` and `free` of the KV cache manager. The
batch goes to the workers; `update_from_output()` later appends the sampled
tokens, finishes requests, and pins or frees their blocks. With pipeline
parallelism several batches are in flight (`step_with_batch_queue`).

`PROJECT.json` lists every part, the source lines each definition models, the
hazards of the code and the properties that would catch them.

## Modules

**`SeqFilter`** keeps or drops the elements of a sequence that are in a set, with
their order (the list comprehensions and queue removals of the code).
`SeqFilterTheorems` proves what these operators preserve.

**`KVCacheManager`** has one full-attention group with prefix caching on. Its
variables are the fields of the code: `ref_cnt` and `block_hash` of the blocks,
`free_block_queue` (next to be evicted first), `cached_block_hash_to_block`,
`req_to_blocks`, `num_cached_block`, and the tokens of the requests. The requests in
`PromptLogprobs` ask for the logprobs of their prompt and get no hits. A block hash
is a chain hash; it is modelled by the token prefix it stands for, so hash
collisions are excluded. `allocate_slots` is the whole method: touch the hits, pop
fresh blocks and evict their hashes, store the hashes of the blocks that became
full. `assert_failed` records any assert or `ValueError` of the pool. `KVSpec` is
the environment the manager expects: a waiting request is scheduled with the hits
it just looked up, a running one without, totals never exceed the tokens.
Block 0 is the null block.

**`Scheduler`** extends `KVCacheManager`. `schedule()` and `update_from_output()`
run on one thread, so nothing interleaves with them; they are split into
micro-steps (`step.pc`: `expire`, `running`, `waiting`, `wrapup`, `execute`,
`update`, `free`), each of which makes at most one call of the KV cache manager.
That makes `KVSpec` itself a property to check of the scheduler: every step of
the scheduler is a step of `KVSpec` or leaves its variables alone, so
what is proved of `KVSpec` holds under the scheduler. `AddRequest`,
`AbortRequest`, `ResetPrefixCache` and `GrammarCompiled` happen between
steps; `Tick` also while a batch executes.

Data is reduced to what the properties tell apart. A pin is a request and the
number of ticks left. A job's tool history is its sum and length, which is all
`_set_up_pin` uses. The vllm_xargs fields of a request, its grammar flag and its
place in the (priority, arrival time) order are constants (`MetaOf`). `check_stop`
is a free choice at every token and forced at `max_model_len`. Ghost state:
`written` is, per block, the token prefix whose KV the forward passes left there;
batches execute in the order they were scheduled, so the effect of a batch is
applied when it is scheduled. `worker_requests` are the requests the model runner
knows (`_update_states`), and `worker_num_tokens` how many tokens of each. That count is
ahead of the scheduler's by the tokens in flight and survives a preemption; it decides
whether an entry of a batch returns a token (`Samples`). A request id is used once; a
front end sends one abort per id.

**`MCKVCacheManager`**, **`MCScheduler`** give the small instances.
Operators marked as mutants state plausible bugs of the definition that follows
them; each property is known to fail under one of them.

## What is checked

All runs check deadlock. The bounds are small but make the cases happen: fewer
blocks than the requests need together (so eviction, preemption and waiting for
pins occur), prompts that share a block, two-token blocks with prompts that end
inside a block, a token budget below the longest prompt (chunked prefill).

| run | instance | checks |
|---|---|---|
| `kv_pool` | 3 usable blocks of 2 tokens, 2 requests, forking prompts | reference counts, free queue, hash map and block lists agree; uncached blocks are private; no assert fails; held blocks keep their hash |
| `kv_eviction` | 3 usable blocks of 1 token, 3 requests, nested prompts | `CacheIsPrefixClosed`: eviction never orphans a cached block |
| `sched_pins` | mimir policy, two turns of a job and a stranger, late aborts | queues, statuses and pins agree; no block leaks; a pin keeps its KV for its TTL and serves the next turn, also with a request that bypasses the prefix cache around; first come first served; use of the KV cache manager within `KVSpec` |
| `sched_pipeline` | fcfs, two batches in flight, one request with a grammar | blocks hold the KV they are cached for; asserts of the scheduler; workers' cache in step; tokens applied in order; common prefix really common; finished is final; `KVSpec` |
| `sched_pipeline3` | fcfs, three batches in flight, a prompt in two chunks | a request preempted and resumed while its token is in flight gets no second token for that position (`TokensInOrder`) |
| `sched_live` | mimir, chunked prefill off, fair | `EveryRequestFinishes` although pins hold blocks |

`ComputedIsWritten` deserves a word: blocks enter the prefix cache when they are
*scheduled*, before the model has written them. It is right because whoever hits
such a block runs in the same or a later batch.

**Fairness.** `sched_live` assumes weak fairness of the engine's steps (the busy
loop steps while it has requests), and strong fairness of the clock and of each
grammar compilation: they advance independently of the engine, but the model lets
them move only between its steps, so weak fairness would let the engine starve
them. Arrivals and aborts are not assumed.

### Disagreements between the code and what it says of itself

Five runs are expected to end in a counterexample. Each checks one property that a
comment or docstring states; the findings in `PROJECT.json` quote the line.

| run | what the code does |
|---|---|
| `late_abort` | An abort that arrives after a request finished and was pinned finishes it again: its status changes, its tool duration is recorded twice, it is pinned twice or freed before its TTL. |
| `common_prefix` | The common prefix of the running requests is computed from reference counts, which include pinned requests, so a block some running request lacks can be counted. |
| `full_prompt` | A prompt of exactly `max_model_len` tokens, prefilled in chunks, stops one token short and stays in the running list for ever. |
| `skipped_order` | Requests that wait for their grammars are put back in reverse order in every step. |
| `priority_preemption` | Under the priority policy, preempting a request already scheduled in the same step leaves its token count: it waits with `num_computed_tokens` > 0 and no blocks. |

Two relatives of these are reachable in the same model: with two batches in
flight, an aborted request that was pinned still receives the output of its batch
(`FinishedIsFinal` under `Policy = "mimir"`, `BatchQueueSize = 2`), and a whole
prompt of `max_model_len` tokens is scheduled for -1 tokens, which
`update_from_output` asserts against (`SchedulerAsserts` with the prompts of
`full_prompt` and a budget of 4).

## What is proved

`KVCacheProofs` proves, for every number of blocks, block size, model
length, finite set of request ids, token set and set of prompts:

- `KVCacheManagerCorrect`: `KVSpec => []KVInv`, where `KVInv` is the type
  invariant with the six safety invariants of `kv_pool`;
- `RefCountsExact`, `FreeQueueExact`, `HashMapExact`, `PrivateBlocks`, `OwnPrefix`,
  `NoAssertFails`: its parts, by name;
- `CacheStaysPrefixClosed`: `KVSpec => []CacheIsPrefixClosed`;
- `HeldBlocksKeep`: the action property `HeldBlocksKeepHash`.

Assumptions: the sizes are positive naturals, the request ids are finite, and a
prompt has between 1 and `max_model_len` tokens.

None of the invariants is inductive alone. That `get_new_blocks` never runs dry
needs `CanAllocate` to count evictable hits, which needs the free queue to be
exactly the unreferenced blocks; that needs exact reference counts, which need
that a request never holds a block twice. A hit is not already among the fresh or
held blocks because the hash map is consistent, and a hit is of the right prefix
because a cached block's hash is the prefix. That `cache_full_blocks` finds its
block unhashed needs `CachedBlocksAreOwnPrefix`, and that this survives another
request's step needs `UncachedBlocksArePrivate`. The conjunction is inductive.

`CacheIsPrefixClosed` needs more, since eviction takes blocks from the head of the free
queue one at a time: `EvictionOrder` says that a cached block in the free queue is ahead
of some block cached for the prefix before its own, unless a request holds that one.
Requests free their blocks in reverse, which is what keeps it.

The proof follows `allocate_slots` phase by phase (hits leave the queue, fresh blocks are
popped, the new block list, the positions that became full) and then gives the effect of
the whole call on each conjunct. Every other action has a lemma of its own.
`SeqFilterTheorems` holds the lemmas on sequences. Since `sched_pins` and
`sched_pipeline` check that the scheduler implements `KVSpec`, the theorems carry
over to the scheduler on those instances.

Only model-checked: everything about `Scheduler`, and
liveness, which is out of the prover's reach.

## Not modelled

Several KV cache groups (sliding window, Mamba, cross-attention), LoRA limits,
speculative decoding, encoder inputs, pooling, KV connectors, KV events,
statistics, data parallelism, sleep mode, failures of workers, a grammar that does not
compile (it raises out of `schedule()`). A reused request id
while its first use is pinned. The reasons per part are in `PROJECT.json`.

## Plan

1. `FreeBlockQueue`: the doubly linked list of `kv_cache_utils.py`, shown to
   implement the sequence `KVCacheManager` uses, with its pointer invariants proved.
2. `MimirConnector` with `Scheduler`: a stored prefix holds only KV that was
   computed; a reload leaves the request with the KV of its own tokens; chunked
   prefill, preemption and hits on the whole prompt.
3. `EncoderCacheManager`: slots, references, the freeable list; proved inductive
   invariant for the slot counts.
4. Front end and `EngineCore`: outputs and aborts that cross; every client stream
   ends exactly once.
5. Theorems about `Scheduler`: its type invariant, `QueuesMatchStatus` and
   `BlocksHaveOwner`, and that `Spec => KVSpec` for all constants.
6. The shared-memory ring buffer between executor and workers, the data-parallel
   coordinator, `AsyncScheduler`, as far as bounds allow.
