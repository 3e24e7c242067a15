------------------------------- MODULE Scheduler -------------------------------
(***************************************************************************)
(* The v1 Scheduler with the Mimir pin/TTL extension, driven by the        *)
(* EngineCore busy loop, on top of KVCacheManager.                         *)
(*                                                                         *)
(* schedule() and update_from_output() run on one thread and nothing       *)
(* interleaves with them; they are split into micro-steps (step.pc) so     *)
(* that each performs at most one operation of the KV cache manager.       *)
(* Requests arrive, are aborted, and time passes between the engine's      *)
(* steps.  A request id is used for one request.                           *)
(***************************************************************************)
EXTENDS KVCacheManager

CONSTANTS Policy,                 \* "fcfs", "priority" or "mimir"
          MaxNumScheduledTokens,  \* max_num_scheduled_tokens
          MaxNumRunningReqs,      \* max_num_running_reqs
          LongPrefillThreshold,   \* long_prefill_token_threshold, 0: none
          ChunkedPrefill,         \* chunked_prefill_enabled
          BatchQueueSize,         \* 1: step(), more: step_with_batch_queue()
          PinTTL,                 \* mimir_pin_ttl, in ticks
          PromptOf,               \* request id -> prompt
          MetaOf,                 \* request id -> Meta
          OutputTokens,           \* the tokens that may be sampled
          LateAborts              \* aborts may reach requests that finished

(* What the scheduler reads of a request besides its tokens: vllm_xargs,   *)
(* whether it has a grammar, and its place in the (priority, arrival_time)  *)
(* order.                                                                  *)
NoRequest == 0
NoJob == 0              \* job_id is None
NoDuration == -1        \* no tool_duration was sent
Meta == [job_id : Nat, is_last_step : BOOLEAN, has_tool_call : BOOLEAN,
         tool_duration : Nat \cup {NoDuration}, use_structured_output : BOOLEAN, order : Nat]

ASSUME SchedulerAssumption ==
    /\ RequestIds \subseteq Nat \ {NoRequest}
    /\ Policy \in {"fcfs", "priority", "mimir"}
    /\ {MaxNumScheduledTokens, MaxNumRunningReqs, BatchQueueSize} \subseteq Nat \ {0}
    /\ {LongPrefillThreshold, PinTTL} \subseteq Nat
    /\ {ChunkedPrefill, LateAborts} \subseteq BOOLEAN
    /\ PromptOf \in [RequestIds -> Prompts]
    /\ OutputTokens \subseteq Tokens
    /\ MetaOf \in [RequestIds -> Meta]
    /\ \A q, r \in RequestIds : MetaOf[q].order = MetaOf[r].order => q = r

VARIABLES status,               \* Request.status
          num_computed_tokens,  \* Request.num_computed_tokens
          requests,             \* the keys of Scheduler.requests
          waiting,              \* the waiting queue, next request first
          running,
          finished_req_ids,
          pinned_requests,      \* [req, left]: left ticks until expiry
          job_tool_history,     \* job id -> [sum, len] of its durations
          grammar_ready,        \* requests whose grammar is compiled
          batch_queue,          \* scheduled batches, oldest first
          step,                 \* the locals of the step under way
          worker_requests,      \* the keys of GPUModelRunner.requests
          worker_num_tokens,    \* CachedRequestState.num_tokens, of the last rank
          written               \* block -> token prefix whose KV it holds

queueVars == <<status, num_computed_tokens, requests, waiting, running>>
lifeVars == <<finished_req_ids, pinned_requests, job_tool_history, grammar_ready>>
schedVars == <<queueVars, lifeVars, batch_queue, step>>
workerVars == <<worker_requests, worker_num_tokens, written>>
vars == <<kvVars, schedVars, workerVars>>

Jobs == {MetaOf[r].job_id : r \in RequestIds}

Idle == [pc |-> "idle", request |-> NoRequest, req_index |-> 1, token_budget |-> 0,
         scheduled |-> << >>, new_reqs |-> {}, resumed_reqs |-> {}, running_reqs |-> {},
         preempted |-> FALSE, skipped |-> << >>, todo |-> << >>,
         stopped_running |-> {}, stopped_preempted |-> {}]

Init ==
    /\ KVInit
    /\ status = [r \in RequestIds |-> "NONE"]
    /\ num_computed_tokens = [r \in RequestIds |-> 0]
    /\ requests = {}
    /\ waiting = << >> /\ running = << >>
    /\ finished_req_ids = {}
    /\ pinned_requests = << >>
    /\ job_tool_history = [j \in Jobs |-> [sum |-> 0, len |-> 0]]
    /\ grammar_ready = {}
    /\ batch_queue = << >>
    /\ step = Idle
    /\ worker_requests = {} /\ worker_num_tokens = [r \in RequestIds |-> 0]
    /\ written = [b \in Block |-> NoHash]

Finished(r) == status[r] \in {"FINISHED_STOPPED", "FINISHED_ABORTED"}
num_tokens(r) == Len(all_token_ids[r])

-------------------------------------------------------------------------------
(* The waiting queue: FCFSRequestQueue, or PriorityRequestQueue as the list *)
(* of its requests in the order they are popped.                           *)

HeapPush(queue, r) ==
    LET before(q) == MetaOf[q].order < MetaOf[r].order
    IN  Keep(queue, {q \in Range(queue) : before(q)}) \o << r >>
        \o Keep(queue, {q \in Range(queue) : ~ before(q)})

QueueAdd(queue, r) == IF Policy = "priority" THEN HeapPush(queue, r) ELSE Append(queue, r)
(* Mutant: a preempted request goes to the end of the queue. *)
QueuePrepend_AtEnd(queue, r) == Append(queue, r)
QueuePrepend(queue, r) == IF Policy = "priority" THEN HeapPush(queue, r) ELSE << r >> \o queue

(* Both queues hold each request once, so pushing all of q is a merge. *)
QueuePrependAll(queue, q) ==
    IF Policy # "priority" THEN q \o queue
    ELSE LET all == Range(q) \cup Range(queue)
             rank(r) == Cardinality({x \in all : MetaOf[x].order <= MetaOf[r].order})
         IN  [i \in 1..Cardinality(all) |-> CHOOSE r \in all : rank(r) = i]

-------------------------------------------------------------------------------
(* Finishing a request: pin its KV or free it. *)

(* _set_up_pin: the history after the call, and whether to pin. *)
RecordedHistory(r) ==
    LET j == MetaOf[r].job_id
    IN  IF MetaOf[r].has_tool_call /\ MetaOf[r].tool_duration # NoDuration
        THEN [job_tool_history EXCEPT ![j] = [sum |-> @.sum + MetaOf[r].tool_duration,
                                              len |-> @.len + 1]]
        ELSE job_tool_history
AverageExceedsTTL(h) == h.sum > PinTTL * h.len
set_up_pin(r) ==
    /\ MetaOf[r].has_tool_call /\ PinTTL > 0
    /\ ~ AverageExceedsTTL(RecordedHistory(r)[MetaOf[r].job_id])

MayPin(r) == Policy = "mimir" /\ MetaOf[r].job_id # NoJob /\ ~ MetaOf[r].is_last_step

(* Mutants: the request is dropped and its blocks are not, or the reverse. *)
free_blocks_KeepsEntry(r) == free(r) /\ UNCHANGED requests
free_blocks_KeepsKV(r) == requests' = requests \ {r} /\ UNCHANGED kvVars
free_blocks(r) == free(r) /\ requests' = requests \ {r}

free_request(r) ==
    /\ finished_req_ids' = finished_req_ids \cup {r}
    /\ job_tool_history' = IF MayPin(r) THEN RecordedHistory(r) ELSE job_tool_history
    /\ IF MayPin(r) /\ set_up_pin(r)
       THEN /\ pinned_requests' = Append(pinned_requests, [req |-> r, left |-> PinTTL])
            /\ UNCHANGED <<kvVars, requests>>
       ELSE /\ free_blocks(r)
            /\ UNCHANGED pinned_requests

-------------------------------------------------------------------------------
(* Between two steps of the engine: its input queue and the clock. *)

AddRequest(r) ==
    /\ step.pc = "idle" /\ status[r] = "NONE"
    /\ NewRequest(r, PromptOf[r])
    /\ status' = [status EXCEPT ![r] = IF MetaOf[r].use_structured_output
                                      THEN "WAITING_FOR_FSM" ELSE "WAITING"]
    /\ waiting' = QueueAdd(waiting, r)
    /\ requests' = requests \cup {r}
    /\ UNCHANGED <<num_computed_tokens, running, lifeVars, batch_queue, step, workerVars>>

(* Mutant: an aborted running request stays in the running list. *)
AbortRequest_KeepsRunning(r) ==
    /\ step.pc = "idle" /\ r \in requests /\ status[r] # "FINISHED_ABORTED"
    /\ Finished(r) => LateAborts
    /\ waiting' = Drop(waiting, {r})
    /\ status' = [status EXCEPT ![r] = "FINISHED_ABORTED"]
    /\ free_request(r)
    /\ UNCHANGED <<num_computed_tokens, running, grammar_ready, batch_queue, step, workerVars>>

(* abort_requests -> finish_requests(r, FINISHED_ABORTED).  An id that is   *)
(* not in self.requests is ignored; one that is finished but pinned is not. *)
(* The front end, which forgets an id when it aborts it, sends one abort.   *)
AbortRequest(r) ==
    /\ step.pc = "idle" /\ r \in requests /\ status[r] # "FINISHED_ABORTED"
    /\ Finished(r) => LateAborts
    /\ IF status[r] = "RUNNING"
       THEN running' = Drop(running, {r}) /\ UNCHANGED waiting
       ELSE waiting' = Drop(waiting, {r}) /\ UNCHANGED running
    /\ status' = [status EXCEPT ![r] = "FINISHED_ABORTED"]
    /\ free_request(r)
    /\ UNCHANGED <<num_computed_tokens, grammar_ready, batch_queue, step, workerVars>>

ResetPrefixCache ==
    /\ step.pc = "idle"
    /\ reset_prefix_cache
    /\ UNCHANGED <<schedVars, workerVars>>

(* A thread of the grammar backend finishes a compilation. *)
GrammarCompiled(r) ==
    /\ step.pc = "idle" /\ status[r] = "WAITING_FOR_FSM" /\ r \notin grammar_ready
    /\ grammar_ready' = grammar_ready \cup {r}
    /\ UNCHANGED <<kvVars, queueVars, finished_req_ids, pinned_requests, job_tool_history,
                   batch_queue, step, workerVars>>

(* The clock is read when pins are made and when they are expired. *)
Tick ==
    /\ step.pc \in {"idle", "execute"}
    /\ \E i \in 1..Len(pinned_requests) : pinned_requests[i].left > 0
    /\ pinned_requests' = [i \in 1..Len(pinned_requests) |->
                              [pinned_requests[i] EXCEPT !.left = IF @ > 0 THEN @ - 1 ELSE 0]]
    /\ UNCHANGED <<kvVars, queueVars, finished_req_ids, job_tool_history, grammar_ready,
                   batch_queue, step, workerVars>>

-------------------------------------------------------------------------------
(* schedule(). *)

has_requests == waiting # << >> \/ running # << >> \/ finished_req_ids # {}

StartStep ==
    /\ step.pc = "idle" /\ has_requests /\ Len(batch_queue) < BatchQueueSize
    /\ step' = [Idle EXCEPT !.pc = "expire", !.token_budget = MaxNumScheduledTokens]
    /\ UNCHANGED <<kvVars, queueVars, lifeVars, batch_queue, workerVars>>

(* Mutants: pins expire a tick early, or never. *)
Expired_Never == {}
Expired_Early == {i \in 1..Len(pinned_requests) : pinned_requests[i].left <= 1}
Expired == {i \in 1..Len(pinned_requests) : pinned_requests[i].left = 0}

(* _mimir_expire_pins, one expired pin after the other. *)
ExpirePin ==
    /\ step.pc = "expire" /\ Expired # {}
    /\ LET i == CHOOSE k \in Expired : \A j \in Expired : k <= j
           r == pinned_requests[i].req
       IN  /\ pinned_requests' = SubSeq(pinned_requests, 1, i - 1)
                                  \o SubSeq(pinned_requests, i + 1, Len(pinned_requests))
           /\ IF r \in requests THEN free_blocks(r) ELSE UNCHANGED <<kvVars, requests>>
    /\ UNCHANGED <<status, num_computed_tokens, waiting, running, finished_req_ids,
                   job_tool_history, grammar_ready, batch_queue, step, workerVars>>

ExpireDone ==
    /\ step.pc = "expire" /\ Expired = {}
    /\ step' = [step EXCEPT !.pc = "running"]
    /\ UNCHANGED <<kvVars, queueVars, lifeVars, batch_queue, workerVars>>

(* The request the loop over self.running is at. *)
Current == IF step.request # NoRequest THEN step.request ELSE running[step.req_index]
MoreRunning ==
    /\ step.pc = "running"
    /\ step.request # NoRequest \/ (step.req_index <= Len(running) /\ step.token_budget > 0)

Threshold(n) == IF 0 < LongPrefillThreshold /\ LongPrefillThreshold < n
                THEN LongPrefillThreshold ELSE n

(* num_new_tokens of a running request; the last bound may make it 0 or -1. *)
NumNewRunning(r) ==
    Min2(Min2(Threshold(num_tokens(r) - num_computed_tokens[r]), step.token_budget),
         MaxModelLen - 1 - num_computed_tokens[r])

(* Nothing to schedule for this request: go on with the next one. *)
SkipRunning ==
    /\ MoreRunning /\ NumNewRunning(Current) = 0
    /\ step' = [step EXCEPT !.req_index = @ + 1]
    /\ UNCHANGED <<kvVars, queueVars, lifeVars, batch_queue, workerVars>>

ScheduleRunningRequest ==
    /\ MoreRunning
    /\ LET r == Current
           n == NumNewRunning(r)
       IN  /\ n # 0
           /\ CanAllocate(r, num_computed_tokens[r] + n, << >>)
           /\ allocate_slots(r, num_computed_tokens[r] + n, << >>)
           /\ step' = [step EXCEPT !.request = NoRequest, !.req_index = @ + 1,
                                   !.token_budget = @ - n,
                                   !.running_reqs = @ \cup {r},
                                   !.scheduled = Append(@, [req |-> r, num |-> n])]
    /\ UNCHANGED <<queueVars, lifeVars, batch_queue, workerVars>>

(* Preempt the last running request, or the one of lowest priority, and try *)
(* again; a request that preempts itself ends the loop.                    *)
Preempt ==
    /\ MoreRunning
    /\ LET r == Current
           n == NumNewRunning(r)
           victim == IF Policy = "priority"
                     THEN CHOOSE v \in Range(running) :
                              \A q \in Range(running) : MetaOf[q].order <= MetaOf[v].order
                     ELSE running[Len(running)]
       IN  /\ n # 0 /\ ~ CanAllocate(r, num_computed_tokens[r] + n, << >>)
           /\ running' = Drop(running, {victim})
           /\ free(victim)
           /\ status' = [status EXCEPT ![victim] = "PREEMPTED"]
           /\ num_computed_tokens' = [num_computed_tokens EXCEPT ![victim] = 0]
           /\ waiting' = QueuePrepend(waiting, victim)
           /\ step' = [step EXCEPT
                  !.preempted = TRUE,
                  !.request = IF victim = r THEN NoRequest ELSE r,
                  !.pc = IF victim = r THEN "wrapup" ELSE "running",
                  !.running_reqs = IF Policy = "priority" THEN @ \ {victim} ELSE @]
    /\ UNCHANGED <<requests, lifeVars, batch_queue, workerVars>>

RunningDone ==
    /\ step.pc = "running" /\ ~ MoreRunning
    /\ step' = [step EXCEPT !.pc = IF step.preempted THEN "wrapup" ELSE "waiting"]
    /\ UNCHANGED <<kvVars, queueVars, lifeVars, batch_queue, workerVars>>

(* Mutant: max_num_running_reqs is not respected. *)
MoreWaiting_NoLimit == step.pc = "waiting" /\ waiting # << >> /\ step.token_budget > 0
MoreWaiting ==
    /\ step.pc = "waiting" /\ waiting # << >> /\ step.token_budget > 0
    /\ Len(running) # MaxNumRunningReqs

(* Mutant: a preempted request is taken for a new one. *)
ReadyStatus_Restarts(r) == IF status[r] = "WAITING_FOR_FSM" /\ r \notin grammar_ready
                           THEN "WAITING_FOR_FSM" ELSE "WAITING"
(* The status of a request whose grammar is ready becomes WAITING. *)
ReadyStatus(r) == IF status[r] = "WAITING_FOR_FSM" /\ r \in grammar_ready
                  THEN "WAITING" ELSE status[r]

(* Prefix-cache hits are looked up only if nothing is computed yet. *)
Hits(r) == IF num_computed_tokens[r] = 0 THEN get_computed_blocks(r) ELSE << >>
(* Mutant: the hits are not counted as computed. *)
NumComputed_NoHits(r) == num_computed_tokens[r]
NumComputed(r) == IF num_computed_tokens[r] = 0 THEN Len(Hits(r)) * BlockSize
                  ELSE num_computed_tokens[r]
WantedTokens(r) == Threshold(num_tokens(r) - NumComputed(r))
NumNewWaiting(r) == Min2(WantedTokens(r), step.token_budget)

MustSkip(r) == \/ ReadyStatus(r) = "WAITING_FOR_FSM"
               \/ ~ ChunkedPrefill /\ WantedTokens(r) > step.token_budget

SkipWaiting ==
    /\ MoreWaiting
    /\ LET r == Head(waiting)
       IN  /\ MustSkip(r)
           /\ status' = [status EXCEPT ![r] = ReadyStatus(r)]
           /\ waiting' = Tail(waiting)
           /\ step' = [step EXCEPT !.skipped = QueuePrepend(@, r)]
    /\ UNCHANGED <<kvVars, num_computed_tokens, requests, running, lifeVars, batch_queue,
                   workerVars>>

ScheduleWaitingRequest ==
    /\ MoreWaiting
    /\ LET r == Head(waiting)
           n == NumNewWaiting(r)
           total == NumComputed(r) + n
       IN  /\ ~ MustSkip(r) /\ CanAllocate(r, total, Hits(r))
           /\ allocate_slots(r, total, Hits(r))
           /\ waiting' = Tail(waiting)
           /\ running' = Append(running, r)
           /\ status' = [status EXCEPT ![r] = "RUNNING"]
           /\ num_computed_tokens' = [num_computed_tokens EXCEPT ![r] = NumComputed(r)]
           /\ step' = [step EXCEPT
                  !.new_reqs = IF ReadyStatus(r) = "WAITING" THEN @ \cup {r} ELSE @,
                  !.resumed_reqs = IF ReadyStatus(r) = "PREEMPTED" THEN @ \cup {r} ELSE @,
                  !.token_budget = @ - n,
                  !.scheduled = Append(@, [req |-> r, num |-> n])]
    /\ UNCHANGED <<requests, lifeVars, batch_queue, workerVars>>

(* No blocks for the request at the head: nobody behind it is tried. *)
WaitingBreak ==
    /\ MoreWaiting
    /\ LET r == Head(waiting)
       IN  /\ ~ MustSkip(r) /\ ~ CanAllocate(r, NumComputed(r) + NumNewWaiting(r), Hits(r))
           /\ status' = [status EXCEPT ![r] = ReadyStatus(r)]
    /\ step' = [step EXCEPT !.pc = "wrapup"]
    /\ UNCHANGED <<kvVars, num_computed_tokens, requests, waiting, running, lifeVars,
                   batch_queue, workerVars>>

WaitingDone ==
    /\ step.pc = "waiting" /\ ~ MoreWaiting
    /\ step' = [step EXCEPT !.pc = "wrapup"]
    /\ UNCHANGED <<kvVars, queueVars, lifeVars, batch_queue, workerVars>>

-------------------------------------------------------------------------------
(* The end of schedule(), and the batch it hands to the workers. *)

(* Mutant: a block used by two requests counts as shared by all. *)
get_num_common_prefix_blocks_Any(r, num_running) ==
    LET blks == req_to_blocks[r]
    IN  CHOOSE k \in 0..Len(blks) :
            /\ \A i \in 1..k : ref_cnt[blks[i]] >= 1
            /\ k < Len(blks) => ref_cnt[blks[k + 1]] < 1
(* The leading blocks of r whose reference count is the number of running   *)
(* requests.                                                               *)
get_num_common_prefix_blocks(r, num_running) ==
    LET blks == req_to_blocks[r]
    IN  CHOOSE k \in 0..Len(blks) :
            /\ \A i \in 1..k : ref_cnt[blks[i]] = num_running
            /\ k < Len(blks) => ref_cnt[blks[k + 1]] # num_running

(* The tokens the model runner knows of r when it executes this batch.  They *)
(* include those it has sampled and the scheduler has not seen yet, and they *)
(* are kept when r is preempted and resumed.                               *)
WorkerTokens(r) == IF r \in step.new_reqs THEN Len(PromptOf[r]) ELSE worker_num_tokens[r]

(* Mutants: a sample is never discarded; the scheduler's tokens decide      *)
(* whether the prefill is partial.                                         *)
Samples_Always(e) == TRUE
Samples_SchedulerCount(e) == num_computed_tokens[e.req] + e.num >= num_tokens(e.req)
(* The model runner discards what it samples after a partial prefill. *)
Samples(e) == num_computed_tokens[e.req] + e.num >= WorkerTokens(e.req)

Entry(e) == [req |-> e.req, num |-> e.num, num_tokens |-> WorkerTokens(e.req),
             seq_len |-> num_computed_tokens[e.req] + e.num, sample |-> Samples(e)]

SchedulerOutput ==
    [entries |-> [i \in 1..Len(step.scheduled) |-> Entry(step.scheduled[i])],
     total_num_scheduled_tokens |-> MaxNumScheduledTokens - step.token_budget,
     num_common_prefix_blocks |->
         IF running = << >> THEN 0
         ELSE get_num_common_prefix_blocks(running[1], Len(running))]

(* The positions of r's block list that hold the tokens scheduled for it. *)
WrittenPositions(e) ==
    LET r == e.req
        start == num_computed_tokens[r]
    IN  {i \in 1..Len(req_to_blocks[r]) :
            i \in start \div BlockSize + 1 .. cdiv(start + e.num, BlockSize)}

(* The KV that the forward pass of e leaves in block i of its request: the  *)
(* tokens up to there, if the part of the block it did not compute is the   *)
(* request's own.                                                          *)
WrittenBy(e, i) ==
    LET r == e.req
        start == num_computed_tokens[r]
        had == written[req_to_blocks[r][i]]
    IN  IF \/ (i - 1) * BlockSize >= start
           \/ Len(had) >= start /\ SubSeq(had, 1, start) = SubSeq(all_token_ids[r], 1, start)
        THEN SubSeq(all_token_ids[r], 1, Min2(start + e.num, i * BlockSize))
        ELSE NoHash

(* Batches execute in the order they are scheduled, so their effect on the  *)
(* KV blocks is applied here.  Blocks nobody can read any more are cleared. *)
ForwardPass ==
    written' = [b \in Block |->
        IF \E e \in Range(step.scheduled) : \E i \in WrittenPositions(e) :
               req_to_blocks[e.req][i] = b
        THEN LET e == CHOOSE x \in Range(step.scheduled) : \E i \in WrittenPositions(x) :
                          req_to_blocks[x.req][i] = b
                 i == CHOOSE j \in WrittenPositions(e) : req_to_blocks[e.req][j] = b
             IN  WrittenBy(e, i)
        ELSE IF ref_cnt[b] = 0 /\ block_hash[b] = NoHash THEN NoHash ELSE written[b]]

(* GPUModelRunner._update_states *)
UpdateStates == worker_requests' = (worker_requests \ finished_req_ids) \cup step.new_reqs

(* _bookkeeping_sync: a token that is not discarded is cached in the runner. *)
BookkeepingSync ==
    worker_num_tokens' =
        [r \in RequestIds |->
            IF r \in finished_req_ids THEN 0
            ELSE IF \E e \in Range(step.scheduled) : e.req = r /\ Samples(e)
            THEN WorkerTokens(r) + 1 ELSE WorkerTokens(r)]

(* Mutant: num_computed_tokens is advanced twice when a batch is scheduled. *)
ScheduledTokens_Twice(r) ==
    LET S == {i \in 1..Len(step.scheduled) : step.scheduled[i].req = r}
    IN  IF S = {} THEN 0 ELSE 2 * step.scheduled[CHOOSE i \in S : TRUE].num
ScheduledTokens(r) == LET S == {i \in 1..Len(step.scheduled) : step.scheduled[i].req = r}
                      IN  IF S = {} THEN 0 ELSE step.scheduled[CHOOSE i \in S : TRUE].num

Wrapup ==
    /\ step.pc = "wrapup"
    /\ waiting' = QueuePrependAll(waiting, step.skipped)
    /\ batch_queue' = Append(batch_queue, SchedulerOutput)
    /\ num_computed_tokens' =
           [r \in RequestIds |-> num_computed_tokens[r] + ScheduledTokens(r)]
    /\ finished_req_ids' = {}
    /\ ForwardPass /\ UpdateStates /\ BookkeepingSync
    /\ step' = [Idle EXCEPT !.pc = "execute"]
    /\ UNCHANGED <<kvVars, status, requests, running, pinned_requests, job_tool_history,
                   grammar_ready>>

(* step_with_batch_queue returns while the oldest batch is still executing. *)
ReturnEarly ==
    /\ step.pc = "execute" /\ Len(batch_queue) < BatchQueueSize
    /\ batch_queue[Len(batch_queue)].total_num_scheduled_tokens > 0
    /\ step' = Idle
    /\ UNCHANGED <<kvVars, queueVars, lifeVars, batch_queue, workerVars>>

(* Otherwise it blocks until the oldest batch is finished. *)
PopBatch ==
    /\ \/ step.pc = "execute"
       \/ step.pc = "idle" /\ ~ has_requests /\ batch_queue # << >>
    /\ step' = [Idle EXCEPT !.pc = "update", !.todo = Head(batch_queue).entries]
    /\ batch_queue' = Tail(batch_queue)
    /\ UNCHANGED <<kvVars, queueVars, lifeVars, workerVars>>

-------------------------------------------------------------------------------
(* update_from_output(), one entry of num_scheduled_tokens at a time. *)

(* The request is gone, or its prefill is partial. *)
UpdateNothing ==
    /\ step.pc = "update" /\ step.todo # << >>
    /\ LET e == Head(step.todo)
       IN  e.req \notin requests \/ ~ e.sample
    /\ step' = [step EXCEPT !.todo = Tail(@)]
    /\ UNCHANGED <<kvVars, queueVars, lifeVars, batch_queue, workerVars>>

(* check_stop: forced at max_model_len; an end-of-sequence token, a stop    *)
(* token or max_tokens may come at any token before.                       *)
StopChoices(r) == IF num_tokens(r) + 1 >= MaxModelLen THEN {TRUE} ELSE BOOLEAN

UpdateToken ==
    /\ step.pc = "update" /\ step.todo # << >>
    /\ LET e == Head(step.todo)
           r == e.req
       IN  /\ r \in requests /\ e.sample
           /\ \E t \in OutputTokens : all_token_ids' = [all_token_ids EXCEPT ![r] = Append(@, t)]
           /\ \E stopped \in StopChoices(r) :
                 IF stopped
                 THEN /\ status' = [status EXCEPT ![r] = "FINISHED_STOPPED"]
                      /\ step' = [step EXCEPT
                             !.todo = Tail(@), !.pc = "free", !.request = r,
                             !.stopped_running = IF status[r] = "RUNNING" THEN @ \cup {r} ELSE @,
                             !.stopped_preempted = IF status[r] = "RUNNING" THEN @ ELSE @ \cup {r}]
                 ELSE /\ step' = [step EXCEPT !.todo = Tail(@)]
                      /\ UNCHANGED status
    /\ UNCHANGED <<pool, req_to_blocks, num_cached_block, assert_failed, num_computed_tokens,
                   requests, waiting, running, lifeVars, batch_queue, workerVars>>

UpdateFree ==
    /\ step.pc = "free"
    /\ free_request(step.request)
    /\ step' = [step EXCEPT !.pc = "update", !.request = NoRequest]
    /\ UNCHANGED <<status, num_computed_tokens, waiting, running, grammar_ready, batch_queue,
                   workerVars>>

UpdateDone ==
    /\ step.pc = "update" /\ step.todo = << >>
    /\ running' = Drop(running, step.stopped_running)
    /\ waiting' = Drop(waiting, step.stopped_preempted)
    /\ step' = Idle
    /\ UNCHANGED <<kvVars, status, num_computed_tokens, requests, lifeVars, batch_queue,
                   workerVars>>

-------------------------------------------------------------------------------
(* _process_input_queue blocks on an empty input queue. *)
WaitForInput ==
    /\ step.pc = "idle" /\ ~ has_requests /\ batch_queue = << >>
    /\ UNCHANGED vars

EngineStep ==
    \/ StartStep \/ ExpirePin \/ ExpireDone
    \/ SkipRunning \/ ScheduleRunningRequest \/ Preempt \/ RunningDone
    \/ SkipWaiting \/ ScheduleWaitingRequest \/ WaitingBreak \/ WaitingDone
    \/ Wrapup \/ ReturnEarly \/ PopBatch
    \/ UpdateNothing \/ UpdateToken \/ UpdateFree \/ UpdateDone

Next ==
    \/ EngineStep
    \/ WaitForInput
    \/ Tick
    \/ ResetPrefixCache
    \/ \E r \in RequestIds : AddRequest(r) \/ AbortRequest(r) \/ GrammarCompiled(r)

Spec == Init /\ [][Next]_vars

(* The busy loop keeps stepping while it has requests.  The clock and the    *)
(* grammar backend advance whatever the engine does; they are modelled      *)
(* between its steps only, hence strong fairness.  Arrivals and aborts need *)
(* not happen.                                                             *)
Fairness ==
    /\ WF_vars(EngineStep)
    /\ SF_vars(Tick)
    /\ \A r \in RequestIds : SF_vars(GrammarCompiled(r))

FairSpec == Spec /\ Fairness

-------------------------------------------------------------------------------
(* Properties. *)

Between == step.pc = "idle"     \* no call of the scheduler is under way

(* The state of the scheduler has its type. *)
SchedTypeOK ==
    /\ status \in [RequestIds -> {"NONE", "WAITING", "WAITING_FOR_FSM", "RUNNING", "PREEMPTED",
                                  "FINISHED_STOPPED", "FINISHED_ABORTED"}]
    /\ num_computed_tokens \in [RequestIds -> 0..MaxModelLen]
    /\ requests \subseteq RequestIds
    /\ waiting \in Seq(RequestIds) /\ running \in Seq(RequestIds)
    /\ finished_req_ids \subseteq RequestIds
    /\ pinned_requests \in Seq([req : RequestIds, left : 0..PinTTL])
    /\ job_tool_history \in [Jobs -> [sum : Nat, len : Nat]]
    /\ grammar_ready \subseteq RequestIds
    /\ Len(batch_queue) <= BatchQueueSize
    /\ worker_requests \subseteq RequestIds
    /\ worker_num_tokens \in [RequestIds -> Nat]
    /\ written \in [Block -> Seq(Tokens)]

Pinned == {pinned_requests[i].req : i \in 1..Len(pinned_requests)}

(* Between the calls every request the scheduler knows is in exactly one    *)
(* place: the running list, the waiting queue, or - finished - a pin; the   *)
(* status says which, whatever order arrivals, preemptions, aborts, stops   *)
(* and expiries come in.                                                   *)
QueuesMatchStatus ==
    Between =>
        /\ NoDup(running) /\ NoDup(waiting)
        /\ Range(running) = {r \in RequestIds : status[r] = "RUNNING"}
        /\ Range(waiting) =
               {r \in RequestIds : status[r] \in {"WAITING", "WAITING_FOR_FSM", "PREEMPTED"}}
        /\ requests = Range(running) \cup Range(waiting)
                      \cup {r \in Pinned : r \in requests /\ Finished(r)}

(* Blocks are held only by running requests and by finished ones that a pin *)
(* will still free: nothing leaks, also when a pinned request is aborted    *)
(* and pinned or freed a second time.                                      *)
BlocksHaveOwner ==
    Between => \A r \in RequestIds :
        req_to_blocks[r] # << >> => \/ status[r] = "RUNNING"
                                    \/ Finished(r) /\ r \in requests /\ r \in Pinned

(* The KV that a request is taken to have computed is really in its blocks, *)
(* and a cached block holds the KV of the prefix it is cached under - also  *)
(* though blocks are cached when they are scheduled, before the model runs. *)
ComputedIsWritten ==
    step.pc \in {"idle", "execute"} =>
        /\ \A r \in Range(running) : \A i \in 1..cdiv(num_computed_tokens[r], BlockSize) :
              /\ i <= Len(req_to_blocks[r])
              /\ written[req_to_blocks[r][i]] =
                     SubSeq(all_token_ids[r], 1, Min2(num_computed_tokens[r], i * BlockSize))
        /\ \A b \in Block : block_hash[b] # NoHash => written[b] = block_hash[b]

(* The asserts of schedule() and update_from_output() and the assert of     *)
(* step_with_batch_queue on the length of the queue.                       *)
SchedulerAsserts ==
    /\ step.pc = "wrapup" =>
          /\ step.token_budget >= 0
          /\ Len(running) <= MaxNumRunningReqs
          /\ Cardinality(step.new_reqs) + Cardinality(step.resumed_reqs)
             + Cardinality(step.running_reqs) <= Len(running)
    /\ MoreWaiting /\ ~ MustSkip(Head(waiting)) =>
          /\ NumNewWaiting(Head(waiting)) > 0
          /\ ReadyStatus(Head(waiting)) \in {"WAITING", "PREEMPTED"}
    /\ \A i \in 1..Len(step.todo) : step.todo[i].num > 0
    /\ step.pc = "idle" => Len(batch_queue) < BatchQueueSize

(* Without a connector that loads KV asynchronously, nothing is computed    *)
(* for a request in the waiting queue: a preempted request starts over.     *)
NothingComputedWaiting ==
    Between => \A r \in Range(waiting) : num_computed_tokens[r] = 0

(* The workers know every request they get only an update for, and no       *)
(* request that is sent to them as new: the messages about finished         *)
(* requests and the three lists of a batch fit together.                   *)
WorkersInStep ==
    step.pc = "wrapup" =>
        /\ step.running_reqs \cup step.resumed_reqs \subseteq worker_requests \ finished_req_ids
        /\ step.new_reqs \cap (worker_requests \ finished_req_ids) = {}

(* A token that update_from_output appends was sampled from the very tokens *)
(* it is appended to, and has the same place in the model runner's request: *)
(* batches in flight, preemptions and resumptions never apply a result to   *)
(* the wrong position, twice or late.                                      *)
TokensInOrder ==
    step.pc = "update" /\ step.todo # << >> =>
        LET e == Head(step.todo)
        IN  e.req \in requests /\ e.sample =>
                e.seq_len = num_tokens(e.req) /\ e.num_tokens = num_tokens(e.req)

(* What the workers are told to be the common prefix is shared by all the   *)
(* running requests (cascade attention reads it for each of them).         *)
CommonPrefixShared ==
    step.pc = "execute" =>
        \A i \in 1..batch_queue[Len(batch_queue)].num_common_prefix_blocks :
            \A r \in Range(running) :
                i <= Len(req_to_blocks[r]) /\ req_to_blocks[r][i] = req_to_blocks[running[1]][i]

(* A finished request stays as it finished: neither a late abort nor the    *)
(* output of a batch in flight changes its status or its tokens.           *)
FinishedIsFinal ==
    [][\A r \in RequestIds : Finished(r) =>
          status'[r] = status[r] /\ all_token_ids'[r] = all_token_ids[r]]_vars

(* Until its TTL has elapsed, a pin keeps the finished request's blocks     *)
(* allocated and cached, whatever else is scheduled, preempted or evicted - *)
(* unless an abort finishes the request again, which may free it, or pin it *)
(* twice and leave the second pin without blocks.                          *)
PinnedKVStays ==
    [][\A i \in 1..Len(pinned_requests) :
          LET r == pinned_requests[i].req
              once == \A j \in 1..Len(pinned_requests) : pinned_requests[j].req = r => i = j
          IN  pinned_requests[i].left > 0 /\ once /\ status'[r] = status[r] =>
                  /\ req_to_blocks'[r] = req_to_blocks[r]
                  /\ \A b \in Range(req_to_blocks[r]) :
                        ref_cnt'[b] > 0 /\ block_hash'[b] = block_hash[b]]_vars

SharedPrefixBlocks(q, r) ==
    {k \in 0..num_cached_block[q] :
        /\ k * BlockSize < num_tokens(r)
        /\ BlockHash(all_token_ids[q], k) = BlockHash(all_token_ids[r], k)}

(* The point of a pin: a request that waits while a request with a common   *)
(* prefix is pinned gets every full block of that prefix from the cache,    *)
(* unless it asks for the logprobs of its prompt.                          *)
PinServesNextTurn ==
    \A q \in Pinned \cap requests : \A r \in Range(waiting) \ PromptLogprobs :
        Tracked(q) => \A k \in SharedPrefixBlocks(q, r) : Len(get_computed_blocks(r)) >= k

(* First come, first served: preemption and resumption included, a request  *)
(* never passes one that is ahead of it.                                   *)
FCFSOrder ==
    [][\A q, r \in RequestIds :
          Before(running \o waiting, q, r) => ~ Before((running \o waiting)', r, q)]_vars

(* The requests waiting, in the order they are to be tried again: those     *)
(* skipped in this step, then the others.                                  *)
WaitingLine == Backwards(step.skipped) \o waiting

(* Requests that a step skips keep their order.                            *)
SkippedKeepOrder ==
    [][\A q, r \in RequestIds : Before(WaitingLine, q, r) => ~ Before(WaitingLine', r, q)]_vars

(* Every request that arrives is finished sooner or later, although         *)
(* requests are preempted and pins hold blocks back.                       *)
EveryRequestFinishes ==
    \A r \in RequestIds : status[r] # "NONE" ~> Finished(r)
===============================================================================
