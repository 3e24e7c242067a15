------------------------------ MODULE MCScheduler ------------------------------
(***************************************************************************)
(* Small instances of Scheduler.                                           *)
(***************************************************************************)
EXTENDS Scheduler

Plain(n) == [job_id |-> NoJob, is_last_step |-> FALSE, has_tool_call |-> FALSE,
             tool_duration |-> NoDuration, use_structured_output |-> FALSE, order |-> n]
Turn(n, dur) == [Plain(n) EXCEPT !.job_id = 1, !.has_tool_call = TRUE, !.tool_duration = dur]
Guided(n) == [Plain(n) EXCEPT !.use_structured_output = TRUE]

(* Two turns of one agent job, the second extending the first, and a        *)
(* request of somebody else.                                               *)
AgentPrompts == << <<1, 1>>, <<1, 1, 1>>, <<2, 1>> >>
AgentMeta == << Turn(1, 1), Turn(2, 1), Plain(3) >>

(* Three requests that compete for the blocks, one with a grammar. *)
MixedPrompts == << <<1, 1, 1>>, <<1, 1>>, <<1, 2>> >>
MixedMeta == << Plain(1), Guided(2), Plain(3) >>

(* A shared two-block prefix that only some running requests have. *)
PrefixPrompts == << <<1, 1, 1>>, <<1, 1, 1>>, <<2>> >>
PrefixMeta == << Turn(1, 1), Plain(2), Plain(3) >>

(* A prompt of max_model_len tokens. *)
FullPrompts == << <<1, 1, 1, 1>>, <<2, 1>> >>
PlainMeta == << Plain(1), Plain(2) >>

(* Two requests with nothing in common, with and without grammars. *)
ShortPrompts == << <<1, 1>>, <<2, 1>> >>
GuidedMeta == << Guided(1), Guided(2) >>

(* A prompt that takes two chunks, and one that takes one. *)
ChunkPrompts == << <<1, 1, 1>>, <<2, 1>> >>

(* Turns and a stranger that together need more blocks than there are. *)
LivePrompts == << <<1, 1>>, <<1, 1, 1>>, <<2, 1, 1>> >>
LiveMeta == << Turn(1, 1), [Turn(2, 1) EXCEPT !.use_structured_output = TRUE], Plain(3) >>

AllPrompts == {PromptOf[r] : r \in RequestIds}
===============================================================================
