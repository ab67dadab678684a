------------------------------ MODULE Scheduler ------------------------------
(***************************************************************************)
(* The scheduler: crates/einf-control/src/scheduler.rs with the request    *)
(* record of request.rs and the policies of policy.rs, on top of the cache *)
(* manager it owns.                                                        *)
(*                                                                         *)
(* Every method takes &mut self, so a call runs to its end before the next *)
(* one starts: `phase` is the place of the call in progress, and a client  *)
(* calls when it is "idle".  One step is one turn of a loop of the call.   *)
(* A call that is refused changes nothing (a rejected result puts the plan *)
(* back): those calls are not steps.  A request's completion reason, error *)
(* message, sampling parameters and sample index (the number of generated  *)
(* tokens), and the batch's step id, are left out.                         *)
(***************************************************************************)
EXTENDS KvCacheManager, SequencesExt

CONSTANTS
  Prompt,        \* the prompt of each request
  MaxNewLen,     \* how many tokens each request may generate
  OutToken,      \* tokens the model may sample
  MaxBatchLen,   \* SchedulerConfig.max_batch_len
  MaxChunk,      \* SchedulerConfig.max_prefill_chunk_len
  Policy         \* "Fcfs" or "DecodeFirst"

ASSUME PromptAssumption    == Prompt \in [Request -> Seq(Token) \ {<<>>}]
ASSUME MaxNewLenAssumption == MaxNewLen \in [Request -> Nat \ {0}]
ASSUME OutTokenAssumption  == OutToken \subseteq Token /\ OutToken # {}
ASSUME ConfigAssumption    == /\ MaxBatchLen \in Nat \ {0}
                              /\ MaxChunk \in Nat \ {0}
                              /\ Policy \in {"Fcfs", "DecodeFirst"}

VARIABLES
  (* The fields of a Request. *)
  state, generated, cached_len, arrival_index,
  (* The scheduler's queues.  The order of `running` is never used: every   *)
  (* reader sorts it, so it is a set.                                       *)
  waiting, running, next_arrival,
  (* `batch` is the list `selected` while schedule runs, `outstanding` when *)
  (* idle (<<>> is None), and what apply_result or fail_batch have still to *)
  (* visit while they run.                                                  *)
  batch,
  (* The call in progress and the locals of schedule: the snapshot of the   *)
  (* running ids still to visit and the token budget left.                  *)
  phase, todo, remaining

requestVars == <<state, generated, cached_len, arrival_index>>
queueVars   == <<waiting, running, next_arrival>>
callVars    == <<phase, todo, remaining>>
cacheVars   == <<pool, allocations>>
schedVars   == <<requestVars, queueVars, callVars, cacheVars, batch>>

-----------------------------------------------------------------------------
Terminal == {"Finished", "Cancelled", "Failed"}

Context(r)      == Prompt[r] \o generated[r]
WorkIsDecode(r) == cached_len[r] >= Len(Prompt[r])

(***************************************************************************)
(* policy.compare(a, b) = Less.  Arrival indices are unique, so the id     *)
(* never breaks a tie.                                                     *)
(***************************************************************************)
Before(a, b) ==
  \/ /\ Policy = "DecodeFirst"
     /\ WorkIsDecode(a) /\ ~WorkIsDecode(b)
  \/ /\ Policy = "DecodeFirst" => (WorkIsDecode(a) <=> WorkIsDecode(b))
     /\ arrival_index[a] < arrival_index[b]

(***************************************************************************)
(* ordered_running_ids, as the set of the one sequence it returns, and     *)
(* victim_id: the last of them that the call has not scheduled.            *)
(***************************************************************************)
RunningIds == {r \in running : state[r] = "Running"}

OrderedRunningIds ==
  {ids \in [1 .. Cardinality(RunningIds) -> RunningIds] :
     \A i, j \in DOMAIN ids : i < j => Before(ids[i], ids[j])}

Scheduled(r) == \E i \in DOMAIN batch : batch[i].id = r   \* also batch_contains

\* Mutant: the first instead of the last.
IsFirstVictim(v) ==
  /\ v \in RunningIds /\ ~Scheduled(v)
  /\ \A q \in RunningIds \ {v} : ~Scheduled(q) => Before(v, q)

IsVictim(v) ==
  /\ v \in RunningIds /\ ~Scheduled(v)
  /\ \A q \in RunningIds \ {v} : ~Scheduled(q) => Before(q, v)

-----------------------------------------------------------------------------
(* schedule_one.  `plan` is the reuse plan, <<>> for a running request.    *)

Start(r, plan) == IF plan = <<>> THEN cached_len[r] ELSE Len(plan) * BlockLen

Pending(r, plan) ==
  IF plan = <<>> /\ WorkIsDecode(r) THEN 1 ELSE Len(Context(r)) - Start(r, plan)

ScheduledLen(r, plan) ==
  IF plan = <<>> /\ WorkIsDecode(r)
  THEN Min({1, remaining})
  ELSE Min({MaxChunk, Pending(r, plan), remaining})

Required(r, plan) == Start(r, plan) + ScheduledLen(r, plan)

InsufficientBlocks(r, plan) ==
  ~CanReserve(pool, MissingBlocks(r, plan, Required(r, plan)))

ScheduleOne(r, plan) ==
  /\ ReserveTo(r, plan, Required(r, plan))
  /\ batch' = Append(batch,
       [id          |-> r,
        input       |-> SubSeq(Context(r), Start(r, plan) + 1, Required(r, plan)),
        start       |-> Start(r, plan),
        block_table |-> allocations'[r],
        need_sample |-> ScheduledLen(r, plan) = Pending(r, plan)])
  /\ remaining' = remaining - ScheduledLen(r, plan)

-----------------------------------------------------------------------------
(* What preempt_id and fail_id do to a request.                            *)

\* Mutant: the cached length survives the loss of the blocks.
PreemptRequestKeepsLength(r) ==
  /\ state' = [state EXCEPT ![r] = "Waiting"]
  /\ UNCHANGED <<generated, cached_len, arrival_index>>

\* Mutant: the request starts over.
PreemptRequestForgets(r) ==
  /\ state' = [state EXCEPT ![r] = "Waiting"]
  /\ cached_len' = [cached_len EXCEPT ![r] = 0]
  /\ generated' = [generated EXCEPT ![r] = <<>>]
  /\ UNCHANGED arrival_index

PreemptRequest(r) ==
  /\ state' = [state EXCEPT ![r] = "Waiting"]
  /\ cached_len' = [cached_len EXCEPT ![r] = 0]
  /\ UNCHANGED <<generated, arrival_index>>

\* Mutant: a victim goes to the back of the queue.
PreemptIdToBack(r) ==
  /\ PreemptRequest(r)
  /\ running' = running \ {r}
  /\ waiting' = Append(waiting, r)
  /\ ReleaseAllocation(r)

\* Mutant: a victim is not queued again.
PreemptIdLoses(r) ==
  /\ PreemptRequest(r)
  /\ running' = running \ {r}
  /\ ReleaseAllocation(r)
  /\ UNCHANGED waiting

PreemptId(r) ==
  /\ PreemptRequest(r)
  /\ running' = running \ {r}
  /\ waiting' = <<r>> \o waiting
  /\ ReleaseAllocation(r)

FailId(r) ==
  /\ state' = [state EXCEPT ![r] = "Failed"]
  /\ running' = running \ {r}
  /\ ReleaseAllocation(r)
  /\ UNCHANGED <<generated, cached_len, arrival_index, waiting>>

-----------------------------------------------------------------------------
Init ==
  /\ ManagerInit
  /\ state = [r \in Request |-> "Unsubmitted"]
  /\ generated = [r \in Request |-> <<>>]
  /\ cached_len = [r \in Request |-> 0]
  /\ arrival_index = [r \in Request |-> 0]
  /\ waiting = <<>> /\ running = {} /\ next_arrival = 0
  /\ batch = <<>>
  /\ phase = "idle" /\ todo = <<>> /\ remaining = 0

Submit(r) ==
  /\ phase = "idle"
  /\ state[r] = "Unsubmitted"
  /\ state' = [state EXCEPT ![r] = "Waiting"]
  /\ arrival_index' = [arrival_index EXCEPT ![r] = next_arrival]
  /\ next_arrival' = next_arrival + 1
  /\ waiting' = Append(waiting, r)
  /\ UNCHANGED <<generated, cached_len, running, callVars, cacheVars, batch>>

\* cancel: retain drops the id from both queues, which hold it at most once.

\* Mutant: a waiting request stays in the queue.
CancelKeepsWaiting(r) ==
  /\ phase = "idle"
  /\ state[r] \in {"Waiting", "Running"}
  /\ ~Scheduled(r)
  /\ state' = [state EXCEPT ![r] = "Cancelled"]
  /\ running' = running \ {r}
  /\ ReleaseAllocation(r)
  /\ UNCHANGED <<generated, cached_len, arrival_index, waiting, next_arrival, callVars, batch>>

\* Mutant: a request of the outstanding batch can be cancelled.
CancelInFlight(r) ==
  /\ phase = "idle"
  /\ state[r] \in {"Waiting", "Running"}
  /\ state' = [state EXCEPT ![r] = "Cancelled"]
  /\ running' = running \ {r}
  /\ waiting' = RemoveFirst(waiting, r)
  /\ ReleaseAllocation(r)
  /\ UNCHANGED <<generated, cached_len, arrival_index, next_arrival, callVars, batch>>

Cancel(r) ==
  /\ phase = "idle"
  /\ state[r] \in {"Waiting", "Running"}
  /\ ~Scheduled(r)
  /\ state' = [state EXCEPT ![r] = "Cancelled"]
  /\ running' = running \ {r}
  /\ waiting' = RemoveFirst(waiting, r)
  /\ ReleaseAllocation(r)
  /\ UNCHANGED <<generated, cached_len, arrival_index, next_arrival, callVars, batch>>

(***************************************************************************)
(* schedule: the running loop over a snapshot of the running ids.          *)
(***************************************************************************)
Schedule ==
  /\ phase = "idle"
  /\ batch = <<>>
  /\ phase' = "running"
  /\ todo' \in OrderedRunningIds
  /\ remaining' = MaxBatchLen
  /\ UNCHANGED <<requestVars, queueVars, cacheVars, batch>>

Visiting(r) ==
  /\ phase = "running"
  /\ remaining > 0
  /\ todo # <<>> /\ r = Head(todo)

SkipRunning(r) ==    \* preempted since the snapshot
  /\ Visiting(r)
  /\ state[r] # "Running"
  /\ todo' = Tail(todo)
  /\ UNCHANGED <<requestVars, queueVars, phase, remaining, cacheVars, batch>>

ScheduleRunning(r) ==
  /\ Visiting(r)
  /\ state[r] = "Running"
  /\ ~InsufficientBlocks(r, <<>>)
  /\ ScheduleOne(r, <<>>)
  /\ todo' = Tail(todo)
  /\ UNCHANGED <<requestVars, queueVars, phase>>

(***************************************************************************)
(* preempt_id on the victim; the loop then tries r again.                  *)
(***************************************************************************)
Preempt(r, victim) ==
  /\ Visiting(r)
  /\ state[r] = "Running"
  /\ InsufficientBlocks(r, <<>>)
  /\ IsVictim(victim) /\ victim # r
  /\ PreemptId(victim)
  /\ UNCHANGED <<next_arrival, callVars, batch>>

(***************************************************************************)
(* fail_id: r is itself the victim.  (There always is a victim, r itself   *)
(* is one.)                                                                *)
(***************************************************************************)
FailRunning(r) ==
  /\ Visiting(r)
  /\ state[r] = "Running"
  /\ InsufficientBlocks(r, <<>>)
  /\ IsVictim(r)
  /\ FailId(r)
  /\ todo' = Tail(todo)
  /\ UNCHANGED <<next_arrival, phase, remaining, batch>>

RunningLoopEnd ==
  /\ phase = "running"
  /\ todo = <<>> \/ remaining = 0
  /\ phase' = "waiting"
  /\ todo' = <<>>
  /\ UNCHANGED <<requestVars, queueVars, remaining, cacheVars, batch>>

(***************************************************************************)
(* schedule: the waiting loop, and its end.                                *)
(***************************************************************************)
Plan(r) ==
  LET k == CHOOSE k \in 0 .. Len(Prompt[r]) : IsReuse(pool, Prompt[r], k)
  IN ReusePlan(pool, Prompt[r], k)

AdmitWaiting(r) ==
  /\ phase = "waiting"
  /\ remaining > 0
  /\ waiting # <<>> /\ r = Head(waiting)
  /\ ~InsufficientBlocks(r, Plan(r))
  /\ ScheduleOne(r, Plan(r))
  /\ waiting' = Tail(waiting)
  /\ state' = [state EXCEPT ![r] = "Running"]
  /\ cached_len' = [cached_len EXCEPT ![r] = @ + Len(Plan(r)) * BlockLen]
  /\ running' = running \cup {r}
  /\ UNCHANGED <<generated, arrival_index, next_arrival, phase, todo>>

ScheduleEnd ==
  /\ phase = "waiting"
  /\ \/ remaining = 0
     \/ waiting = <<>>
     \/ waiting # <<>> /\ InsufficientBlocks(Head(waiting), Plan(Head(waiting)))
  /\ phase' = "idle"
  /\ remaining' = 0
  /\ UNCHANGED <<requestVars, queueVars, todo, cacheVars, batch>>

-----------------------------------------------------------------------------
(***************************************************************************)
(* apply_result with a result that passes the validation: one entry per    *)
(* item of the batch in any order, a token exactly for the items that      *)
(* sample, and is_eos as the executor says.                                *)
(***************************************************************************)
ApplyResult ==
  /\ phase = "idle"
  /\ batch # <<>>
  /\ phase' = "apply"
  /\ UNCHANGED <<requestVars, queueVars, todo, remaining, cacheVars, batch>>

Completes(r, tokens, is_eos) ==
  is_eos \/ Len(generated[r]) + Len(tokens) = MaxNewLen[r]

ApplyItem(i, tokens, is_eos) ==
  LET item == batch[i]
      r    == item.id
  IN /\ phase = "apply"
     /\ (tokens # <<>>) = item.need_sample
     /\ LET done == Completes(r, tokens, is_eos)
        IN /\ state' = [state EXCEPT ![r] = IF done THEN "Finished" ELSE @]
           /\ phase' = IF done THEN "release" ELSE "apply"
     /\ generated' = [generated EXCEPT ![r] = @ \o tokens]
     /\ cached_len' = [cached_len EXCEPT ![r] = @ + Len(item.input)]
     /\ SealBlocks(r, SubSeq(Prompt[r] \o generated'[r], 1, cached_len'[r]),
                   FullBlocks(cached_len[r]))
     /\ batch' = RemoveAt(batch, i)
     /\ UNCHANGED <<arrival_index, queueVars, todo, remaining>>

ReleaseFinished(r) ==
  /\ phase = "release"
  /\ r \in running /\ state[r] \in Terminal
  /\ running' = running \ {r}
  /\ ReleaseAllocation(r)
  /\ phase' = "apply"
  /\ UNCHANGED <<requestVars, waiting, next_arrival, todo, remaining, batch>>

FailBatch ==
  /\ phase = "idle"
  /\ batch # <<>>
  /\ phase' = "fail"
  /\ UNCHANGED <<requestVars, queueVars, todo, remaining, cacheVars, batch>>

FailItem(r) ==
  /\ phase = "fail"
  /\ batch # <<>> /\ r = Head(batch).id
  /\ FailId(r)
  /\ batch' = Tail(batch)
  /\ UNCHANGED <<next_arrival, callVars>>

ResultEnd ==
  /\ phase \in {"apply", "fail"}
  /\ batch = <<>>
  /\ phase' = "idle"
  /\ UNCHANGED <<requestVars, queueVars, todo, remaining, cacheVars, batch>>

-----------------------------------------------------------------------------
(* The steps inside a call.                                                *)

Within ==
  \/ \E r \in Request :
       \/ SkipRunning(r) \/ ScheduleRunning(r) \/ FailRunning(r)
       \/ \E victim \in Request : Preempt(r, victim)
       \/ AdmitWaiting(r)
       \/ ReleaseFinished(r)
       \/ FailItem(r)
  \/ \E i \in DOMAIN batch, tokens \in {<<>>} \cup {<<t>> : t \in OutToken}, is_eos \in BOOLEAN :
       ApplyItem(i, tokens, is_eos)
  \/ RunningLoopEnd \/ ScheduleEnd \/ ResultEnd

Next ==
  \/ \E r \in Request : Submit(r) \/ Cancel(r)
  \/ Schedule \/ ApplyResult \/ FailBatch
  \/ Within

Spec == Init /\ [][Next]_schedVars

(***************************************************************************)
(* A call that started returns, and the driver (LLMServer.run_once, called *)
(* until everything is done) keeps scheduling and answering batches.       *)
(* Nothing is assumed of submit, cancel and fail_batch.                    *)
(***************************************************************************)
FairSpec ==
  /\ Spec
  /\ WF_schedVars(Within)
  /\ WF_schedVars(Schedule)
  /\ WF_schedVars(ApplyResult)

-----------------------------------------------------------------------------
(***************************************************************************)
(* The cache manager of the scheduler, seen as the specification KvCache:  *)
(* what is cached of a running request is the prefix of its context that   *)
(* cached_len counts, and what is in flight is the input of its item.      *)
(***************************************************************************)
Written(r)  == IF r \in running THEN SubSeq(Context(r), 1, cached_len[r]) ELSE <<>>
InFlight(r) == IF Scheduled(r) THEN batch[CHOOSE i \in DOMAIN batch : batch[i].id = r].input
                               ELSE <<>>

Texts ==
  UNION {UNION {Prefixes(Prompt[r] \o g) : g \in BoundedSeq(OutToken, MaxNewLen[r])} :
           r \in Request}

Cache == INSTANCE KvCache WITH
           Texts    <- Texts,
           written  <- [r \in Request |-> Written(r)],
           inflight <- [r \in Request |-> InFlight(r)]

(***************************************************************************)
(* Every call on the cache manager is one that KvCache allows: tokens are  *)
(* sealed that were reserved and computed, in order and once, and a block  *)
(* table is released exactly when its request stops running, over every    *)
(* order of preemption, failure, cancellation and completion.              *)
(***************************************************************************)
RefinesKvCache == Cache!Spec

-----------------------------------------------------------------------------
Item ==
  [id : Request, input : Seq(Token), start : Nat, block_table : Seq(BlockId),
   need_sample : BOOLEAN]

(***************************************************************************)
(* Type invariant, with what Request::assert_invariants checks of the      *)
(* generated tokens.                                                       *)
(***************************************************************************)
TypeOK ==
  /\ state \in [Request -> {"Unsubmitted", "Waiting", "Running"} \cup Terminal]
  /\ generated \in [Request -> Seq(OutToken)]
  /\ \A r \in Request : Len(generated[r]) <= MaxNewLen[r]
  /\ cached_len \in [Request -> Nat]
  /\ arrival_index \in [Request -> Nat]
  /\ waiting \in Seq(Request) /\ running \subseteq Request /\ next_arrival \in Nat
  /\ batch \in Seq(Item)
  /\ phase \in {"idle", "running", "waiting", "apply", "release", "fail"}
  /\ todo \in Seq(Request) /\ remaining \in 0 .. MaxBatchLen

(***************************************************************************)
(* A request is in the queue of its state and in no other, once: no        *)
(* preemption, admission, cancellation or failure loses a request or       *)
(* leaves it in two places.  Only while apply_result is between finishing  *)
(* a request and releasing it is a terminal request still in `running`.    *)
(* The queues and records have their types throughout.                     *)
(***************************************************************************)
Queues ==
  /\ TypeOK
  /\ \A r \in Request : state[r] = "Waiting" <=> Contains(waiting, r)
  /\ IsInjective(waiting)
  /\ \A r \in Request :
       IF phase = "release"
       THEN state[r] = "Running" => r \in running
       ELSE state[r] = "Running" <=> r \in running
  /\ phase = "release" => \E r \in running : running \ RunningIds = {r}

(***************************************************************************)
(* An item of the batch stays true until it is answered, whatever the      *)
(* client calls meanwhile: its request runs, starts where the item starts  *)
(* and has the block table the executor was given.  The executor reads the *)
(* copy in the plan, not the scheduler's state.                            *)
(***************************************************************************)
BatchIsCurrent ==
  /\ \A i, j \in DOMAIN batch : batch[i].id = batch[j].id => i = j
  /\ \A i \in DOMAIN batch :
       LET item == batch[i] IN
       /\ state[item.id] = "Running"
       /\ item.start = cached_len[item.id]
       /\ item.block_table = allocations[item.id]
       /\ item.input = SubSeq(Context(item.id), item.start + 1, item.start + Len(item.input))
       /\ item.input # <<>>

(***************************************************************************)
(* The blocks a batch writes (the slots of start .. start + Len(input) - 1 *)
(* in input.py's slot mapping) are private: writable by that request, and  *)
(* in no other request's table (docs/rust-control-plane.md:83).            *)
(***************************************************************************)
WritesArePrivate ==
  \A i \in DOMAIN batch :
    \A p \in batch[i].start .. batch[i].start + Len(batch[i].input) - 1 :
      LET b == batch[i].block_table[p \div BlockLen + 1] IN
      /\ pool.state[b] = Writable(batch[i].id)
      /\ \A r \in Request \ {batch[i].id} : b \notin Range(allocations[r])

(***************************************************************************)
(* First come, first served, through every preemption and readmission: the *)
(* waiting queue is in order of arrival, and whatever runs arrived before  *)
(* whatever waits.  Only for the policy Fcfs.                              *)
(***************************************************************************)
ArrivalOrder ==
  /\ \A i, j \in DOMAIN waiting :
       i < j => arrival_index[waiting[i]] < arrival_index[waiting[j]]
  /\ \A r \in RunningIds, i \in DOMAIN waiting :
       arrival_index[r] < arrival_index[waiting[i]]

(***************************************************************************)
(* schedule drops the request that comes first in the policy's order only  *)
(* if its context is more than the pool can hold: preempting every other   *)
(* one really frees what they hold, so the first request of a policy runs  *)
(* to its end whatever the pressure                                        *)
(* (tests.rs:494, "one running request that cannot grow must fail").       *)
(***************************************************************************)
FirstKeepsRunning ==
  [][\A r \in RunningIds :
       /\ phase = "running"
       /\ \A q \in RunningIds \ {r} : Before(r, q)
       /\ r \notin running'
       => RequiredBlocks(Len(Context(r))) > NumBlocks]_schedVars

(***************************************************************************)
(* schedule returns no batch only when no request is left: the driver,     *)
(* which stops at the first None (lib.py:25), leaves nobody behind.  Holds *)
(* when the first chunk of every request, of what a preempted one computes *)
(* again too, fits the pool: see BeyondCapacityFails otherwise.            *)
(***************************************************************************)
NoIdleStall ==
  [][phase = "waiting" /\ phase' = "idle" /\ batch' = <<>>
       => waiting' = <<>> /\ running' = {}]_schedVars

(***************************************************************************)
(* Generated tokens are never taken back, not by preemption either, and a  *)
(* request that ended stays as it ended.                                   *)
(***************************************************************************)
OutputIsStable ==
  [][\A r \in Request :
       /\ IsPrefix(generated[r], generated'[r])
       /\ state[r] \in Terminal =>
            state'[r] = state[r] /\ generated'[r] = generated[r]]_schedVars

(***************************************************************************)
(* Every request that was submitted ends, under both policies and in spite *)
(* of preemption, which throws computed work away.                         *)
(***************************************************************************)
EveryRequestEnds ==
  \A r \in Request : state[r] = "Waiting" ~> state[r] \in Terminal

(***************************************************************************)
(* A request that needs more blocks than the pool has fails                *)
(* (tests/test_server.py:561,                                              *)
(* test_single_request_cache_requirement_beyond_capacity_fails).           *)
(***************************************************************************)
BeyondCapacityFails ==
  \A r \in Request :
    /\ state[r] = "Waiting"
    /\ RequiredBlocks(Len(Prompt[r]) + MaxNewLen[r] - 1) > NumBlocks
    ~> state[r] \in Terminal

(***************************************************************************)
(* A token is sampled only from the whole context before it, as "sampling  *)
(* only on the final chunk" (README.md:80) says.                           *)
(***************************************************************************)
SamplesOnTheFinalChunk ==
  \A i \in DOMAIN batch :
    batch[i].need_sample => batch[i].start + Len(batch[i].input) = Len(Context(batch[i].id))
=============================================================================
