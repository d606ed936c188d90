----------------------------- MODULE Operation -----------------------------
(***************************************************************************)
(* One operation of the user: the slot that starts a worker, the worker's  *)
(* run() as a program of requests (module Workers says which class has     *)
(* which), the server that carries them out in its own time, and what the  *)
(* window does with the answer.  A request may be lost on its way there or *)
(* on its way back: the worker sees an exception and cannot tell.          *)
(***************************************************************************)
EXTENDS Naturals, Sequences

CONSTANT Jobs   \* the operations: programs with what the slot does afterwards

VARIABLES
    job,
    at,         \* where run() stands
    pc,         \* the step of the program
    effect,     \* [step -> what has become of its request at the server]
    told,       \* the answer run() has emitted
    ended,      \* finished has been emitted
    cancelled,  \* BulkVmActionWorker._cancel
    heard,      \* the answer whose slot has run
    tracked,    \* the worker holds a place of MainWindow._workers
    refresh,    \* refresh_data (or the reload of the tab) asked for, made
    alive       \* the program runs

worker == <<at, pc, told, ended>>
window == <<cancelled, heard, tracked, refresh, alive>>
vars == <<job, worker, effect, window>>
----------------------------------------------------------------------------
(* A step: what its request does at the server; what the worker makes of   *)
(* the answer: "must" fails with it, "await" waits for its task as well,   *)
(* "try" goes on whatever comes, "again" goes on if it was refused, "item" *)
(* is one VM of a bulk; and how many steps its success makes superfluous.  *)
Does == {"read", "change", "task"}
On == {"must", "await", "try", "again", "item"}
Step == [does : Does, on : On, skip : Nat]
Answers == {"success", "failure"}
Job == [steps : Seq(Step), valid : BOOLEAN, tells : SUBSET Answers, finishes : BOOLEAN,
        again : {"success", "finished", "never"}, frees : BOOLEAN]

(* What every program of Workers is like: it skips nothing but its own      *)
(* steps and never an "again"; a bulk is nothing but items and only ends.   *)
ASSUME JobsAssumption ==
    /\ Jobs \subseteq Job
    /\ \A j \in Jobs : \A i \in 1..Len(j.steps) :
        /\ i + j.steps[i].skip <= Len(j.steps)
        /\ j.steps[i].on = "again" => \A k \in 1..(i - 1) : k + j.steps[k].skip < i
        /\ j.steps[i].on = "item" =>
              j.tells = {} /\ \A k \in 1..Len(j.steps) : j.steps[k].on = "item" /\ j.steps[k].skip = 0

Effects == {"none", "asked", "refused", "running", "failed", "done"}
Places == {"idle", "rejected", "opens", "calls", "waits", "awaits", "fails", "ends", "over"}

steps == job.steps
Steps == 1..Len(steps)
Required(i) == steps[i].on \in {"must", "await"}
Enough(i) == IF steps[i].on = "await" THEN {"done"} ELSE {"running", "failed", "done"}
Achieved(i) == effect[i] \in Enough(i)
Covered(i) == \E j \in Steps : j < i /\ i <= j + steps[j].skip /\ Achieved(j)
Satisfied(i) == Required(i) => Achieved(i) \/ Covered(i)
Sent(i) == effect[i] # "none"

Init ==
    /\ job \in Jobs
    /\ at = "idle" /\ pc = 1
    /\ effect = [i \in Steps |-> "none"]
    /\ told = "nothing" /\ ended = FALSE
    /\ cancelled = FALSE /\ heard = "nothing" /\ tracked = FALSE
    /\ refresh = "no" /\ alive = TRUE
----------------------------------------------------------------------------
(* MainWindow._run_worker, as the last act of the slot: one place of the   *)
(* pool is taken, or the worker is refused and never runs.                  *)
Run ==
    /\ at = "idle" /\ alive
    /\ at' = "opens" /\ tracked' = TRUE
    /\ UNCHANGED <<job, pc, told, ended, effect, cancelled, heard, refresh, alive>>
Reject ==
    /\ at = "idle" /\ alive
    /\ at' = "rejected"
    /\ UNCHANGED <<job, pc, told, ended, effect, window>>

Goes(place) == at' = place /\ UNCHANGED <<told, ended>>

(* create_provider; a worker that knows better does not come that far, a    *)
(* bulk makes a provider for each VM, as part of its request.               *)
Itemized == \E i \in Steps : steps[i].on = "item"
Open ==
    /\ at = "opens" /\ alive
    /\ \/ job.valid /\ Goes("calls")
       \/ ~ Itemized /\ Goes("fails")
    /\ UNCHANGED <<job, pc, effect, window>>

LeftOut == pc \in Steps /\ steps[pc].on = "item" /\ cancelled

Send ==
    /\ at = "calls" /\ alive
    /\ pc \in Steps /\ ~ LeftOut
    /\ effect' = [effect EXCEPT ![pc] = "asked"]
    /\ Goes("waits")
    /\ UNCHANGED <<job, pc, window>>

(* The server: a request it gets is refused, done, or accepted as a task,   *)
(* which ends later.                                                        *)
Outcomes(does) == IF does = "task" THEN {"refused", "running", "done"} ELSE {"refused", "done"}
Serve(i) ==
    /\ \/ effect[i] = "asked" /\ \E o \in Outcomes(steps[i].does) : effect' = [effect EXCEPT ![i] = o]
       \/ effect[i] = "running" /\ \E o \in {"failed", "done"} : effect' = [effect EXCEPT ![i] = o]
    /\ UNCHANGED <<job, worker, window>>

(* The answer arrives: the next step, past those it makes superfluous; the  *)
(* UPID of a task is waited for.                                            *)
Proceed == pc' = pc + 1 + steps[pc].skip /\ Goes("calls")
ProceedAgain == pc' = pc /\ Goes("calls")
ProceedAnyway == pc' = pc + 1 /\ Goes("calls")
Fails == pc' = pc /\ Goes("fails")

Answered ==
    /\ at = "waits" /\ alive
    /\ effect[pc] \in {"running", "failed", "done"}
    /\ IF steps[pc].on = "await" /\ steps[pc].does = "task" THEN pc' = pc /\ Goes("awaits") ELSE Proceed
    /\ UNCHANGED <<job, effect, window>>

ForgivenButItems == steps[pc].on = "try" \/ (steps[pc].on = "again" /\ effect[pc] = "refused")
ForgivenAll == steps[pc].on \in {"try", "item", "again"}
Forgiven ==
    \/ steps[pc].on \in {"try", "item"}
    \/ steps[pc].on = "again" /\ effect[pc] = "refused"

Raises ==
    /\ at = "waits" /\ alive
    /\ IF Forgiven THEN ProceedAnyway ELSE Fails
    /\ UNCHANGED <<job, effect, window>>

(* _await_task and TaskAPI.poll: the task is seen to have ended, or a poll  *)
(* fails, or the time is over, whatever the task does.                      *)
SeesAnyEnd ==
    /\ at = "awaits" /\ alive
    /\ effect[pc] \in {"failed", "done"} /\ Proceed
    /\ UNCHANGED <<job, effect, window>>
SeesEnd ==
    /\ at = "awaits" /\ alive
    /\ \/ effect[pc] = "done" /\ Proceed
       \/ effect[pc] = "failed" /\ Fails
    /\ UNCHANGED <<job, effect, window>>

GivesUp ==
    /\ at = "awaits" /\ alive
    /\ Fails
    /\ UNCHANGED <<job, effect, window>>

(* The answer, and what finally does: close, and finished in any case.      *)
Answer(answer) == told' = IF answer \in job.tells THEN answer ELSE told
Succeed ==
    /\ at = "calls" /\ alive
    /\ pc \notin Steps \/ LeftOut
    /\ Answer("success") /\ at' = "ends"
    /\ UNCHANGED <<job, pc, ended, effect, window>>
FailAndGoOn ==
    /\ at = "fails" /\ alive
    /\ Answer("failure") /\ at' = "calls"
    /\ UNCHANGED <<job, pc, ended, effect, window>>
Fail ==
    /\ at = "fails" /\ alive
    /\ Answer("failure") /\ at' = "ends"
    /\ UNCHANGED <<job, pc, ended, effect, window>>
FinishOnAnswer ==
    /\ at = "ends" /\ alive
    /\ at' = "over"
    /\ ended' = (job.finishes /\ told = "success")
    /\ UNCHANGED <<job, pc, told, effect, window>>
Finish ==
    /\ at = "ends" /\ alive
    /\ at' = "over"
    /\ ended' = job.finishes
    /\ UNCHANGED <<job, pc, told, effect, window>>
----------------------------------------------------------------------------
(* The window, on its own thread: the slot of the answer, then that of      *)
(* finished; _discard_worker in either disconnects what is left.            *)
Due(when) == refresh' = IF job.again = when THEN "due" ELSE refresh

HearAnswer ==
    /\ alive /\ told # "nothing" /\ heard = "nothing"
    /\ heard' = told
    /\ IF told = "success" THEN Due("success") ELSE refresh' = refresh
    /\ tracked' = (tracked /\ ~ job.frees)
    /\ UNCHANGED <<job, worker, effect, cancelled, alive>>

HearFinished ==
    /\ alive /\ ended /\ tracked /\ heard = told
    /\ tracked' = FALSE
    /\ Due("finished")
    /\ UNCHANGED <<job, worker, effect, cancelled, heard, alive>>

RefreshData ==
    /\ alive /\ refresh = "due"
    /\ refresh' = "made"
    /\ UNCHANGED <<job, worker, effect, cancelled, heard, tracked, alive>>

(* The cancel button of the progress dialog of a bulk.                      *)
Cancel ==
    /\ alive /\ Itemized /\ tracked /\ ~ cancelled
    /\ cancelled' = TRUE
    /\ UNCHANGED <<job, worker, effect, heard, tracked, refresh, alive>>

(* _save_state_and_quit: cancel() for those that have it, a second of       *)
(* waiting, and the process ends with its threads wherever they are.        *)
Quit ==
    /\ alive /\ alive' = FALSE
    /\ cancelled' = (cancelled \/ (Itemized /\ tracked))
    /\ UNCHANGED <<job, worker, effect, heard, tracked, refresh>>
----------------------------------------------------------------------------
Thread == Open \/ Send \/ Answered \/ Raises \/ SeesEnd \/ GivesUp \/ Succeed \/ Fail \/ Finish
Slots == HearAnswer \/ HearFinished \/ RefreshData
Next ==
    \/ Run \/ Reject \/ Thread \/ Slots \/ Cancel \/ Quit
    \/ \E i \in Steps : Serve(i)

(* The thread runs and its calls have time-outs; the event loop turns.      *)
(* Nothing is assumed of the server.                                        *)
Spec == Init /\ [][Next]_vars /\ WF_vars(Thread) /\ WF_vars(Slots)
----------------------------------------------------------------------------
TypeOK ==
    /\ job \in Jobs /\ at \in Places /\ pc \in 1..(Len(steps) + 1)
    /\ effect \in [Steps -> Effects]
    /\ told \in {"nothing"} \cup Answers /\ ended \in BOOLEAN
    /\ cancelled \in BOOLEAN /\ heard \in {"nothing"} \cup Answers
    /\ tracked \in BOOLEAN /\ refresh \in {"no", "due", "made"} /\ alive \in BOOLEAN

(* What the user reads as a success is done on the server: every request   *)
(* the operation needs was carried out, or one that makes it superfluous,  *)
(* and every task that is waited for has ended well.                        *)
SuccessIsWhole == heard = "success" => \A i \in Steps : Satisfied(i)

(* No step after one that failed: what needs the VMID, the ticket or the    *)
(* VM made before it is not sent without it.                                *)
InOrder == \A i, j \in Steps : i < j /\ Sent(j) => Satisfied(i)

(* A request is repeated only when the server has refused it, so that it    *)
(* is carried out once at most (the second login of PbsClient._request).    *)
AgainOnlyIfRefused ==
    \A i, j \in Steps :
        steps[i].on = "again" /\ i < j /\ j <= i + steps[i].skip /\ Sent(j) => effect[i] = "refused"

(* A bulk that nobody cancelled has tried every one of its VMs, whatever    *)
(* became of those before.                                                  *)
NoneLeftOut == ended /\ Itemized /\ ~ cancelled => \A i \in Steps : Sent(i)

(* A worker that emits finished, whatever its calls do and however it       *)
(* answers, gives its place in the pool back (those that do not emit it:    *)
(* a refused migration, and the workers of PbsPanel).                       *)
PlaceComesBack == [](tracked /\ job.finishes => <>(~ tracked \/ ~ alive))

(* Every step of run() leads on, and there are only so many: whatever its   *)
(* calls do, it ends after at most as many steps as the program gives it.   *)
Stage(place) ==
    CASE place = "calls" -> 1 [] place = "waits" -> 2 [] place = "awaits" -> 3
      [] place = "fails" -> 4 [] place = "ends" -> 5 [] place = "over" -> 6 [] OTHER -> 0
Rank == 7 * pc + Stage(at)
LeadsOn == [][Thread => Rank < Rank' /\ Rank' <= 7 * Len(steps) + 13]_vars

(* A place of the pool that is taken is one that run() still comes to, or   *)
(* one that a slot still to run gives back: of the answer, then of finished.*)
PlaceIsAwaited ==
    tracked /\ job.finishes =>
        \/ at \in Places \ {"idle", "rejected", "over"}
        \/ ended /\ (heard = told \/ (heard = "nothing" /\ told # "nothing"))

(* The worker keeps the contract: nothing is sent after the answer, the     *)
(* answer is given once, success only when the whole is done.               *)
Contract == INSTANCE OperationContract WITH
    asked <- {i \in Steps : Sent(i)},
    whole <- (\A i \in Steps : Satisfied(i)),
    told <- told
KeepsContract == Contract!Spec
=============================================================================
