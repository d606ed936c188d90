----------------------------- MODULE VmActions -----------------------------
(***************************************************************************)
(* Power actions from the tree with their optimistic statuses:             *)
(* OptimisticVMs (ui/optimistic.py), the slots of MainWindow around it,    *)
(* VmActionWorker (backend/vm.py), and the server the actions run on.      *)
(* The tree shows the target of an action at once, marked as pending,      *)
(* while refreshes keep replacing the VMs it patched.                      *)
(*                                                                         *)
(* Of a refresh cycle (module Refresh) one host's share is left: only the  *)
(* result of the current generation counts, so there is at most one hard   *)
(* and one soft fetch that matters.                                        *)
(***************************************************************************)
EXTENDS Naturals, FiniteSets

CONSTANTS
    Vms,            \* VMs of one host, none of them a template
    Workers,        \* VmActionWorkers
    Statuses,       \* of VmStatus
    PoolMayBeFull,  \* _run_worker may refuse a worker
    None,           \* no object, no mark, no fetch
    Asking          \* a fetch that has not read the server yet

Gone == "gone"

(* POWER_TARGET_STATUS, by the target: resume, reboot and reset are as      *)
(* start, shutdown is as stop.                                              *)
Actions == {"start", "stop"}
Target(action) == IF action = "stop" THEN "stopped" ELSE "running"

VARIABLES
    server,    \* the status a VM really has, or Gone
    tasks,     \* accepted by the server, not carried out yet: {<<vm, status>>}
    repo,      \* _vm_repo: what the tree shows of each VM, or None
    pending,   \* _pending: the status to roll back to, or None
    work,      \* [Workers -> the worker's state, or None]
    hard,      \* the hard fetch of the current generation: None, Asking, or
    soft       \* what it has read; the soft one likewise

vars == <<server, tasks, repo, pending, work, hard, soft>>
----------------------------------------------------------------------------
(* "by" is not in the code: where the status shown comes from.              *)
Shown == [st : Statuses, by : {"server", "target"}]
WorkerState == [vm : Vms, action : Actions, reply : {"waiting", "ok", "error"}]
Answer == [Vms -> Statuses \cup {Gone}]

ASSUME ActionsAssumption ==
    /\ PoolMayBeFull \in BOOLEAN
    /\ {"running", "stopped"} \subseteq Statuses /\ Gone \notin Statuses
    /\ None \notin Shown \cup WorkerState \cup Answer
    /\ Asking \notin Answer /\ Asking # None

Read(answer) ==
    [v \in Vms |-> IF answer[v] = Gone THEN None ELSE [st |-> answer[v], by |-> "server"]]
NothingShown == [v \in Vms |-> None]

(* refresh_data: the repositories are emptied, the cycles under way no      *)
(* longer count, and the new fetch starts unless the pool is full.          *)
Refreshed ==
    /\ repo' = NothingShown
    /\ soft' = None
    /\ hard' = Asking \/ (PoolMayBeFull /\ hard' = None)

Init ==
    /\ server \in [Vms -> Statuses \cup {Gone}]
    /\ tasks = {}
    /\ \/ repo = NothingShown
       \/ \E answer \in Answer : repo = Read(answer)
    /\ pending = [v \in Vms |-> None]
    /\ work = [w \in Workers |-> None]
    /\ hard = Asking /\ soft = None
----------------------------------------------------------------------------
(* apply: a VM that is not in the repository is left alone.  A change on    *)
(* top of a pending one keeps the status the first one found.               *)
PrevIsShown(v) == repo[v]
Prev(v) == IF pending[v] # None THEN pending[v] ELSE repo[v]

Patched(v, action) ==
    IF repo[v] = None THEN UNCHANGED <<repo, pending>>
    ELSE /\ repo' = [repo EXCEPT ![v] = [st |-> Target(action), by |-> "target"]]
         /\ pending' = [pending EXCEPT ![v] = Prev(v)]

(* _on_vm_action_from_tree: apply, then start the worker.                   *)
Act(w, v, action) ==
    /\ work[w] = None
    /\ Patched(v, action)
    /\ work' = [work EXCEPT ![w] = [vm |-> v, action |-> action, reply |-> "waiting"]]
    /\ UNCHANGED <<server, tasks, hard, soft>>

(* The same when _run_worker refuses it: nobody looks at its answer.        *)
ActRefused(v, action) ==
    /\ PoolMayBeFull
    /\ Patched(v, action)
    /\ UNCHANGED <<server, tasks, work, hard, soft>>

(* run(): the server accepts the call or does not, and whether it did, the  *)
(* time-out of ten seconds may come first.  What it accepts is a task that  *)
(* nobody waits for.                                                        *)
Called(w, accepted, reply) ==
    /\ work[w] # None /\ work[w].reply = "waiting"
    /\ reply = "ok" => accepted
    /\ tasks' = IF accepted
                THEN tasks \cup {<<work[w].vm, Target(work[w].action)>>} ELSE tasks
    /\ work' = [work EXCEPT ![w].reply = reply]
    /\ UNCHANGED <<server, repo, pending, hard, soft>>

(* The server carries out a task, or the task fails; anybody else changes   *)
(* the VM or removes it.                                                    *)
TaskEnds(task, done) ==
    /\ task \in tasks
    /\ tasks' = tasks \ {task}
    /\ server' = IF done /\ server[task[1]] # Gone
                 THEN [server EXCEPT ![task[1]] = task[2]] ELSE server
    /\ UNCHANGED <<repo, pending, work, hard, soft>>

OthersChange(v, st) ==
    /\ server' = [server EXCEPT ![v] = st]
    /\ UNCHANGED <<tasks, repo, pending, work, hard, soft>>

(* action_result: confirm, which drops the pending mark and leaves the      *)
(* target, and refresh_data.                                                *)
ConfirmedWithoutRefresh == UNCHANGED <<repo, hard, soft>>
Confirmed == Refreshed

Confirm(w) ==
    /\ work[w] # None /\ work[w].reply = "ok"
    /\ pending' = [pending EXCEPT ![work[w].vm] = None]
    /\ Confirmed
    /\ work' = [work EXCEPT ![w] = None]
    /\ UNCHANGED <<server, tasks>>

(* action_error: rollback, for a VM that is still shown.                    *)
RestoredAlways(v) == IF pending[v] # None THEN [repo EXCEPT ![v] = pending[v]] ELSE repo
Restored(v) ==
    IF pending[v] # None /\ repo[v] # None THEN [repo EXCEPT ![v] = pending[v]] ELSE repo

ForgottenIfShown(v) == IF repo[v] = None THEN pending ELSE [pending EXCEPT ![v] = None]
Forgotten(v) == [pending EXCEPT ![v] = None]

Rollback(w) ==
    /\ work[w] # None /\ work[w].reply = "error"
    /\ repo' = Restored(work[w].vm)
    /\ pending' = Forgotten(work[w].vm)
    /\ work' = [work EXCEPT ![w] = None]
    /\ UNCHANGED <<server, tasks, hard, soft>>
----------------------------------------------------------------------------
(* The refresh cycles: started by the user or the timer, the fetch reads    *)
(* the server's statuses, its result arrives later.                         *)
RefreshData ==
    /\ Refreshed
    /\ UNCHANGED <<server, tasks, pending, work>>

SoftTick ==
    /\ soft = None /\ soft' = Asking
    /\ UNCHANGED <<server, tasks, repo, pending, work, hard>>

HardRead ==
    /\ hard = Asking /\ hard' = server
    /\ UNCHANGED <<server, tasks, repo, pending, work, soft>>

SoftRead ==
    /\ soft = Asking /\ soft' = server
    /\ UNCHANGED <<server, tasks, repo, pending, work, hard>>

(* on_worker_finished adds what was read to what is shown; an error leaves  *)
(* the VMs shown.                                                           *)
Added(answer) == [v \in Vms |-> IF answer[v] = Gone THEN repo[v] ELSE Read(answer)[v]]

HardArrives ==
    /\ hard \notin {None, Asking}
    /\ repo' = Added(hard) /\ hard' = None
    /\ UNCHANGED <<server, tasks, pending, work, soft>>

HardFails ==
    /\ hard = Asking /\ hard' = None
    /\ UNCHANGED <<server, tasks, repo, pending, work, soft>>

(* on_soft_refresh_result replaces it; the error node of a failed fetch     *)
(* makes the swap happen too, and the VMs are not shown.  A cycle that      *)
(* brings nothing at all, because the host answers "ok" with empty lists or *)
(* because it hangs until it is reset, leaves everything as it is.          *)
SwappedButPending(answer) ==
    [v \in Vms |-> IF pending[v] # None THEN repo[v] ELSE Read(answer)[v]]
Swapped(answer) == Read(answer)

SoftArrives ==
    /\ soft \notin {None, Asking}
    /\ repo' = Swapped(soft) /\ soft' = None
    /\ UNCHANGED <<server, tasks, pending, work, hard>>

SoftFails ==
    /\ soft = Asking /\ soft' = None
    /\ repo' = NothingShown
    /\ UNCHANGED <<server, tasks, pending, work, hard>>

SoftEmpty ==
    /\ soft # None /\ soft' = None
    /\ UNCHANGED <<server, tasks, repo, pending, work, hard>>
----------------------------------------------------------------------------
UserActs ==
    \/ \E v \in Vms, action \in Actions :
        (\E w \in Workers : Act(w, v, action)) \/ ActRefused(v, action)
    \/ RefreshData

ServerMoves ==
    \/ \E task \in tasks, done \in BOOLEAN : TaskEnds(task, done)
    \/ \E v \in Vms, st \in Statuses \cup {Gone} : OthersChange(v, st)

WorkerMoves(w) ==
    \/ \E accepted \in BOOLEAN, reply \in {"ok", "error"} : Called(w, accepted, reply)
    \/ Confirm(w)
    \/ Rollback(w)

HardMoves == HardRead \/ HardArrives \/ HardFails
SoftMoves == SoftTick \/ SoftRead \/ SoftArrives \/ SoftFails \/ SoftEmpty

Next ==
    \/ UserActs
    \/ ServerMoves
    \/ \E w \in Workers : WorkerMoves(w)
    \/ HardMoves
    \/ SoftMoves

Spec == Init /\ [][Next]_vars

(* Calls end in an answer or a time-out, fetches too; the timer of the soft *)
(* refresh fires; what is posted to the main thread is delivered.           *)
Fairness ==
    /\ \A w \in Workers : WF_vars(WorkerMoves(w))
    /\ WF_vars(HardMoves) /\ WF_vars(SoftMoves)

FairSpec == Spec /\ Fairness
----------------------------------------------------------------------------
TypeOK ==
    /\ server \in Answer
    /\ tasks \subseteq Vms \X Statuses
    /\ repo \in [Vms -> Shown \cup {None}]
    /\ pending \in [Vms -> Shown \cup {None}]
    /\ work \in [Workers -> WorkerState \cup {None}]
    /\ hard \in Answer \cup {None, Asking}
    /\ soft \in Answer \cup {None, Asking}

(* A status the program only hopes for is never shown as a fact: the mark   *)
(* is there as long as the guess is, however actions on the same VM, their  *)
(* answers and refreshes overlap (apply, confirm, rollback).                *)
NoUnmarkedGuess == \A v \in Vms : repo[v] # None /\ repo[v].by = "target" => pending[v] # None

(* What a rollback would put back was read from the server, never the guess *)
(* of an earlier action (the prev_status of apply).                         *)
RollsBackToFact == \A v \in Vms : pending[v] # None => pending[v].by = "server"

(* Only a refresh makes a VM appear: no action and no rollback brings back  *)
(* one that a refresh has taken from the tree (rollback, apply).            *)
NotResurrected ==
    [][\A v \in Vms : repo[v] = None /\ repo'[v] # None => <<hard, soft>>' # <<hard, soft>>]_vars

(* Whatever was guessed, refused, timed out or rolled back, the tree comes  *)
(* to agree with the server once nothing changes any more, provided that    *)
(* soft cycles go on bringing something, be it an error.  One without a     *)
(* node keeps what is shown (the guard of the swap in                       *)
(* on_soft_refresh_result): while every cycle is such, a guess stays in the *)
(* tree, and so does a VM that has gone.                                    *)
Quiet == <>[][~UserActs /\ ~ServerMoves]_vars
CyclesBring == []<><<SoftArrives \/ SoftFails>>_vars
Agrees == \A v \in Vms : repo[v] # None => repo[v].st = server[v]
Converges == Quiet /\ CyclesBring => <>[]Agrees

(* The change ends with confirm or rollback (class comment of               *)
(* OptimisticVMs, optimistic.py:50-51): no VM is pending for ever while a   *)
(* worker will still answer for it.                                         *)
AnsweredFor(v) == \E w \in Workers : work[w] # None /\ work[w].vm = v
PendingEnds == \A v \in Vms : pending[v] # None /\ AnsweredFor(v) ~> pending[v] = None

(* Until then: a mark keeps the status it was made with, and does not lose  *)
(* its last worker; an answer to an action on this VM, and nothing else,    *)
(* takes it away.                                                           *)
MarkIsKept ==
    [][\A v \in Vms : pending[v] # None =>
         \/ pending'[v] = pending[v] /\ (AnsweredFor(v) => AnsweredFor(v)')
         \/ /\ pending'[v] = None
            /\ \E w \in Workers : work[w] # None /\ work[w].vm = v /\ work'[w] = None]_vars
=============================================================================
