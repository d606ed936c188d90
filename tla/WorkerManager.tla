--------------------------- MODULE WorkerManager ---------------------------
(***************************************************************************)
(* The workers of the detail panel: WorkerManager                          *)
(* (ui/detail_panel/_worker_manager.py) with the slots of the panel that   *)
(* call it.  A bounded set of workers is tracked as active, a bounded      *)
(* queue holds the next ones, and selecting another object cancels what    *)
(* the old view still had under way.  A thread cannot be stopped: a        *)
(* cancelled worker leaves the books and runs on.                          *)
(*                                                                         *)
(* A member of Workers is the identity of a worker object.  It may be used *)
(* again once nothing refers to it, as a freed object's memory is.         *)
(***************************************************************************)
EXTENDS Naturals, Sequences, FiniteSets

CONSTANTS
    Workers,
    MaxWorkers,   \* _MAX_WORKERS_DP (12 in the program)
    MaxPending,   \* _MAX_PENDING (24)
    Views         \* the workers each kind of view starts: sequences of roles

Slots == {"detail", "config", "history", "snapshots"}
Roles == Slots \cup {"general", "host"}
None == "none"

ASSUME ManagerAssumption ==
    /\ IsFiniteSet(Workers) /\ None \notin Workers
    /\ MaxWorkers \in Nat \ {0} /\ MaxPending \in Nat
    /\ Views \subseteq Seq(Roles)

VARIABLES
    mgr,       \* [workers, host: the sets _workers and current_host_workers;
               \*  pending: the queue _pending;
               \*  running: started, and `finished' not yet received]
    current,   \* current_worker, current_config_worker, ..., by slot
    reported   \* running workers whose result has been received

vars == <<mgr, current, reported>>
----------------------------------------------------------------------------
Entry == [worker : Workers, host : BOOLEAN]
Manager == [workers : SUBSET Workers, host : SUBSET Workers,
            pending : Seq(Entry), running : SUBSET Workers]

Queued(m) == {m.pending[i].worker : i \in DOMAIN m.pending}
Smaller(a, b) == IF a < b THEN a ELSE b

(* What the code has no reference to.                                       *)
Fresh(w) ==
    /\ w \notin mgr.workers \cup mgr.host \cup mgr.running \cup Queued(mgr)
    /\ \A s \in Slots : current[s] # w

Full(m) == Cardinality(m.workers) >= MaxWorkers

(* QThreadPool.start of the workers of some entries, tracked.               *)
Started(m, entries) ==
    LET ws == {e.worker : e \in entries}
    IN  [m EXCEPT !.workers = @ \cup ws,
                  !.host = @ \cup {w \in ws : [worker |-> w, host |-> TRUE] \in entries},
                  !.running = @ \cup ws]

(* _pump: while a slot is free, the head of the queue is started.           *)
PumpWhenEmpty(m) == m
PumpNewest(m) ==
    LET k == Smaller(Len(m.pending), MaxWorkers - Cardinality(m.workers))
        rest == Len(m.pending) - k
    IN  [Started(m, {m.pending[i] : i \in (rest + 1)..Len(m.pending)})
         EXCEPT !.pending = SubSeq(@, 1, rest)]
Pump(m) ==
    LET k == Smaller(Len(m.pending), MaxWorkers - Cardinality(m.workers))
    IN  [Started(m, {m.pending[i] : i \in 1..k})
         EXCEPT !.pending = SubSeq(@, k + 1, Len(@))]

(* _try_start: into a free slot, else into the queue, else dropped.         *)
TryStart(m, e) ==
    IF ~Full(m) THEN Started(m, {e})
    ELSE IF Len(m.pending) < MaxPending THEN [m EXCEPT !.pending = Append(@, e)]
    ELSE m

(* run_worker (host FALSE), run_host_worker (host TRUE) and discard_worker. *)
Run(m, w, host) == Pump(TryStart(m, [worker |-> w, host |-> host]))
Discard(m, w) == Pump([m EXCEPT !.workers = @ \ {w}])

(* cancel_detail_worker and the three like it.                              *)
Cancel(m, slot) == IF current[slot] = None THEN m ELSE Discard(m, current[slot])
----------------------------------------------------------------------------
Init ==
    /\ mgr = [workers |-> {}, host |-> {}, pending |-> <<>>, running |-> {}]
    /\ current = [s \in Slots |-> None]
    /\ reported = {}

(* A slot of a tab starts a worker: a change of the VM, a list for the host *)
(* view, a reload.                                                          *)
RunWorker(w, host) ==
    /\ Fresh(w)
    /\ mgr' = Run(mgr, w, host)
    /\ UNCHANGED <<current, reported>>

(* A result slot shows what it got and calls discard_worker.                *)
ResultArrives(a) ==
    /\ a \in mgr.running \ reported
    /\ mgr' = Discard(mgr, a)
    /\ reported' = reported \cup {a}
    /\ UNCHANGED current

(* The result of a change starts reload_config or reload_snapshots first.   *)
ResultThenReload(a, w) ==
    /\ a \in mgr.running \ reported /\ Fresh(w)
    /\ mgr' = Discard(Run(mgr, w, FALSE), a)
    /\ reported' = reported \cup {a}
    /\ UNCHANGED current

(* The result of a VM action: refresh_after_action replaces the worker of   *)
(* the details.                                                             *)
ResultThenRefresh(a, w) ==
    /\ a \in mgr.running \ reported /\ Fresh(w)
    /\ mgr' = Discard(Run(Cancel(mgr, "detail"), w, FALSE), a)
    /\ current' = [current EXCEPT !["detail"] = w]
    /\ reported' = reported \cup {a}

(* `finished', which every run() emits last: discard_worker, and a host     *)
(* worker leaves current_host_workers.                                      *)
ForgetSlotOnly(m, w) == Discard(m, w)
Forget(m, w) == [Discard(m, w) EXCEPT !.host = @ \ {w}]

Finished(w) ==
    /\ w \in mgr.running
    /\ mgr' = [Forget(mgr, w) EXCEPT !.running = @ \ {w}]
    /\ reported' = reported \ {w}
    /\ UNCHANGED current

(* show_details.  The four cancels discard one worker each, and pump; then  *)
(* cancel_host_workers and cancel_general_workers empty the queue and the   *)
(* books.  The new view's workers are started in its order: the loop of     *)
(* run_worker calls fills the free slots first, then the queue.             *)
Cancelled(m) ==
    Cancel(Cancel(Cancel(Cancel(m, "detail"), "config"), "history"), "snapshots")

Cleared(m) == [Cancelled(m) EXCEPT !.workers = {}, !.host = {}, !.pending = <<>>]

ShowDetails(view, ws) ==
    LET entries == [i \in DOMAIN view |-> [worker |-> ws[i], host |-> view[i] = "host"]]
        now == Smaller(Len(view), MaxWorkers)
        queued == Smaller(Len(view), MaxWorkers + MaxPending)
    IN  /\ \A i \in DOMAIN view : Fresh(ws[i])
        /\ \A i, j \in DOMAIN view : ws[i] = ws[j] => i = j
        /\ mgr' = [Started(Cleared(mgr), {entries[i] : i \in 1..now})
                   EXCEPT !.pending = SubSeq(entries, MaxWorkers + 1, queued)]
        /\ current' = [s \in Slots |->
                        IF \E i \in DOMAIN view : view[i] = s
                        THEN ws[CHOOSE i \in DOMAIN view : view[i] = s] ELSE None]
        /\ UNCHANGED reported

Next ==
    \/ \E w \in Workers :
        \/ \E host \in BOOLEAN : RunWorker(w, host)
        \/ ResultArrives(w)
        \/ \E v \in Workers : ResultThenReload(w, v) \/ ResultThenRefresh(w, v)
        \/ Finished(w)
    \/ \E view \in Views : \E ws \in [DOMAIN view -> Workers] : ShowDetails(view, ws)

Spec == Init /\ [][Next]_vars

(* Every run() ends: the providers have time-outs.                          *)
FairSpec == Spec /\ \A w \in Workers : WF_vars(Finished(w))
----------------------------------------------------------------------------
TypeOK ==
    /\ mgr \in Manager
    /\ current \in [Slots -> Workers \cup {None}]
    /\ reported \subseteq mgr.running

(* Neither the tracked workers nor the queue outgrow their limits, however  *)
(* the cancels and results interleave (_try_start, _pump).                  *)
Bounded ==
    /\ Cardinality(mgr.workers) <= MaxWorkers
    /\ Len(mgr.pending) <= MaxPending

(* A worker waits only while every slot is taken: no path that frees a slot *)
(* forgets to pump (discard_worker and everything that calls it).           *)
NoIdleSlot == mgr.pending # <<>> => Cardinality(mgr.workers) = MaxWorkers

(* No worker is started twice: the queue names each once and none that is   *)
(* already on a thread (popleft in _pump).                                  *)
StartedOnce ==
    /\ Queued(mgr) \cap mgr.running = {}
    /\ \A i, j \in DOMAIN mgr.pending :
        mgr.pending[i].worker = mgr.pending[j].worker => i = j

(* Every tracked worker is one that will still report its end, so each slot *)
(* it holds and each entry of current_host_workers is given back.           *)
SlotsComeBack == mgr.workers \cup mgr.host \subseteq mgr.running

(* First come, first started: a worker that starts leaves none behind that  *)
(* was queued before it.                                                    *)
NoOvertaking ==
    [][LET started == mgr'.running \ mgr.running
       IN  /\ \A i, j \in DOMAIN mgr.pending :
                i < j /\ mgr.pending[j].worker \in started
                => mgr.pending[i].worker \notin Queued(mgr)'
           /\ ~(started \subseteq Queued(mgr)) => Queued(mgr) \cap Queued(mgr)' = {}]_vars

(* Who waits, waits for a tracked worker whose end is still to come: the    *)
(* queue never waits for nobody, whatever was cancelled under it.           *)
SomebodyToWaitFor == mgr.pending # <<>> => mgr.workers \cap mgr.running # {}

(* A worker that keeps waiting never moves back in the queue, and moves up  *)
(* whenever a tracked worker ends.  With SomebodyToWaitFor this is why the  *)
(* queue needs no more than that every run() ends.                          *)
TakesTurns ==
    [][\A i \in DOMAIN mgr.pending :
         mgr.pending[i].worker \in Queued(mgr)'
         => \E j \in DOMAIN mgr'.pending :
              /\ mgr'.pending[j] = mgr.pending[i] /\ j <= i
              /\ (\E w \in mgr.workers : Finished(w)) => j < i]_vars

(* A queued worker gets a slot or is cancelled; it does not wait for ever.  *)
QueueDrains == \A w \in Workers : w \in Queued(mgr) ~> w \notin Queued(mgr)
=============================================================================
