-------------------------- MODULE VmActionsProofs --------------------------
(***************************************************************************)
(* Proofs about optimistic power actions, for every number of VMs and of   *)
(* actions under way at once.                                              *)
(*                                                                         *)
(* NoUnmarkedGuess and RollsBackToFact hold each other up: apply takes the *)
(* status shown as the one to roll back to only where no mark is, and      *)
(* there what is shown was read from the server; and a rollback shows what *)
(* was remembered.  Together they are inductive.                           *)
(***************************************************************************)
EXTENDS VmActions, TLAPS

Inv == TypeOK /\ NoUnmarkedGuess /\ RollsBackToFact

(* What a refresh has read is shown as read.                                *)
LEMMA ReadFacts ==
    ASSUME NEW answer \in Answer
    PROVE  /\ Read(answer) \in [Vms -> Shown \cup {None}]
           /\ \A v \in Vms : Read(answer)[v] # None => Read(answer)[v].by = "server"
  BY DEF Read, Answer, Shown

LEMMA RefreshedFacts ==
    ASSUME TypeOK, Refreshed
    PROVE  /\ repo' \in [Vms -> Shown \cup {None}] /\ \A v \in Vms : repo'[v] = None
           /\ hard' \in Answer \cup {None, Asking} /\ soft' \in Answer \cup {None, Asking}
  BY DEF Refreshed, NothingShown

(* apply keeps the two facts.                                               *)
LEMMA PatchedFacts ==
    ASSUME Inv, NEW v \in Vms, NEW action \in Actions, Patched(v, action)
    PROVE  /\ repo' \in [Vms -> Shown \cup {None}] /\ pending' \in [Vms -> Shown \cup {None}]
           /\ NoUnmarkedGuess' /\ RollsBackToFact'
           /\ \A u \in Vms : repo[u] = None => repo'[u] = None
  <1>1. CASE repo[v] = None
    BY <1>1 DEF Patched, Inv, TypeOK, NoUnmarkedGuess, RollsBackToFact
  <1>2. CASE repo[v] # None
    <2> DEFINE guess == [st |-> Target(action), by |-> "target"]
    <2>1. guess \in Shown /\ guess # None
      BY ActionsAssumption DEF Shown, Target
    <2> HIDE DEF guess
    <2>2. Prev(v) \in Shown /\ Prev(v) # None /\ Prev(v).by = "server"
      BY <1>2, ActionsAssumption DEF Inv, TypeOK, Prev, NoUnmarkedGuess, RollsBackToFact, Shown
    <2>3. repo' = [repo EXCEPT ![v] = guess] /\ pending' = [pending EXCEPT ![v] = Prev(v)]
      BY <1>2 DEF Patched, guess
    <2> QED
      BY <1>2, <2>1, <2>2, <2>3 DEF Inv, TypeOK, NoUnmarkedGuess, RollsBackToFact
  <1> QED
    BY <1>1, <1>2

LEMMA InitInv == Init => Inv
  <1> SUFFICES ASSUME Init PROVE Inv
    OBVIOUS
  <1>1. repo \in [Vms -> Shown \cup {None}] /\ NoUnmarkedGuess
    BY ReadFacts DEF Init, NothingShown, NoUnmarkedGuess
  <1> QED
    BY <1>1 DEF Init, Inv, TypeOK, RollsBackToFact, Answer

(* Every step keeps the invariant, and only a refresh makes a VM appear.    *)
LEMMA Step ==
    ASSUME Inv, Next
    PROVE  /\ Inv'
           /\ \A v \in Vms : repo[v] = None /\ repo'[v] # None => <<hard, soft>>' # <<hard, soft>>
  <1> DEFINE Appear == \A v \in Vms : repo[v] = None /\ repo'[v] # None
                                        => <<hard, soft>>' # <<hard, soft>>
  <1> SUFFICES Inv' /\ Appear
    OBVIOUS
  <1> USE DEF Inv
  <1>1. ASSUME NEW w \in Workers, NEW v \in Vms, NEW action \in Actions, Act(w, v, action)
        PROVE  Inv' /\ Appear
    <2>1. work' \in [Workers -> WorkerState \cup {None}]
      BY <1>1 DEF Act, TypeOK, WorkerState
    <2> QED
      BY <1>1, <2>1, PatchedFacts DEF Act, TypeOK
  <1>2. ASSUME NEW v \in Vms, NEW action \in Actions, ActRefused(v, action)
        PROVE  Inv' /\ Appear
    BY <1>2, PatchedFacts DEF ActRefused, TypeOK
  <1>3. CASE RefreshData
    BY <1>3, RefreshedFacts DEF RefreshData, TypeOK, NoUnmarkedGuess, RollsBackToFact
  <1>4. ASSUME NEW task \in tasks, NEW done \in BOOLEAN, TaskEnds(task, done)
        PROVE  Inv' /\ Appear
    <2>1. task[1] \in Vms /\ task[2] \in Statuses
      BY DEF TypeOK
    <2>2. server' \in Answer /\ tasks' \subseteq Vms \X Statuses
      BY <1>4, <2>1 DEF TaskEnds, TypeOK, Answer
    <2> QED
      BY <1>4, <2>2 DEF TaskEnds, TypeOK, NoUnmarkedGuess, RollsBackToFact
  <1>5. ASSUME NEW v \in Vms, NEW st \in Statuses \cup {Gone}, OthersChange(v, st)
        PROVE  Inv' /\ Appear
    <2>1. server' \in Answer
      BY <1>5 DEF OthersChange, TypeOK, Answer
    <2> QED
      BY <1>5, <2>1 DEF OthersChange, TypeOK, NoUnmarkedGuess, RollsBackToFact
  <1>6. ASSUME NEW w \in Workers, NEW accepted \in BOOLEAN, NEW reply \in {"ok", "error"},
               Called(w, accepted, reply)
        PROVE  Inv' /\ Appear
    <2>1. work[w] \in WorkerState
      BY <1>6 DEF Called, TypeOK
    <2>2. work[w].vm \in Vms /\ Target(work[w].action) \in Statuses
      BY <2>1, ActionsAssumption DEF WorkerState, Target
    <2>3. work' \in [Workers -> WorkerState \cup {None}]
      BY <1>6, <2>1 DEF Called, TypeOK, WorkerState
    <2>4. tasks' \subseteq Vms \X Statuses
      BY <1>6, <2>2 DEF Called, TypeOK
    <2> QED
      BY <1>6, <2>3, <2>4 DEF Called, TypeOK, NoUnmarkedGuess, RollsBackToFact
  <1>7. ASSUME NEW w \in Workers, Confirm(w) PROVE Inv' /\ Appear
    <2>1. Refreshed
      BY <1>7 DEF Confirm, Confirmed
    <2>2. work' \in [Workers -> WorkerState \cup {None}]
      BY <1>7 DEF Confirm, TypeOK
    <2>3. /\ pending' \in [Vms -> Shown \cup {None}]
          /\ \A v \in Vms : pending'[v] # None => pending'[v] = pending[v]
      BY <1>7 DEF Confirm, TypeOK
    <2> QED
      BY <1>7, <2>1, <2>2, <2>3, RefreshedFacts
         DEF Confirm, TypeOK, NoUnmarkedGuess, RollsBackToFact
  <1>8. ASSUME NEW w \in Workers, Rollback(w) PROVE Inv' /\ Appear
    <2> DEFINE v == work[w].vm
    <2>1. v \in Vms
      BY <1>8 DEF Rollback, TypeOK, WorkerState
    <2>2. work' \in [Workers -> WorkerState \cup {None}]
      BY <1>8 DEF Rollback, TypeOK
    <2>3. repo' = Restored(v) /\ pending' = [pending EXCEPT ![v] = None]
      BY <1>8 DEF Rollback, Forgotten
    <2> HIDE DEF v
    <2>4. /\ repo' \in [Vms -> Shown \cup {None}]
          /\ \A u \in Vms : repo[u] = None => repo'[u] = None
          /\ \A u \in Vms \ {v} : repo'[u] = repo[u]
          /\ repo'[v] # None => repo'[v].by = "server"
      BY <2>1, <2>3 DEF Restored, TypeOK, NoUnmarkedGuess, RollsBackToFact, Shown
    <2>5. /\ pending' \in [Vms -> Shown \cup {None}] /\ pending'[v] = None
          /\ \A u \in Vms \ {v} : pending'[u] = pending[u]
      BY <2>1, <2>3 DEF TypeOK
    <2> QED
      BY <1>8, <2>2, <2>4, <2>5 DEF Rollback, TypeOK, NoUnmarkedGuess, RollsBackToFact
  <1>9. CASE HardRead \/ HardFails \/ SoftTick \/ SoftRead \/ SoftEmpty
    BY <1>9 DEF HardRead, HardFails, SoftTick, SoftRead, SoftEmpty, TypeOK,
       NoUnmarkedGuess, RollsBackToFact
  <1>10. CASE HardArrives
    <2>1. hard \in Answer /\ repo' = Added(hard) /\ hard' # hard
      BY <1>10, ActionsAssumption DEF HardArrives, TypeOK
    <2>2. /\ repo' \in [Vms -> Shown \cup {None}]
          /\ \A v \in Vms : repo'[v] = repo[v] \/ repo'[v] = Read(hard)[v]
      BY <2>1, ReadFacts DEF Added, TypeOK
    <2> QED
      BY <1>10, <2>1, <2>2, ReadFacts DEF HardArrives, TypeOK, NoUnmarkedGuess, RollsBackToFact
  <1>11. CASE SoftArrives
    <2>1. soft \in Answer /\ repo' = Read(soft) /\ soft' # soft
      BY <1>11, ActionsAssumption DEF SoftArrives, Swapped, TypeOK
    <2> QED
      BY <1>11, <2>1, ReadFacts DEF SoftArrives, TypeOK, NoUnmarkedGuess, RollsBackToFact
  <1>12. CASE SoftFails
    BY <1>12 DEF SoftFails, NothingShown, TypeOK, NoUnmarkedGuess, RollsBackToFact
  <1> HIDE DEF Inv, Appear
  <1> QED
    BY <1>1, <1>2, <1>3, <1>4, <1>5, <1>6, <1>7, <1>8, <1>9, <1>10, <1>11, <1>12
       DEF Next, UserActs, ServerMoves, WorkerMoves, HardMoves, SoftMoves

LEMMA Invariance == Spec => []Inv
  <1>1. Inv /\ [Next]_vars => Inv'
    <2>1. Inv /\ UNCHANGED vars => Inv'
      BY DEF Inv, vars, TypeOK, NoUnmarkedGuess, RollsBackToFact
    <2> QED
      BY <2>1, Step
  <1> QED
    BY InitInv, <1>1, PTL DEF Spec
----------------------------------------------------------------------------
(* The books of optimistic actions keep their types.                        *)
THEOREM ActionsTyped == Spec => []TypeOK
  BY Invariance, PTL DEF Inv

(* A hoped-for status is marked as pending as long as it is shown, whatever *)
(* actions, answers and refreshes overlap (OptimisticVMs).                  *)
THEOREM GuessesAreMarked == Spec => []NoUnmarkedGuess
  BY Invariance, PTL DEF Inv

(* A rollback restores a status that was read from the server, never the    *)
(* guess of an earlier action (prev_status in apply).                       *)
THEOREM RollbackIsToFact == Spec => []RollsBackToFact
  BY Invariance, PTL DEF Inv

(* Neither apply nor rollback brings back a VM that a refresh removed.      *)
THEOREM OnlyRefreshShowsVms == Spec => NotResurrected
  <1>1. Inv /\ [Next]_vars =>
          [\A v \in Vms : repo[v] = None /\ repo'[v] # None
                            => <<hard, soft>>' # <<hard, soft>>]_vars
    BY Step
  <1> QED
    BY Invariance, <1>1, PTL DEF Spec, NotResurrected

(* What becomes of the mark of a VM in a step.                              *)
LEMMA StepMark ==
    ASSUME Inv, [Next]_vars, NEW v \in Vms, pending[v] # None
    PROVE  \/ pending'[v] = pending[v] /\ (AnsweredFor(v) => AnsweredFor(v)')
           \/ /\ pending'[v] = None
              /\ \E w \in Workers : work[w] # None /\ work[w].vm = v /\ work'[w] = None
  <1> DEFINE Kept == pending'[v] = pending[v] /\ (AnsweredFor(v) => AnsweredFor(v)')
             Ended == /\ pending'[v] = None
                      /\ \E w \in Workers : work[w] # None /\ work[w].vm = v /\ work'[w] = None
  <1> SUFFICES Kept \/ Ended
    OBVIOUS
  <1>0. /\ pending \in [Vms -> Shown \cup {None}]
        /\ work \in [Workers -> WorkerState \cup {None}]
    BY DEF Inv, TypeOK
  <1>1. ASSUME NEW u \in Vms, NEW action \in Actions, Patched(u, action)
        PROVE  pending'[v] = pending[v]
    BY <1>0, <1>1 DEF Patched, Prev
  <1>2. ASSUME NEW w \in Workers, NEW u \in Vms, NEW action \in Actions, Act(w, u, action)
        PROVE  Kept
    <2>1. \A x \in Workers : work[x] # None => work'[x] = work[x]
      BY <1>0, <1>2 DEF Act
    <2>2. pending'[v] = pending[v]
      BY <1>1, <1>2 DEF Act
    <2> QED
      BY <2>1, <2>2 DEF AnsweredFor
  <1>3. ASSUME NEW u \in Vms, NEW action \in Actions, ActRefused(u, action)
        PROVE  Kept
    BY <1>1, <1>3 DEF ActRefused, AnsweredFor
  <1>4. ASSUME NEW w \in Workers, NEW accepted \in BOOLEAN, NEW reply \in {"ok", "error"},
               Called(w, accepted, reply)
        PROVE  Kept
    <2>1. work[w] \in WorkerState /\ work' = [work EXCEPT ![w].reply = reply]
      BY <1>0, <1>4 DEF Called
    <2>2. work'[w] \in WorkerState /\ work'[w].vm = work[w].vm
      BY <1>0, <2>1 DEF WorkerState
    <2>3. \A x \in Workers : work[x] # None => work'[x] # None /\ work'[x].vm = work[x].vm
      BY <1>0, <2>1, <2>2, ActionsAssumption
    <2> QED
      BY <1>4, <2>3 DEF Called, AnsweredFor
  <1>5. ASSUME NEW w \in Workers, Confirm(w) \/ Rollback(w)
        PROVE  Kept \/ Ended
    <2>1. /\ work[w] # None /\ work[w].vm \in Vms
          /\ work'[w] = None /\ \A x \in Workers \ {w} : work'[x] = work[x]
          /\ pending' = [pending EXCEPT ![work[w].vm] = None]
      BY <1>0, <1>5 DEF Confirm, Rollback, Forgotten, WorkerState
    <2>2. CASE work[w].vm = v
      BY <1>0, <2>1, <2>2
    <2>3. CASE work[w].vm # v
      <3>1. pending'[v] = pending[v]
        BY <1>0, <2>1, <2>3
      <3> QED
        BY <2>1, <2>3, <3>1 DEF AnsweredFor
    <2> QED
      BY <2>2, <2>3
  <1>6. CASE RefreshData \/ ServerMoves \/ HardMoves \/ SoftMoves \/ UNCHANGED vars
    <2>1. pending' = pending /\ work' = work
      BY <1>6 DEF RefreshData, ServerMoves, TaskEnds, OthersChange, HardMoves, HardRead, HardArrives,
         HardFails, SoftMoves, SoftTick, SoftRead, SoftArrives, SoftFails, SoftEmpty, vars
    <2> QED
      BY <2>1 DEF AnsweredFor
  <1> HIDE DEF Kept, Ended
  <1> QED
    BY <1>2, <1>3, <1>4, <1>5, <1>6 DEF Next, UserActs, WorkerMoves

(* However actions on one VM overlap, its mark keeps the status of before   *)
(* the first, and leaves only with an answer (confirm, rollback); the last  *)
(* worker of a marked VM does not go without it.                            *)
THEOREM MarksEndByAnswer == Spec => MarkIsKept
  <1>1. Inv /\ [Next]_vars =>
          [\A v \in Vms : pending[v] # None =>
             \/ pending'[v] = pending[v] /\ (AnsweredFor(v) => AnsweredFor(v)')
             \/ /\ pending'[v] = None
                /\ \E w \in Workers : work[w] # None /\ work[w].vm = v /\ work'[w] = None]_vars
    BY StepMark
  <1> QED
    BY Invariance, <1>1, PTL DEF Spec, MarkIsKept
=============================================================================
