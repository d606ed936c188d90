---------------------------- MODULE DetailProofs ----------------------------
(***************************************************************************)
(* Proofs about the VM tabs, for any VMs and workers and any number of     *)
(* backup storages.  What the tabs may rely on is in Jobs: a worker that   *)
(* asks for details does so for the VM in _last_vm_data, and only tabs     *)
(* that can be reloaded have changes under way.                            *)
(***************************************************************************)
EXTENDS DetailView, TLAPS, FiniteSetTheorems

JobOk(job) ==
    /\ last # None
    /\ job.does \in {"detail", "after"} => job.vm = last
    /\ job.does \in {"change", "reload"} => pane \notin {"history", "metrics"}

Jobs == \A w \in Workers : work[w] # None => JobOk(work[w])

Inv == TypeOK /\ ActsOnSelected /\ Jobs
----------------------------------------------------------------------------
(* The functions that hand out and take back jobs keep to their types.      *)
LEMMA NewJob ==
    ASSUME NEW v \in Vms, NEW does \in Deeds
    PROVE  For(does, v) \in Job /\ For(does, v) # None
<1>1. For(does, v) \in Job
  BY DEF For, Job
<1> QED BY <1>1, DetailAssumption

LEMMA GivenTyped ==
    ASSUME NEW base \in [Workers -> Job \cup {None}], NEW ws, NEW job \in Job
    PROVE  Given(base, ws, job) \in [Workers -> Job \cup {None}]
BY DEF Given

LEMMA SelectionTyped ==
    ASSUME work \in [Workers -> Job \cup {None}]
    PROVE  AfterSelection \in [Workers -> Job \cup {None}]
<1> SUFFICES ASSUME NEW w \in Workers, work[w] # None
             PROVE  [work[w] EXCEPT !.now = FALSE] \in Job
  BY DEF AfterSelection
<1> QED BY DEF Job

LEMMA DetailsTyped ==
    ASSUME work \in [Workers -> Job \cup {None}]
    PROVE  WithoutDetail \in [Workers -> Job \cup {None}]
BY DEF WithoutDetail

LEMMA FreedTyped ==
    ASSUME NEW base \in [Workers -> Job \cup {None}], NEW w \in Workers
    PROVE  Freed(base, w) \in [Workers -> Job \cup {None}]
BY DEF Freed

(* What is left of the work after a selection asks for no details, and a    *)
(* job that has been given out is the only new one.                         *)
LEMMA SelectionJobs ==
    ASSUME TypeOK, Jobs, NEW w \in Workers, AfterSelection[w] # None
    PROVE  /\ AfterSelection[w].does \notin {"detail", "after"}
           /\ AfterSelection[w].does \in {"change", "reload"} => pane \notin {"history", "metrics"}
<1>1. work[w] # None /\ ~Tracked(work[w]) /\ work[w] \in Job
  BY DEF AfterSelection, TypeOK
<1>2. AfterSelection[w] = [work[w] EXCEPT !.now = FALSE]
  BY <1>1 DEF AfterSelection
<1>3. AfterSelection[w].does = work[w].does
  BY <1>1, <1>2 DEF Job
<1> QED BY <1>1, <1>3 DEF Jobs, JobOk, Tracked
----------------------------------------------------------------------------
LEMMA InitInv == Init => Inv
<1> SUFFICES ASSUME Init PROVE Inv
  OBVIOUS
<1>1. work \in [Workers -> Job \cup {None}] /\ Jobs
  BY DEF Init, Jobs
<1>2. due \in 0..Storages
  BY DetailAssumption DEF Init
<1>3. TypeOK
  BY <1>1, <1>2 DEF Init, TypeOK
<1> QED BY <1>1, <1>3 DEF Init, Inv, ActsOnSelected

LEMMA ShowKeeps ==
    ASSUME Inv, NEW v \in Vms, ShowVm(v)
    PROVE  Inv'
<1>1. PICK base :
        /\ base = AfterSelection \/ \E w \in Workers : base = Given(AfterSelection, {w}, For("detail", v))
        /\ Opened(base, v)
  BY DEF ShowVm
<1>2. view' = v /\ last' = v /\ pane' = pane /\ cache' = cache
  BY DEF ShowVm
<1>3. For("detail", v) \in Job /\ For("load", v) \in Job
  BY NewJob DEF Deeds
<1>a. AfterSelection \in [Workers -> Job \cup {None}]
  BY SelectionTyped DEF Inv, TypeOK
<1>4. base \in [Workers -> Job \cup {None}]
  <2>1. \A w \in Workers : Given(AfterSelection, {w}, For("detail", v)) \in [Workers -> Job \cup {None}]
    BY <1>a, <1>3, GivenTyped
  <2> QED BY <1>1, <1>a, <2>1
<1>5. ASSUME NEW w \in Workers, base[w] # None
      PROVE  /\ base[w].does \in {"detail", "after"} => base[w].vm = v
             /\ base[w].does \in {"change", "reload"} => pane \notin {"history", "metrics"}
  <2>1. base[w] = AfterSelection[w] \/ base[w] = For("detail", v)
    BY <1>1 DEF Given
  <2>2. CASE base[w] = AfterSelection[w]
    BY <2>2, <1>5, SelectionJobs DEF Inv
  <2>3. CASE base[w] = For("detail", v)
    BY <2>3 DEF For
  <2> QED BY <2>1, <2>2, <2>3
<1>6. work' = base \/ \E ws \in Crews(base) : work' = Given(base, ws, For("load", v))
  BY <1>1 DEF Opened
<1>7. work' \in [Workers -> Job \cup {None}]
  BY <1>3, <1>4, <1>6, GivenTyped
<1>8. Jobs'
  <2> SUFFICES ASSUME NEW w \in Workers, work'[w] # None
               PROVE  JobOk(work[w])'
    BY DEF Jobs
  <2>1. work'[w] = base[w] \/ work'[w] = For("load", v)
    BY <1>6 DEF Given
  <2>2. v # None
    BY DetailAssumption
  <2> QED BY <2>1, <2>2, <1>2, <1>5 DEF JobOk, For
<1>9. TypeOK'
  <2>1. shown' = {v} \/ shown' = {}
    BY <1>1 DEF Opened
  <2>2. loading' \in BOOLEAN
    BY <1>1 DEF Opened
  <2>3. due' \in 0..Storages /\ found' \subseteq Vms /\ counting' \in {"none", "now", "old"}
    <3>1. (counting' = Passed /\ due' = due /\ found' = found) \/ CountAnew
      BY <1>1 DEF Opened
    <3> QED BY <3>1, DetailAssumption DEF Inv, TypeOK, CountAnew, Passed, backups
  <2> QED BY <2>1, <2>2, <2>3, <1>2, <1>7 DEF Inv, TypeOK
<1> QED BY <1>2, <1>8, <1>9 DEF Inv, ActsOnSelected

(* A slot that leaves tab and _last_vm_data alone keeps Jobs if the jobs it *)
(* gives out are in order.                                                  *)
LEMMA JobsKept ==
    ASSUME Jobs, pane' = pane, last' = last,
           \A w \in Workers : \/ work'[w] = None
                              \/ work'[w] = work[w]
                              \/ \E job : work'[w] = job /\ JobOk(job)
    PROVE  Jobs'
<1> SUFFICES ASSUME NEW w \in Workers, work'[w] # None
             PROVE  JobOk(work[w])'
  BY DEF Jobs
<1>1. CASE work'[w] = work[w]
  BY <1>1 DEF Jobs, JobOk
<1>2. CASE \E job : work'[w] = job /\ JobOk(job)
  BY <1>2 DEF JobOk
<1> QED BY <1>1, <1>2

LEMMA ShowOtherKeeps ==
    ASSUME Inv, ShowOther
    PROVE  Inv'
<1>1. pane' = pane /\ last' = last /\ view' = None /\ work' = AfterSelection
  BY DEF ShowOther
<1>2. Jobs'
  <2> SUFFICES ASSUME NEW w \in Workers, work'[w] # None
               PROVE  JobOk(work[w])'
    BY DEF Jobs
  <2>1. work[w] # None
    BY <1>1 DEF AfterSelection
  <2>2. last # None
    BY <2>1 DEF Inv, Jobs, JobOk
  <2> QED BY <1>1, <2>2, SelectionJobs DEF Inv, JobOk
<1>3. work' \in [Workers -> Job \cup {None}]
  BY <1>1, SelectionTyped DEF Inv, TypeOK
<1>4. shown' \in {{}, shown} /\ loading' = loading /\ cache' = cache
  BY DEF ShowOther
<1>5. due' = due /\ found' = found /\ counting' \in {"none", "now", "old"}
  BY DEF ShowOther, Passed, Inv, TypeOK
<1> QED BY <1>1, <1>2, <1>3, <1>4, <1>5 DEF Inv, TypeOK, ActsOnSelected

(* The slots that start one worker for the VM selected.                     *)
LEMMA StartKeeps ==
    ASSUME Inv, view # None, NEW ws, NEW does \in {"load", "power", "change"},
           does = "change" => pane \notin {"history", "metrics"},
           work' = Given(work, ws, For(does, last)),
           pane' = pane, last' = last
    PROVE  work' \in [Workers -> Job \cup {None}] /\ Jobs'
<1>1. last \in Vms /\ last # None
  BY DetailAssumption DEF Inv, TypeOK, ActsOnSelected
<1>2. does \in Deeds
  BY DEF Deeds
<1>3. For(does, last) \in Job
  BY <1>1, <1>2, NewJob
<1>4. work' \in [Workers -> Job \cup {None}]
  BY <1>3, GivenTyped DEF Inv, TypeOK
<1>5. JobOk(For(does, last))
  BY <1>1 DEF JobOk, For
<1>6. \A w \in Workers : work'[w] = work[w] \/ work'[w] = For(does, last)
  BY DEF Given
<1> QED BY <1>4, <1>5, <1>6, JobsKept DEF Inv

(* The slots that end a worker and start none.                              *)
LEMMA EndKeeps ==
    ASSUME Inv, NEW w \in Workers, work' = Freed(work, w), pane' = pane, last' = last
    PROVE  work' \in [Workers -> Job \cup {None}] /\ Jobs'
<1>1. work' \in [Workers -> Job \cup {None}]
  BY FreedTyped DEF Inv, TypeOK
<1>2. \A u \in Workers : work'[u] = None \/ work'[u] = work[u]
  BY DEF Freed, Inv, TypeOK
<1> QED BY <1>1, <1>2, JobsKept DEF Inv

(* show_vm_metrics, from a refresh or from the choice of a time frame.      *)
LEMMA MetricsKeeps ==
    ASSUME Inv, RefreshCurrentView \/ TimeframeChanged
    PROVE  Inv'
<1>1. /\ view # None /\ last = view /\ last \in Vms
      /\ pane' = pane /\ view' = view /\ last' = last /\ cache' = cache
      /\ due' = due /\ found' = found /\ counting' = counting
  BY DetailAssumption DEF RefreshCurrentView, TimeframeChanged, backups, Inv, TypeOK, ActsOnSelected
<1>2. /\ shown' \in {shown, {last}} /\ loading' \in BOOLEAN
      /\ work' = work \/ \E ws : work' = Given(work, ws, For("load", last))
  BY <1>1 DEF RefreshCurrentView, TimeframeChanged, MetricsAgain
<1>3. work' \in [Workers -> Job \cup {None}] /\ Jobs'
  <2>1. CASE work' = work
    BY <2>1, <1>1, JobsKept DEF Inv, TypeOK
  <2>2. CASE \E ws : work' = Given(work, ws, For("load", last))
    BY <2>2, <1>1, StartKeeps
  <2> QED BY <1>2, <2>1, <2>2
<1> QED BY <1>1, <1>2, <1>3 DEF Inv, TypeOK, ActsOnSelected

LEMMA RequestKeeps ==
    ASSUME Inv, OnVmAction \/ ChangeRequested
    PROVE  Inv'
<1>1. /\ view # None
      /\ pane' = pane /\ view' = view /\ last' = last /\ cache' = cache
      /\ shown' = shown /\ loading' = loading
      /\ due' = due /\ found' = found /\ counting' = counting
  BY DEF OnVmAction, ChangeRequested, backups, display
<1>2. work' \in [Workers -> Job \cup {None}] /\ Jobs'
  <2>1. CASE OnVmAction
    BY <2>1, <1>1, StartKeeps DEF OnVmAction
  <2>2. CASE ChangeRequested
    <3>1. pane \notin {"history", "metrics"}
      BY <2>2 DEF ChangeRequested
    <3> QED BY <2>2, <3>1, <1>1, StartKeeps DEF ChangeRequested
  <2> QED BY <2>1, <2>2
<1> QED BY <1>1, <1>2 DEF Inv, TypeOK, ActsOnSelected

LEMMA AnswerKeeps ==
    ASSUME Inv, NEW w \in Workers, Answer(w)
    PROVE  Inv'
<1>1. /\ work[w] # None /\ work' = Freed(work, w)
      /\ pane' = pane /\ view' = view /\ last' = last
      /\ due' = due /\ found' = found /\ counting' = counting
  BY DEF Answer, backups
<1>2. work[w] \in Job /\ work[w].vm \in Vms
  BY <1>1 DEF Inv, TypeOK, Job
<1>3. cache' \subseteq Vms /\ shown' \subseteq Vms /\ loading' \in BOOLEAN
  <2>1. CASE Loaded(work[w])
    BY <2>1, <1>2 DEF Loaded, display, Inv, TypeOK
  <2>2. CASE Failed(work[w])
    BY <2>2, <1>2 DEF Failed, display, Inv, TypeOK
  <2> QED BY <2>1, <2>2 DEF Answer
<1>4. work' \in [Workers -> Job \cup {None}] /\ Jobs'
  BY <1>1, EndKeeps
<1> QED BY <1>1, <1>3, <1>4 DEF Inv, TypeOK, ActsOnSelected

LEMMA BackupsAnswerKeeps ==
    ASSUME Inv, NEW w \in Workers, BackupsAnswer(w)
    PROVE  Inv'
<1>1. /\ work[w] # None /\ work' = Freed(work, w)
      /\ pane' = pane /\ view' = view /\ last' = last /\ cache' = cache
  BY DEF BackupsAnswer
<1>2. work[w] \in Job /\ work[w].vm \in Vms
  BY <1>1 DEF Inv, TypeOK, Job
<1>3. /\ shown' \subseteq Vms /\ loading' \in BOOLEAN /\ found' \subseteq Vms
      /\ due' \in 0..Storages /\ counting' \in {"none", "now", "old"}
  <2>1. CASE UNCHANGED <<display, backups>>
    BY <2>1 DEF display, backups, Inv, TypeOK
  <2>2. ASSUME NEW archives \in {{}, {work[w].vm}}, due > 1, due' = due - 1,
               found' = found \cup archives, UNCHANGED <<counting, display>>
        PROVE  <1>3
    BY <2>2, <1>2, DetailAssumption DEF display, Inv, TypeOK
  <2>3. ASSUME NEW archives \in {{}, {work[w].vm}}, LastBackups(found \cup archives)
        PROVE  <1>3
    <3>1. archives \subseteq Vms /\ 0 \in 0..Storages
      BY <1>2, DetailAssumption
    <3> QED BY <2>3, <3>1 DEF LastBackups, Inv, TypeOK
  <2> QED BY <2>1, <2>2, <2>3 DEF BackupsAnswer
<1>4. work' \in [Workers -> Job \cup {None}] /\ Jobs'
  BY <1>1, EndKeeps
<1> QED BY <1>1, <1>3, <1>4 DEF Inv, TypeOK, ActsOnSelected

(* A worker that brings details brings those of _last_vm_data.              *)
LEMMA DetailsKeep ==
    ASSUME Inv, NEW w \in Workers,
           DetailLoaded(w) \/ ActionDetailLoaded(w) \/ DetailFails(w) \/ Refused(w)
    PROVE  Inv'
<1>1. /\ work[w] # None /\ work' = Freed(work, w)
      /\ pane' = pane /\ view' = view /\ cache' = cache /\ loading' = loading
      /\ due' = due /\ found' = found /\ counting' = counting
  BY DEF DetailLoaded, ActionDetailLoaded, DetailFails, Refused, backups, display
<1>2. work[w] \in Job /\ work[w].vm \in Vms
  BY <1>1 DEF Inv, TypeOK, Job
<1>3. last' = last
  BY <1>1 DEF DetailLoaded, ActionDetailLoaded, DetailFails, Refused, Inv, Jobs, JobOk
<1>4. shown' \in {shown, {work[w].vm}}
  BY <1>1 DEF DetailLoaded, ActionDetailLoaded, DetailFails, Refused, display
<1>5. work' \in [Workers -> Job \cup {None}] /\ Jobs'
  BY <1>1, <1>3, EndKeeps
<1> QED BY <1>1, <1>2, <1>3, <1>4, <1>5 DEF Inv, TypeOK, ActsOnSelected

LEMMA ActionFinishedKeeps ==
    ASSUME Inv, NEW w \in Workers, ActionFinished(w)
    PROVE  Inv'
<1> DEFINE base == Freed(WithoutDetail, w)
<1>1. /\ work[w] # None /\ work' = Given(base, {w}, For("after", last))
      /\ pane' = pane /\ view' = view /\ last' = last /\ cache' = cache
      /\ shown' = shown /\ loading' = loading
      /\ due' = due /\ found' = found /\ counting' = counting
  BY DEF ActionFinished, display, backups
<1>2. last \in Vms /\ last # None
  BY <1>1 DEF Inv, TypeOK, Jobs, JobOk
<1>3. For("after", last) \in Job
  BY <1>2, NewJob DEF Deeds
<1>4. base \in [Workers -> Job \cup {None}]
  BY DetailsTyped, FreedTyped DEF Inv, TypeOK
<1>5. \A u \in Workers : base[u] = None \/ base[u] = work[u]
  BY DEF Freed, WithoutDetail
<1> HIDE DEF base
<1>6. work' \in [Workers -> Job \cup {None}]
  BY <1>1, <1>3, <1>4, GivenTyped
<1>7. Jobs'
  <2>1. JobOk(For("after", last))
    BY <1>2 DEF JobOk, For
  <2>2. \A u \in Workers : work'[u] = base[u] \/ work'[u] = For("after", last)
    BY <1>1 DEF Given
  <2> QED BY <1>1, <1>5, <2>1, <2>2, JobsKept DEF Inv
<1> QED BY <1>1, <1>6, <1>7 DEF Inv, TypeOK, ActsOnSelected

LEMMA ChangedKeeps ==
    ASSUME Inv, NEW w \in Workers, Changed(w)
    PROVE  Inv'
<1> DEFINE v == work[w].vm
           base == Freed(work, w)
<1>1. /\ work[w] # None /\ work[w].does = "change"
      /\ pane' = pane /\ view' = view /\ last' = last
      /\ cache' = cache \ {v}
      /\ CountAnew
      /\ \E ws : work' = Given(base, ws, For("reload", v))
      /\ UNCHANGED display \/ (shown' = {} /\ loading' = TRUE)
  BY DEF Changed
<1>2. v \in Vms /\ last # None /\ pane \notin {"history", "metrics"}
  BY <1>1 DEF Inv, TypeOK, Job, Jobs, JobOk
<1>3. For("reload", v) \in Job
  BY <1>2, NewJob DEF Deeds
<1>4. base \in [Workers -> Job \cup {None}]
  BY FreedTyped DEF Inv, TypeOK
<1>5. \A u \in Workers : base[u] = None \/ base[u] = work[u]
  BY DEF Freed, Inv, TypeOK
<1> HIDE DEF base, v
<1>6. work' \in [Workers -> Job \cup {None}]
  BY <1>1, <1>3, <1>4, GivenTyped
<1>7. Jobs'
  <2>1. JobOk(For("reload", v))
    BY <1>2 DEF JobOk, For
  <2>2. \A u \in Workers : work'[u] = base[u] \/ work'[u] = For("reload", v)
    BY <1>1 DEF Given
  <2> QED BY <1>1, <1>5, <2>1, <2>2, JobsKept DEF Inv
<1>8. /\ shown' \subseteq Vms /\ loading' \in BOOLEAN /\ cache' \subseteq Vms
  BY <1>1 DEF display, Inv, TypeOK
<1>9. due' \in 0..Storages /\ found' \subseteq Vms /\ counting' \in {"none", "now", "old"}
  BY <1>1, DetailAssumption DEF CountAnew, backups, Inv, TypeOK
<1> QED BY <1>1, <1>6, <1>7, <1>8, <1>9 DEF Inv, TypeOK, ActsOnSelected
----------------------------------------------------------------------------
LEMMA Inductive == Inv /\ [Next]_vars => Inv'
<1> SUFFICES ASSUME Inv, [Next]_vars
             PROVE  Inv'
  OBVIOUS
<1>1. CASE SetLists
  <2>1. /\ pane' = pane /\ view' = view /\ last' = last /\ cache' = {} /\ work' = work
        /\ shown' = shown /\ loading' = loading
        /\ due' = due /\ found' = found /\ counting' = counting
    BY <1>1 DEF SetLists, display, backups
  <2> QED BY <2>1, JobsKept DEF Inv, TypeOK, ActsOnSelected
<1>2. CASE UNCHANGED vars
  <2>1. /\ pane' = pane /\ view' = view /\ last' = last /\ cache' = cache /\ work' = work
        /\ shown' = shown /\ loading' = loading
        /\ due' = due /\ found' = found /\ counting' = counting
    BY <1>2 DEF vars, display, backups
  <2> QED BY <2>1, JobsKept DEF Inv, TypeOK, ActsOnSelected
<1>3. CASE ShowOther
  BY <1>3, ShowOtherKeeps
<1>4. ASSUME NEW v \in Vms, ShowVm(v) PROVE Inv'
  BY <1>4, ShowKeeps
<1>5. CASE RefreshCurrentView \/ TimeframeChanged
  BY <1>5, MetricsKeeps
<1>6. CASE OnVmAction \/ ChangeRequested
  BY <1>6, RequestKeeps
<1>7. ASSUME NEW w \in Workers, Answer(w) \/ BackupsAnswer(w) PROVE Inv'
  BY <1>7, AnswerKeeps, BackupsAnswerKeeps
<1>8. ASSUME NEW w \in Workers,
             DetailLoaded(w) \/ ActionDetailLoaded(w) \/ DetailFails(w) \/ Refused(w)
      PROVE  Inv'
  BY <1>8, DetailsKeep
<1>9. ASSUME NEW w \in Workers, ActionFinished(w) \/ Changed(w) PROVE Inv'
  BY <1>9, ActionFinishedKeeps, ChangedKeeps
<1> QED BY <1>1, <1>2, <1>3, <1>4, <1>5, <1>6, <1>7, <1>8, <1>9 DEF Next

LEMMA Always == Spec => []Inv
BY InitInv, Inductive, PTL DEF Spec

(* Every variable of the VM tabs keeps to its type.                         *)
THEOREM DetailTyped == Spec => []TypeOK
BY Always, PTL DEF Inv

(* A power action, a snapshot or a console opened from the tabs goes to the *)
(* VM on the screen, whatever details come late (on_vm_action).             *)
THEOREM ActionsHitTheSelected == Spec => []ActsOnSelected
BY Always, PTL DEF Inv
----------------------------------------------------------------------------
(* The object guards, with _last_vm_data being the VM selected, keep the    *)
(* data of other VMs out.                                                   *)
LEMMA OwnDataStep == Inv /\ OwnData /\ [Next]_vars => OwnData'
<1> SUFFICES ASSUME Inv, OwnData, [Next]_vars, view' # None, pane' # "backups"
             PROVE  shown' \subseteq {view'}
  BY DEF OwnData
<1> USE DEF Inv, ActsOnSelected, OwnData, display
<1>1. CASE ShowOther
  BY <1>1 DEF ShowOther
<1>2. ASSUME NEW v \in Vms, ShowVm(v) PROVE shown' \subseteq {view'}
  BY <1>2 DEF ShowVm, Opened
<1>3. CASE SetLists \/ OnVmAction \/ ChangeRequested
  BY <1>3 DEF SetLists, OnVmAction, ChangeRequested
<1>4. CASE RefreshCurrentView \/ TimeframeChanged
  BY <1>4 DEF RefreshCurrentView, TimeframeChanged, MetricsAgain
<1>5. ASSUME NEW w \in Workers, Answer(w) PROVE shown' \subseteq {view'}
  <2>1. view' = view /\ last = view /\ pane' = pane
    BY <1>5 DEF Answer
  <2>2. CASE Loaded(work[w])
    BY <2>1, <2>2 DEF Loaded, IsShown
  <2>3. CASE Failed(work[w])
    BY <2>1, <2>3 DEF Failed
  <2> QED BY <1>5, <2>2, <2>3 DEF Answer
<1>6. ASSUME NEW w \in Workers,
             BackupsAnswer(w) \/ ActionDetailLoaded(w) \/ DetailFails(w) \/ ActionFinished(w) \/ Refused(w)
      PROVE  shown' \subseteq {view'}
  BY <1>6 DEF BackupsAnswer, ActionDetailLoaded, DetailFails, ActionFinished, Refused
<1>7. ASSUME NEW w \in Workers, DetailLoaded(w) PROVE shown' \subseteq {view'}
  BY <1>7 DEF DetailLoaded, Jobs, JobOk
<1>8. ASSUME NEW w \in Workers, Changed(w) PROVE shown' \subseteq {view'}
  BY <1>8 DEF Changed
<1>9. CASE UNCHANGED vars
  BY <1>9 DEF vars
<1> QED BY <1>1, <1>2, <1>3, <1>4, <1>5, <1>6, <1>7, <1>8, <1>9 DEF Next

(* Whatever is selected and however late answers and reloads are, the       *)
(* hardware, history, snapshots and metrics tabs show data of the selected  *)
(* VM only (on_config_loaded and the other result slots).                   *)
THEOREM TabsShowOwnData == Spec => []OwnData
<1>1. Init => OwnData
  BY DEF Init, OwnData
<1> QED BY <1>1, OwnDataStep, Always, PTL DEF Spec
----------------------------------------------------------------------------
(* A worker that is started is one whose answer is waited for.              *)
LEMMA Staffed ==
    ASSUME NEW base \in [Workers -> Job \cup {None}], NEW job, pane # "backups",
           NEW ws \in Crews(base), work' = Given(base, ws, job)
    PROVE  \E w \in Workers : work'[w] = job
<1>1. Cardinality(ws) = 1 /\ ws \subseteq Workers
  BY DEF Crews, Needs
<1>2. ws # {}
  BY <1>1, FS_EmptySet
<1> QED BY <1>1, <1>2 DEF Given

LEMMA LoadIsAJob == \A v \in Vms : For("load", v) # None
BY NewJob DEF Deeds

LEMMA AwaitedStep == Inv /\ LoadingIsAwaited /\ [Next]_vars => LoadingIsAwaited'
<1> DEFINE Awaited(v) == \E w \in Workers : work'[w] = For("load", v)
<1> SUFFICES ASSUME Inv, LoadingIsAwaited, [Next]_vars,
                    view' # None, loading', pane' \in {"history", "metrics"}
             PROVE  Awaited(view')
  BY DEF LoadingIsAwaited, For
<1> HIDE DEF Awaited
<1>a. pane' = pane
  BY DEF Next, ShowOther, ShowVm, SetLists, OnVmAction, ChangeRequested, RefreshCurrentView,
         TimeframeChanged, Answer, BackupsAnswer, DetailLoaded, ActionDetailLoaded, DetailFails,
         ActionFinished, Changed, Refused, vars
<1>b. view # None /\ loading => view \in Vms /\ last = view /\ \E w \in Workers : work[w] = For("load", view)
  BY <1>a DEF LoadingIsAwaited, Inv, TypeOK, ActsOnSelected
<1>1. CASE ShowOther
  BY <1>1 DEF ShowOther
<1>2. ASSUME NEW v \in Vms, ShowVm(v) PROVE Awaited(view')
  <2>1. PICK base \in [Workers -> Job \cup {None}] : Opened(base, v)
    <3>1. For("detail", v) \in Job
      BY NewJob DEF Deeds
    <3>2. AfterSelection \in [Workers -> Job \cup {None}]
      BY SelectionTyped DEF Inv, TypeOK
    <3> QED BY <1>2, <3>1, <3>2, GivenTyped DEF ShowVm
  <2>2. PICK ws \in Crews(base) : work' = Given(base, ws, For("load", v))
    BY <2>1 DEF Opened
  <2>3. pane # "backups" /\ view' = v
    BY <1>2, <1>a DEF ShowVm
  <2> QED BY <2>2, <2>3, Staffed DEF Awaited
<1>3. CASE SetLists \/ UNCHANGED vars
  BY <1>3, <1>b DEF SetLists, vars, display, Awaited
<1>4. CASE RefreshCurrentView \/ TimeframeChanged
  <2>1. view' = view /\ last = view /\ pane # "backups" /\ work \in [Workers -> Job \cup {None}]
    BY <1>4, <1>a DEF RefreshCurrentView, TimeframeChanged, Inv, TypeOK, ActsOnSelected
  <2>2. PICK ws \in Crews(work) : work' = Given(work, ws, For("load", view))
    BY <1>4, <2>1 DEF RefreshCurrentView, TimeframeChanged, MetricsAgain
  <2> QED BY <2>1, <2>2, Staffed DEF Awaited
<1>5. CASE OnVmAction \/ ChangeRequested
  <2>1. view' = view /\ loading' = loading
    BY <1>5 DEF OnVmAction, ChangeRequested, display
  <2>2. PICK u \in Workers : work[u] = For("load", view)
    BY <2>1, <1>b
  <2>3. work[u] # None
    BY <1>b, <2>1, <2>2, LoadIsAJob
  <2>4. work'[u] = work[u]
    BY <1>5, <2>3 DEF OnVmAction, ChangeRequested, Idle, Given
  <2> QED BY <2>1, <2>2, <2>4 DEF Awaited
<1>6. ASSUME NEW w \in Workers, Answer(w) PROVE Awaited(view')
  <2>1. view' = view /\ work' = Freed(work, w)
    BY <1>6 DEF Answer
  <2>2. loading /\ (~work[w].now \/ last # work[w].vm)
    BY <1>6, <1>a DEF Answer, Loaded, Failed, display, Counts, IsShown, Inv, TypeOK
  <2>3. PICK u \in Workers : work[u] = For("load", view)
    BY <2>1, <2>2, <1>b
  <2>4. u # w
    BY <2>1, <2>2, <2>3, <1>b DEF For
  <2>5. work'[u] = work[u]
    BY <2>1, <2>4 DEF Freed, Inv, TypeOK
  <2> QED BY <2>1, <2>3, <2>5 DEF Awaited
<1>7. ASSUME NEW w \in Workers, BackupsAnswer(w) \/ Changed(w) PROVE Awaited(view')
  BY <1>7, <1>a DEF BackupsAnswer, Changed, Inv, Jobs, JobOk
<1>8. ASSUME NEW w \in Workers,
             DetailLoaded(w) \/ ActionDetailLoaded(w) \/ DetailFails(w) \/ ActionFinished(w) \/ Refused(w)
      PROVE  Awaited(view')
  <2>1. view' = view /\ loading' = loading
    BY <1>8 DEF DetailLoaded, ActionDetailLoaded, DetailFails, ActionFinished, Refused, display
  <2>2. PICK u \in Workers : work[u] = For("load", view)
    BY <2>1, <1>b
  <2>3. work[u].does = "load" /\ work[u] # None
    BY <1>b, <2>1, <2>2, LoadIsAJob DEF For
  <2>4. u # w
    BY <1>8, <2>3 DEF DetailLoaded, ActionDetailLoaded, DetailFails, ActionFinished, Refused
  <2>5. CASE work' = Freed(work, w)
    <3>1. work'[u] = work[u]
      BY <2>4, <2>5 DEF Freed, Inv, TypeOK
    <3> QED BY <2>1, <2>2, <3>1 DEF Awaited
  <2>6. CASE ActionFinished(w)
    <3>1. WithoutDetail[u] = work[u]
      BY <2>3 DEF WithoutDetail
    <3>2. work'[u] = work[u]
      BY <2>4, <2>6, <3>1 DEF ActionFinished, Given, Freed
    <3> QED BY <2>1, <2>2, <3>2 DEF Awaited
  <2> QED BY <1>8, <2>5, <2>6 DEF DetailLoaded, ActionDetailLoaded, DetailFails, Refused
<1> QED BY <1>1, <1>2, <1>3, <1>4, <1>5, <1>6, <1>7, <1>8 DEF Next

(* "Loading..." on the history or the metrics of the selected VM means that *)
(* an answer is on its way which the slots will take (on_tasks_loaded,      *)
(* on_metrics_fetched).                                                     *)
THEOREM LoadingIsNotForgotten == Spec => []LoadingIsAwaited
<1>1. Init => LoadingIsAwaited
  BY DEF Init, LoadingIsAwaited
<1> QED BY <1>1, AwaitedStep, Always, PTL DEF Spec
=============================================================================
