-------------------------- MODULE OperationProofs --------------------------
(***************************************************************************)
(* What Operation keeps for every set of programs, not only for those of   *)
(* the workers there are: the invariants the runs check, and the contract. *)
(***************************************************************************)
EXTENDS Operation, TLAPS

(* The strengthening.  Past is the heart: whatever lies behind pc was done  *)
(* or could be spared.  Order says how far requests have been sent, Tasks   *)
(* that only tasks run on after the answer, Agains what a second try        *)
(* presupposes, Items what a bulk has behind it.                            *)
Past == \A i \in Steps : i < pc => Satisfied(i)
Before == {"idle", "rejected", "opens", "calls"}
Order ==
    /\ \A j \in Steps : Sent(j) => j <= pc
    /\ at \in Before => \A j \in Steps : Sent(j) => j < pc
Waiting ==
    /\ at \in {"waits", "awaits"} => pc \in Steps
    /\ at \in {"waits", "awaits"} => Sent(pc)
    /\ at = "awaits" => steps[pc].on = "await"
Tasks == \A i \in Steps : effect[i] \in {"running", "failed"} => steps[i].does = "task"
Telling ==
    /\ told # "nothing" => at \in {"ends", "over"}
    /\ told = "success" => \A i \in Steps : Satisfied(i)
    /\ heard = "success" => told = "success"
Agains ==
    /\ AgainOnlyIfRefused
    /\ \A i \in Steps :
        steps[i].on = "again" /\ i < pc /\ pc <= i + steps[i].skip => effect[i] = "refused"
Items ==
    Itemized =>
        /\ at # "fails" /\ told = "nothing"
        /\ \A i \in Steps : i < pc => Sent(i)
        /\ at \in {"ends", "over"} => cancelled \/ pc \notin Steps
        /\ ended => at = "over"
IInv ==
    TypeOK /\ Past /\ Order /\ Waiting /\ Tasks /\ Telling /\ Agains /\ Items

(* What the programs of any job are like, one by one.                       *)
LEMMA Shape ==
    ASSUME TypeOK
    PROVE  /\ Len(steps) \in Nat /\ Steps = 1..Len(steps) /\ job.tells \subseteq Answers
           /\ job.finishes \in BOOLEAN
           /\ \A i \in Steps :
                /\ i \in Nat /\ steps[i].skip \in Nat /\ i + steps[i].skip <= Len(steps)
                /\ steps[i].on \in On /\ steps[i].does \in Does
           /\ \A i, k \in Steps :
                steps[i].on = "again" /\ k < i => k + steps[k].skip < i
           /\ \A i \in Steps : steps[i].on = "item" => job.tells = {}
           /\ \A i, k \in Steps : steps[i].on = "item" => steps[k].on = "item" /\ steps[k].skip = 0
<1>1. job \in Jobs /\ job \in Job
  BY JobsAssumption DEF TypeOK
<1>2. steps \in Seq(Step) /\ job.tells \subseteq Answers /\ job.finishes \in BOOLEAN
  BY <1>1 DEF Job, steps
<1>3. Len(steps) \in Nat /\ \A i \in 1..Len(steps) : steps[i] \in Step
  BY <1>2
<1>4. \A i \in 1..Len(steps) :
        steps[i].skip \in Nat /\ steps[i].on \in On /\ steps[i].does \in Does
  BY <1>3 DEF Step
<1>5. \A i \in 1..Len(steps) :
        /\ i + steps[i].skip <= Len(steps)
        /\ steps[i].on = "again" => \A k \in 1..(i - 1) : k + steps[k].skip < i
        /\ steps[i].on = "item" =>
              job.tells = {} /\ \A k \in 1..Len(steps) : steps[k].on = "item" /\ steps[k].skip = 0
  BY <1>1, JobsAssumption DEF steps
<1>6. \A i, k \in 1..Len(steps) :
        steps[i].on = "again" /\ k < i => k + steps[k].skip < i
  <2>1. SUFFICES ASSUME NEW i \in 1..Len(steps), NEW k \in 1..Len(steps),
                        steps[i].on = "again", k < i
                 PROVE  k + steps[k].skip < i
    OBVIOUS
  <2>2. k \in 1..(i - 1)
    BY <2>1, <1>3
  <2> QED
    BY <2>1, <2>2, <1>5
<1> QED
  BY <1>2, <1>3, <1>4, <1>5, <1>6 DEF Steps

(* Nothing is satisfied less when no effect is lost.                        *)
LEMMA Monotone ==
    ASSUME job' = job, \A i \in Steps : Achieved(i) => effect'[i] \in Enough(i)
    PROVE  \A i \in Steps : Satisfied(i) => Satisfied(i)'
<1>1. steps' = steps /\ Steps' = Steps
  BY DEF steps, Steps
<1>2. \A i \in Steps : Achieved(i) => Achieved(i)'
  BY <1>1 DEF Achieved, Enough
<1>3. \A i \in Steps : Required(i)' <=> Required(i)
  BY <1>1 DEF Required
<1>4. \A i \in Steps : Covered(i) => Covered(i)'
  BY <1>1, <1>2 DEF Covered
<1> QED
  BY <1>2, <1>3, <1>4 DEF Satisfied

(* The program, its effects and where run() stands are left alone.          *)
LEMMA Frame ==
    ASSUME IInv, job' = job, effect' = effect, pc' = pc
    PROVE  /\ steps' = steps /\ Steps' = Steps /\ Past' /\ Tasks'
           /\ \A i \in Steps : (Satisfied(i) => Satisfied(i)') /\ (Sent(i)' <=> Sent(i))
           /\ AgainOnlyIfRefused' /\ Agains' /\ (Itemized' <=> Itemized)
<1>1. steps' = steps /\ Steps' = Steps
  BY DEF steps, Steps
<1>2. \A i \in Steps : (Satisfied(i) => Satisfied(i)') /\ (Sent(i)' <=> Sent(i))
  BY Monotone DEF Achieved, Sent
<1>3. Past' /\ Tasks'
  BY <1>1, <1>2 DEF IInv, Past, Tasks
<1>4. Agains' /\ AgainOnlyIfRefused'
  BY <1>1, <1>2 DEF IInv, Agains, AgainOnlyIfRefused
<1>5. Itemized' <=> Itemized
  BY <1>1 DEF Itemized
<1> QED
  BY <1>1, <1>2, <1>3, <1>4, <1>5

LEMMA InitIInv == Init => IInv
<1> SUFFICES ASSUME Init PROVE IInv
  OBVIOUS
<1>1. TypeOK
  <2>1. job \in Job
    BY JobsAssumption DEF Init
  <2>2. steps \in Seq(Step)
    BY <2>1 DEF Job, steps
  <2>3. Len(steps) \in Nat
    BY <2>2
  <2>4. effect \in [Steps -> Effects]
    BY DEF Init, Effects
  <2>5. pc \in 1..(Len(steps) + 1)
    BY <2>3 DEF Init
  <2> QED
    BY <2>4, <2>5 DEF Init, TypeOK, Places, Answers
<1>2. \A i \in Steps : i \in Nat /\ ~ Sent(i) /\ ~ (i < 1)
  BY <1>1, Shape DEF Init, Sent, Steps
<1>3. Past /\ Order /\ Waiting /\ Tasks /\ Telling /\ Agains
  BY <1>1, <1>2, Shape DEF Init, Past, Order, Waiting, Tasks, Telling, Agains, AgainOnlyIfRefused
<1>4. Items
  BY <1>2 DEF Init, Items
<1> QED
  BY <1>1, <1>3, <1>4 DEF IInv

(* The next step after one that was achieved, past those it covers.         *)
LEMMA ProceedKeeps ==
    ASSUME IInv, at \in {"waits", "awaits"}, Achieved(pc), Proceed,
           UNCHANGED <<job, effect, window>>
    PROVE  IInv'
<1>1. TypeOK /\ pc \in Steps /\ pc \in Nat
  BY Shape DEF IInv, TypeOK, Waiting
<1>2. steps' = steps /\ Steps' = Steps
  BY DEF steps, Steps
<1>3. \A i \in Steps : (Satisfied(i) => Satisfied(i)') /\ (Sent(i)' <=> Sent(i))
  BY Monotone DEF Achieved, Sent
<1>4. pc' = pc + 1 + steps[pc].skip /\ at' = "calls" /\ told' = told /\ ended' = ended
  BY DEF Proceed, Goes
<1>5. steps[pc].skip \in Nat /\ pc + steps[pc].skip <= Len(steps)
  BY <1>1, Shape
<1>6. TypeOK'
  <2>1. pc' \in 1..(Len(steps') + 1)
    BY <1>1, <1>2, <1>4, <1>5, Shape
  <2> QED
    BY <2>1, <1>1, <1>2, <1>4 DEF TypeOK, window, Places
<1>7. Sent(pc)
  BY DEF Achieved, Sent, Enough
<1>8. Past'
  <2>1. SUFFICES ASSUME NEW i \in Steps, i < pc' PROVE Satisfied(i)
    BY <1>2, <1>3 DEF Past
  <2>2. CASE i < pc
    BY <2>2 DEF IInv, Past
  <2>3. CASE i = pc
    BY <2>3 DEF Satisfied
  <2>4. CASE pc < i
    <3>1. i <= pc + steps[pc].skip
      BY <2>1, <1>1, <1>4, <1>5, Shape
    <3> QED
      BY <2>4, <3>1, <1>1 DEF Satisfied, Covered
  <2> QED
    BY <1>1, <2>2, <2>3, <2>4, Shape
<1>9. Order'
  <2>1. \A j \in Steps : Sent(j) => j < pc'
    BY <1>1, <1>4, <1>5, Shape DEF IInv, Order
  <2>2. \A j \in Steps : Sent(j) => j <= pc'
    BY <2>1, <1>1, <1>4, <1>5, Shape
  <2> QED
    BY <1>2, <1>3, <2>1, <2>2 DEF Order
<1>10. Waiting' /\ Tasks'
  BY <1>2, <1>4 DEF IInv, Waiting, Tasks
<1>11. Telling'
  BY <1>4 DEF IInv, Telling, window
<1>12. Agains'
  <2>1. AgainOnlyIfRefused'
    BY <1>2, <1>3 DEF IInv, Agains, AgainOnlyIfRefused
  <2>2. SUFFICES ASSUME NEW i \in Steps, steps[i].on = "again", i < pc', pc' <= i + steps[i].skip
                 PROVE  effect[i] = "refused"
    BY <2>1, <1>2 DEF Agains
  <2>3. CASE i < pc
    <3>1. pc <= i + steps[i].skip
      BY <2>2, <1>1, <1>4, <1>5, Shape
    <3> QED
      BY <2>2, <2>3, <3>1 DEF IInv, Agains
  <2>4. CASE i = pc
    BY <2>2, <2>4, <1>1, <1>4, <1>5
  <2>5. CASE pc < i
    <3>1. pc + steps[pc].skip < i
      BY <2>2, <2>5, <1>1, Shape
    <3> QED
      BY <2>2, <3>1, <1>1, <1>4, <1>5, Shape
  <2> QED
    BY <1>1, <2>3, <2>4, <2>5, Shape
<1>13. Items'
  <2>1. SUFFICES ASSUME Itemized
                 PROVE  (\A i \in Steps : i < pc' => Sent(i)) /\ told = "nothing" /\ ~ ended
    BY <1>2, <1>3, <1>4 DEF Items, Itemized
  <2>2. steps[pc].skip = 0
    BY <2>1, <1>1, Shape DEF Itemized
  <2>3. \A i \in Steps : i < pc' => i < pc \/ i = pc
    BY <2>2, <1>1, <1>4, Shape
  <2> QED
    BY <2>1, <2>3, <1>7 DEF IInv, Items
<1> QED
  BY <1>6, <1>8, <1>9, <1>10, <1>11, <1>12, <1>13 DEF IInv

(* The next step although this one failed: nobody needs it.                 *)
LEMMA ProceedAnywayKeeps ==
    ASSUME IInv, at = "waits", Sent(pc), Forgiven, ProceedAnyway,
           UNCHANGED <<job, effect, window>>
    PROVE  IInv'
<1>1. TypeOK /\ pc \in Steps /\ pc \in Nat
  BY Shape DEF IInv, TypeOK, Waiting
<1>2. steps' = steps /\ Steps' = Steps
  BY DEF steps, Steps
<1>3. \A i \in Steps : (Satisfied(i) => Satisfied(i)') /\ (Sent(i)' <=> Sent(i))
  BY Monotone DEF Achieved, Sent
<1>4. pc' = pc + 1 /\ at' = "calls" /\ told' = told /\ ended' = ended
  BY DEF ProceedAnyway, Goes
<1>5. \A i \in Steps : i < pc' => i < pc \/ i = pc
  BY <1>1, <1>4, Shape
<1>6. TypeOK'
  <2>1. pc' \in 1..(Len(steps') + 1)
    BY <1>1, <1>2, <1>4, Shape
  <2> QED
    BY <2>1, <1>1, <1>2, <1>4 DEF TypeOK, window, Places
<1>7. Past'
  <2>1. Satisfied(pc)
    BY DEF Forgiven, Satisfied, Required
  <2> QED
    BY <2>1, <1>2, <1>3, <1>5 DEF IInv, Past
<1>8. Order'
  <2>1. \A j \in Steps : Sent(j) => j < pc' /\ j <= pc'
    BY <1>1, <1>4, Shape DEF IInv, Order
  <2> QED
    BY <1>2, <1>3, <2>1 DEF Order
<1>9. Waiting' /\ Tasks'
  BY <1>2, <1>4 DEF IInv, Waiting, Tasks
<1>10. Telling'
  BY <1>4 DEF IInv, Telling, window
<1>11. Agains'
  <2>1. AgainOnlyIfRefused'
    BY <1>2, <1>3 DEF IInv, Agains, AgainOnlyIfRefused
  <2>2. SUFFICES ASSUME NEW i \in Steps, steps[i].on = "again", i < pc', pc' <= i + steps[i].skip
                 PROVE  effect[i] = "refused"
    BY <2>1, <1>2 DEF Agains
  <2>3. CASE i < pc
    <3>1. pc <= i + steps[i].skip
      BY <2>2, <1>1, <1>4, Shape
    <3> QED
      BY <2>2, <2>3, <3>1 DEF IInv, Agains
  <2>4. CASE i = pc
    BY <2>2, <2>4 DEF Forgiven
  <2> QED
    BY <1>5, <2>2, <2>3, <2>4
<1>12. Items'
  BY <1>2, <1>3, <1>4, <1>5 DEF IInv, Items, Itemized
<1> QED
  BY <1>6, <1>7, <1>8, <1>9, <1>10, <1>11, <1>12 DEF IInv

(* A request is sent, the first of its step, so that nothing is undone.     *)
LEMMA SendFacts ==
    ASSUME IInv, Send
    PROVE  /\ steps' = steps /\ Steps' = Steps /\ pc \in Steps /\ pc \in Nat /\ ~ Sent(pc)
           /\ \A i \in Steps : effect'[i] = IF i = pc THEN "asked" ELSE effect[i]
           /\ \A i \in Steps : Satisfied(i) => Satisfied(i)'
           /\ \A i \in Steps : Sent(i)' <=> (Sent(i) \/ i = pc)
<1>1. steps' = steps /\ Steps' = Steps
  BY DEF Send, steps, Steps
<1>2. TypeOK /\ pc \in Steps /\ pc \in Nat
  BY Shape DEF IInv, Send
<1>3. ~ Sent(pc)
  BY <1>2 DEF IInv, Order, Before, Send
<1>4. \A i \in Steps : effect'[i] = IF i = pc THEN "asked" ELSE effect[i]
  BY <1>2 DEF Send, IInv, TypeOK
<1>5. \A i \in Steps : Satisfied(i) => Satisfied(i)'
  <2>1. \A i \in Steps : Achieved(i) => effect'[i] \in Enough(i)
    BY <1>3, <1>4 DEF Achieved, Sent, Enough
  <2>2. job' = job
    BY DEF Send
  <2> QED
    BY <2>1, <2>2, Monotone
<1> QED
  BY <1>1, <1>2, <1>3, <1>4, <1>5 DEF Sent

LEMMA SendKeeps == ASSUME IInv, Send PROVE IInv'
<1>1. /\ steps' = steps /\ Steps' = Steps /\ pc \in Steps /\ pc \in Nat /\ ~ Sent(pc)
      /\ \A i \in Steps : effect'[i] = IF i = pc THEN "asked" ELSE effect[i]
      /\ \A i \in Steps : Satisfied(i) => Satisfied(i)'
      /\ \A i \in Steps : Sent(i)' <=> (Sent(i) \/ i = pc)
  BY SendFacts
<1>2. TypeOK /\ pc' = pc /\ at' = "waits" /\ told' = told /\ ended' = ended /\ heard' = heard
  BY DEF IInv, Send, Goes, window
<1>3. TypeOK'
  <2>1. effect' \in [Steps -> Effects]
    BY <1>2 DEF Send, TypeOK, Effects
  <2> QED
    BY <2>1, <1>1, <1>2 DEF Send, Goes, window, TypeOK, Places
<1>4. Past' /\ Tasks' /\ Waiting'
  BY <1>1, <1>2, Shape DEF IInv, Past, Tasks, Waiting
<1>5. Order'
  BY <1>1, <1>2, Shape DEF IInv, Order, Before
<1>6. Telling'
  BY <1>1, <1>2 DEF IInv, Telling, Send
<1>7. Agains'
  <2>1. AgainOnlyIfRefused'
    <3>1. SUFFICES ASSUME NEW i \in Steps, NEW j \in Steps, steps[i].on = "again", i < j,
                          j <= i + steps[i].skip, Sent(j) \/ j = pc
                   PROVE  effect'[i] = "refused"
      BY <1>1, Zenon DEF AgainOnlyIfRefused
    <3>2. effect[i] = "refused"
      BY <3>1, <1>1 DEF IInv, Agains, AgainOnlyIfRefused
    <3>3. i # pc
      BY <3>1, <1>1, <1>2, Shape DEF IInv, Order
    <3> QED
      BY <3>2, <3>3, <1>1
  <2>2. ASSUME NEW i \in Steps, steps[i].on = "again", i < pc, pc <= i + steps[i].skip
        PROVE  effect'[i] = "refused"
    <3>1. effect[i] = "refused" /\ i # pc
      BY <2>2, <1>1, <1>2, Shape DEF IInv, Agains
    <3> QED
      BY <3>1, <1>1
  <2> QED
    BY <2>1, <2>2, <1>1, <1>2 DEF Agains
<1>8. Items'
  BY <1>1, <1>2 DEF IInv, Items, Itemized, Send
<1> QED
  BY <1>3, <1>4, <1>5, <1>6, <1>7, <1>8 DEF IInv

(* The server works: what was done stays done, what was refused refused.    *)
LEMMA ServeFacts ==
    ASSUME IInv, NEW k \in Steps, Serve(k)
    PROVE  /\ steps' = steps /\ Steps' = Steps /\ effect' \in [Steps -> Effects]
           /\ \A i \in Steps : Satisfied(i) => Satisfied(i)'
           /\ \A i \in Steps : Sent(i)' <=> Sent(i)
           /\ \A i \in Steps : effect[i] = "refused" => effect'[i] = "refused"
           /\ Tasks'
<1>1. steps' = steps /\ Steps' = Steps /\ job' = job
  BY DEF Serve, steps, Steps
<1>2. effect \in [Steps -> Effects]
  BY DEF IInv, TypeOK
<1>3. PICK o : /\ o \in {"refused", "running", "failed", "done"}
               /\ effect' = [effect EXCEPT ![k] = o]
               /\ \/ effect[k] = "asked" /\ o \in Outcomes(steps[k].does)
                  \/ effect[k] = "running" /\ o \in {"failed", "done"}
  <2>1. \A does : Outcomes(does) \subseteq {"refused", "running", "failed", "done"}
    BY DEF Outcomes
  <2> QED
    BY <2>1 DEF Serve
<1>4. \A i \in Steps : effect'[i] = IF i = k THEN o ELSE effect[i]
  BY <1>2, <1>3
<1>5. effect' \in [Steps -> Effects]
  BY <1>2, <1>3 DEF Effects
<1>6. \A i \in Steps : Satisfied(i) => Satisfied(i)'
  <2>1. \A i \in Steps : Achieved(i) => effect'[i] \in Enough(i)
    BY <1>3, <1>4 DEF Achieved, Enough
  <2> QED
    BY <2>1, <1>1, Monotone
<1>7. \A i \in Steps : Sent(i)' <=> Sent(i)
  BY <1>3, <1>4 DEF Sent
<1>8. Tasks'
  <2>1. o \in {"running", "failed"} => steps[k].does = "task"
    BY <1>3 DEF IInv, Tasks, Outcomes
  <2> QED
    BY <2>1, <1>1, <1>4 DEF IInv, Tasks
<1> QED
  BY <1>1, <1>3, <1>4, <1>5, <1>6, <1>7, <1>8

LEMMA ServeKeeps == ASSUME IInv, NEW k \in Steps, Serve(k) PROVE IInv'
<1>1. /\ steps' = steps /\ Steps' = Steps /\ effect' \in [Steps -> Effects]
      /\ \A i \in Steps : Satisfied(i) => Satisfied(i)'
      /\ \A i \in Steps : Sent(i)' <=> Sent(i)
      /\ \A i \in Steps : effect[i] = "refused" => effect'[i] = "refused"
      /\ Tasks'
  BY ServeFacts
<1>2. UNCHANGED <<job, worker, window>>
  BY DEF Serve
<1>3. TypeOK'
  BY <1>1, <1>2 DEF IInv, TypeOK, worker, window
<1>4. Past' /\ Order' /\ Waiting'
  BY <1>1, <1>2 DEF IInv, Past, Order, Waiting, worker
<1>5. Telling'
  BY <1>1, <1>2 DEF IInv, Telling, worker, window
<1>6. Agains'
  BY <1>1, <1>2 DEF IInv, Agains, AgainOnlyIfRefused, worker
<1>7. Items'
  BY <1>1, <1>2 DEF IInv, Items, Itemized, worker, window
<1> QED
  BY <1>1, <1>3, <1>4, <1>5, <1>6, <1>7 DEF IInv

(* Steps of which run() and the window change only where they stand.        *)
LEMMA StandKeeps ==
    ASSUME IInv, job' = job, effect' = effect, pc' = pc, TypeOK',
           at' \in Before => at \in Before, Waiting',
           told' # "nothing" => at' \in {"ends", "over"},
           told' = "success" => \A i \in Steps : Satisfied(i),
           heard' = "success" => told' = "success",
           Itemized => /\ at' # "fails" /\ told' = "nothing"
                       /\ at' \in {"ends", "over"} => cancelled' \/ pc \notin Steps
                       /\ ended' => at' = "over"
    PROVE  IInv'
<1>1. /\ steps' = steps /\ Steps' = Steps /\ Past' /\ Tasks'
      /\ \A i \in Steps : (Satisfied(i) => Satisfied(i)') /\ (Sent(i)' <=> Sent(i))
      /\ AgainOnlyIfRefused' /\ Agains' /\ (Itemized' <=> Itemized)
  BY Frame
<1>2. Order'
  BY <1>1 DEF IInv, Order
<1>3. Telling'
  BY <1>1 DEF Telling
<1>4. Items'
  BY <1>1 DEF IInv, Items
<1> QED
  BY <1>1, <1>2, <1>3, <1>4 DEF IInv

LEMMA RunKeeps == ASSUME IInv, Run PROVE IInv'
<1>1. TypeOK /\ job' = job /\ effect' = effect /\ pc' = pc /\ steps' = steps /\ Steps' = Steps
  BY DEF IInv, Run, window, steps, Steps, worker
<1>2. TypeOK'
  BY <1>1, Shape DEF TypeOK, Run, window, Places, Answers
<1>3. Waiting' /\ (at' \in Before => at \in Before)
  BY <1>1 DEF IInv, Waiting, Sent, Before, Run, window
<1>4. /\ told' # "nothing" => at' \in {"ends", "over"}
      /\ told' = "success" => \A i \in Steps : Satisfied(i)
      /\ heard' = "success" => told' = "success"
  BY <1>1, Shape DEF IInv, Telling, Past, TypeOK, Run, window
<1>5. Itemized => /\ at' # "fails" /\ told' = "nothing"
                  /\ at' \in {"ends", "over"} => cancelled' \/ pc \notin Steps
                  /\ ended' => at' = "over"
  BY <1>1, Shape DEF IInv, Items, Itemized, Run, window
<1> QED
  BY <1>1, <1>2, <1>3, <1>4, <1>5, StandKeeps

LEMMA RejectKeeps == ASSUME IInv, Reject PROVE IInv'
<1>1. TypeOK /\ job' = job /\ effect' = effect /\ pc' = pc /\ steps' = steps /\ Steps' = Steps
  BY DEF IInv, Reject, window, steps, Steps, worker
<1>2. TypeOK'
  BY <1>1, Shape DEF TypeOK, Reject, window, Places, Answers
<1>3. Waiting' /\ (at' \in Before => at \in Before)
  BY <1>1 DEF IInv, Waiting, Sent, Before, Reject, window
<1>4. /\ told' # "nothing" => at' \in {"ends", "over"}
      /\ told' = "success" => \A i \in Steps : Satisfied(i)
      /\ heard' = "success" => told' = "success"
  BY <1>1, Shape DEF IInv, Telling, Past, TypeOK, Reject, window
<1>5. Itemized => /\ at' # "fails" /\ told' = "nothing"
                  /\ at' \in {"ends", "over"} => cancelled' \/ pc \notin Steps
                  /\ ended' => at' = "over"
  BY <1>1, Shape DEF IInv, Items, Itemized, Reject, window
<1> QED
  BY <1>1, <1>2, <1>3, <1>4, <1>5, StandKeeps

LEMMA OpenKeeps == ASSUME IInv, Open PROVE IInv'
<1>1. TypeOK /\ job' = job /\ effect' = effect /\ pc' = pc /\ steps' = steps /\ Steps' = Steps
  BY DEF IInv, Open, Goes, window, steps, Steps, worker
<1>2. TypeOK'
  BY <1>1, Shape DEF TypeOK, Open, Goes, window, Places, Answers
<1>3. Waiting' /\ (at' \in Before => at \in Before)
  BY <1>1 DEF IInv, Waiting, Sent, Before, Open, Goes, window
<1>4. /\ told' # "nothing" => at' \in {"ends", "over"}
      /\ told' = "success" => \A i \in Steps : Satisfied(i)
      /\ heard' = "success" => told' = "success"
  BY <1>1, Shape DEF IInv, Telling, Past, TypeOK, Open, Goes, window
<1>5. Itemized => /\ at' # "fails" /\ told' = "nothing"
                  /\ at' \in {"ends", "over"} => cancelled' \/ pc \notin Steps
                  /\ ended' => at' = "over"
  BY <1>1, Shape DEF IInv, Items, Itemized, Open, Goes, window
<1> QED
  BY <1>1, <1>2, <1>3, <1>4, <1>5, StandKeeps

LEMMA SucceedKeeps == ASSUME IInv, Succeed PROVE IInv'
<1>1. TypeOK /\ job' = job /\ effect' = effect /\ pc' = pc /\ steps' = steps /\ Steps' = Steps
  BY DEF IInv, Succeed, window, Answer, LeftOut, steps, Steps, worker
<1>2. TypeOK'
  BY <1>1, Shape DEF TypeOK, Succeed, window, Answer, LeftOut, Places, Answers
<1>3. Waiting' /\ (at' \in Before => at \in Before)
  BY <1>1 DEF IInv, Waiting, Sent, Before, Succeed, window, Answer, LeftOut
<1>4. /\ told' # "nothing" => at' \in {"ends", "over"}
      /\ told' = "success" => \A i \in Steps : Satisfied(i)
      /\ heard' = "success" => told' = "success"
  BY <1>1, Shape DEF IInv, Telling, Past, TypeOK, Succeed, window, Answer, LeftOut
<1>5. Itemized => /\ at' # "fails" /\ told' = "nothing"
                  /\ at' \in {"ends", "over"} => cancelled' \/ pc \notin Steps
                  /\ ended' => at' = "over"
  BY <1>1, Shape DEF IInv, Items, Itemized, Succeed, window, Answer, LeftOut
<1> QED
  BY <1>1, <1>2, <1>3, <1>4, <1>5, StandKeeps

LEMMA FailKeeps == ASSUME IInv, Fail PROVE IInv'
<1>1. TypeOK /\ job' = job /\ effect' = effect /\ pc' = pc /\ steps' = steps /\ Steps' = Steps
  BY DEF IInv, Fail, window, Answer, steps, Steps, worker
<1>2. TypeOK'
  BY <1>1, Shape DEF TypeOK, Fail, window, Answer, Places, Answers
<1>3. Waiting' /\ (at' \in Before => at \in Before)
  BY <1>1 DEF IInv, Waiting, Sent, Before, Fail, window, Answer
<1>4. /\ told' # "nothing" => at' \in {"ends", "over"}
      /\ told' = "success" => \A i \in Steps : Satisfied(i)
      /\ heard' = "success" => told' = "success"
  BY <1>1, Shape DEF IInv, Telling, Past, TypeOK, Fail, window, Answer
<1>5. Itemized => /\ at' # "fails" /\ told' = "nothing"
                  /\ at' \in {"ends", "over"} => cancelled' \/ pc \notin Steps
                  /\ ended' => at' = "over"
  BY <1>1, Shape DEF IInv, Items, Itemized, Fail, window, Answer
<1> QED
  BY <1>1, <1>2, <1>3, <1>4, <1>5, StandKeeps

LEMMA FinishKeeps == ASSUME IInv, Finish PROVE IInv'
<1>1. TypeOK /\ job' = job /\ effect' = effect /\ pc' = pc /\ steps' = steps /\ Steps' = Steps
  BY DEF IInv, Finish, window, steps, Steps, worker
<1>2. TypeOK'
  BY <1>1, Shape DEF TypeOK, Finish, window, Places, Answers
<1>3. Waiting' /\ (at' \in Before => at \in Before)
  BY <1>1 DEF IInv, Waiting, Sent, Before, Finish, window
<1>4. /\ told' # "nothing" => at' \in {"ends", "over"}
      /\ told' = "success" => \A i \in Steps : Satisfied(i)
      /\ heard' = "success" => told' = "success"
  BY <1>1, Shape DEF IInv, Telling, Past, TypeOK, Finish, window
<1>5. Itemized => /\ at' # "fails" /\ told' = "nothing"
                  /\ at' \in {"ends", "over"} => cancelled' \/ pc \notin Steps
                  /\ ended' => at' = "over"
  BY <1>1, Shape DEF IInv, Items, Itemized, Finish, window
<1> QED
  BY <1>1, <1>2, <1>3, <1>4, <1>5, StandKeeps

LEMMA HearAnswerKeeps == ASSUME IInv, HearAnswer PROVE IInv'
<1>1. TypeOK /\ job' = job /\ effect' = effect /\ pc' = pc /\ steps' = steps /\ Steps' = Steps
  BY DEF IInv, HearAnswer, worker, Due, steps, Steps
<1>2. TypeOK'
  BY <1>1, Shape DEF TypeOK, HearAnswer, worker, Due, Places, Answers
<1>3. Waiting' /\ (at' \in Before => at \in Before)
  BY <1>1 DEF IInv, Waiting, Sent, Before, HearAnswer, worker, Due
<1>4. /\ told' # "nothing" => at' \in {"ends", "over"}
      /\ told' = "success" => \A i \in Steps : Satisfied(i)
      /\ heard' = "success" => told' = "success"
  BY <1>1, Shape DEF IInv, Telling, Past, TypeOK, HearAnswer, worker, Due
<1>5. Itemized => /\ at' # "fails" /\ told' = "nothing"
                  /\ at' \in {"ends", "over"} => cancelled' \/ pc \notin Steps
                  /\ ended' => at' = "over"
  BY <1>1, Shape DEF IInv, Items, Itemized, HearAnswer, worker, Due
<1> QED
  BY <1>1, <1>2, <1>3, <1>4, <1>5, StandKeeps

LEMMA HearFinishedKeeps == ASSUME IInv, HearFinished PROVE IInv'
<1>1. TypeOK /\ job' = job /\ effect' = effect /\ pc' = pc /\ steps' = steps /\ Steps' = Steps
  BY DEF IInv, HearFinished, worker, Due, steps, Steps
<1>2. TypeOK'
  BY <1>1, Shape DEF TypeOK, HearFinished, worker, Due, Places, Answers
<1>3. Waiting' /\ (at' \in Before => at \in Before)
  BY <1>1 DEF IInv, Waiting, Sent, Before, HearFinished, worker, Due
<1>4. /\ told' # "nothing" => at' \in {"ends", "over"}
      /\ told' = "success" => \A i \in Steps : Satisfied(i)
      /\ heard' = "success" => told' = "success"
  BY <1>1, Shape DEF IInv, Telling, Past, TypeOK, HearFinished, worker, Due
<1>5. Itemized => /\ at' # "fails" /\ told' = "nothing"
                  /\ at' \in {"ends", "over"} => cancelled' \/ pc \notin Steps
                  /\ ended' => at' = "over"
  BY <1>1, Shape DEF IInv, Items, Itemized, HearFinished, worker, Due
<1> QED
  BY <1>1, <1>2, <1>3, <1>4, <1>5, StandKeeps

LEMMA RefreshDataKeeps == ASSUME IInv, RefreshData PROVE IInv'
<1>1. TypeOK /\ job' = job /\ effect' = effect /\ pc' = pc /\ steps' = steps /\ Steps' = Steps
  BY DEF IInv, RefreshData, worker, steps, Steps
<1>2. TypeOK'
  BY <1>1, Shape DEF TypeOK, RefreshData, worker, Places, Answers
<1>3. Waiting' /\ (at' \in Before => at \in Before)
  BY <1>1 DEF IInv, Waiting, Sent, Before, RefreshData, worker
<1>4. /\ told' # "nothing" => at' \in {"ends", "over"}
      /\ told' = "success" => \A i \in Steps : Satisfied(i)
      /\ heard' = "success" => told' = "success"
  BY <1>1, Shape DEF IInv, Telling, Past, TypeOK, RefreshData, worker
<1>5. Itemized => /\ at' # "fails" /\ told' = "nothing"
                  /\ at' \in {"ends", "over"} => cancelled' \/ pc \notin Steps
                  /\ ended' => at' = "over"
  BY <1>1, Shape DEF IInv, Items, Itemized, RefreshData, worker
<1> QED
  BY <1>1, <1>2, <1>3, <1>4, <1>5, StandKeeps

LEMMA CancelKeeps == ASSUME IInv, Cancel PROVE IInv'
<1>1. TypeOK /\ job' = job /\ effect' = effect /\ pc' = pc /\ steps' = steps /\ Steps' = Steps
  BY DEF IInv, Cancel, worker, steps, Steps
<1>2. TypeOK'
  BY <1>1, Shape DEF TypeOK, Cancel, worker, Places, Answers
<1>3. Waiting' /\ (at' \in Before => at \in Before)
  BY <1>1 DEF IInv, Waiting, Sent, Before, Cancel, worker
<1>4. /\ told' # "nothing" => at' \in {"ends", "over"}
      /\ told' = "success" => \A i \in Steps : Satisfied(i)
      /\ heard' = "success" => told' = "success"
  BY <1>1, Shape DEF IInv, Telling, Past, TypeOK, Cancel, worker
<1>5. Itemized => /\ at' # "fails" /\ told' = "nothing"
                  /\ at' \in {"ends", "over"} => cancelled' \/ pc \notin Steps
                  /\ ended' => at' = "over"
  BY <1>1, Shape DEF IInv, Items, Itemized, Cancel, worker
<1> QED
  BY <1>1, <1>2, <1>3, <1>4, <1>5, StandKeeps

LEMMA QuitKeeps == ASSUME IInv, Quit PROVE IInv'
<1>1. TypeOK /\ job' = job /\ effect' = effect /\ pc' = pc /\ steps' = steps /\ Steps' = Steps
  BY DEF IInv, Quit, worker, steps, Steps
<1>2. TypeOK'
  BY <1>1, Shape DEF TypeOK, Quit, worker, Places, Answers
<1>3. Waiting' /\ (at' \in Before => at \in Before)
  BY <1>1 DEF IInv, Waiting, Sent, Before, Quit, worker
<1>4. /\ told' # "nothing" => at' \in {"ends", "over"}
      /\ told' = "success" => \A i \in Steps : Satisfied(i)
      /\ heard' = "success" => told' = "success"
  BY <1>1, Shape DEF IInv, Telling, Past, TypeOK, Quit, worker
<1>5. Itemized => /\ at' # "fails" /\ told' = "nothing"
                  /\ at' \in {"ends", "over"} => cancelled' \/ pc \notin Steps
                  /\ ended' => at' = "over"
  BY <1>1, Shape DEF IInv, Items, Itemized, Quit, worker
<1> QED
  BY <1>1, <1>2, <1>3, <1>4, <1>5, StandKeeps

(* The answer: the next step, or the wait for the task.                     *)
LEMMA AnsweredKeeps == ASSUME IInv, Answered PROVE IInv'
<1>1. TypeOK /\ pc \in Steps /\ steps[pc].on \in On
  BY Shape DEF IInv, Waiting, Answered
<1>2. CASE steps[pc].on = "await" /\ steps[pc].does = "task"
  <2>1. /\ job' = job /\ effect' = effect /\ pc' = pc /\ steps' = steps /\ Steps' = Steps
        /\ at' = "awaits" /\ told' = told /\ ended' = ended /\ UNCHANGED window
    BY <1>2 DEF Answered, Goes, steps, Steps
  <2>2. TypeOK'
    BY <1>1, <2>1 DEF TypeOK, window, Places
  <2>3. Waiting'
    BY <1>1, <1>2, <2>1 DEF Waiting, IInv, Sent, Answered
  <2> QED
    BY <2>1, <2>2, <2>3, StandKeeps DEF Before, IInv, Telling, Items, window, Answered
<1>3. CASE ~ (steps[pc].on = "await" /\ steps[pc].does = "task")
  <2>1. Proceed /\ UNCHANGED <<job, effect, window>> /\ at \in {"waits", "awaits"}
    BY <1>3 DEF Answered
  <2>2. Achieved(pc)
    BY <1>1, <1>3 DEF Answered, Achieved, Enough, IInv, Tasks
  <2> QED
    BY <2>1, <2>2, ProceedKeeps
<1> QED
  BY <1>2, <1>3

(* Whatever ends in "fails" after a request leaves the rest as it was.      *)
LEMMA FailsKeeps ==
    ASSUME IInv, at \in {"waits", "awaits"}, Fails, ~ Itemized, UNCHANGED <<job, effect, window>>
    PROVE  IInv'
<1>1. /\ TypeOK /\ pc' = pc /\ steps' = steps /\ Steps' = Steps
      /\ at' = "fails" /\ told' = told /\ ended' = ended
  BY DEF IInv, Fails, Goes, steps, Steps
<1>2. TypeOK' /\ Waiting'
  BY <1>1 DEF TypeOK, Waiting, window, Places
<1> QED
  BY <1>1, <1>2, StandKeeps DEF Before, IInv, Telling, window

LEMMA OnlyItems ==
    ASSUME IInv, pc \in Steps, Itemized
    PROVE  steps[pc].on = "item"
  BY Shape DEF IInv, Itemized

LEMMA RaisesKeeps == ASSUME IInv, Raises PROVE IInv'
<1>1. CASE Forgiven
  <2>1. Sent(pc)
    BY DEF IInv, Waiting, Raises
  <2> QED
    BY <1>1, <2>1, ProceedAnywayKeeps DEF Raises
<1>2. CASE ~ Forgiven
  <2>1. ~ Itemized
    BY <1>2, OnlyItems DEF IInv, Waiting, Raises, Forgiven
  <2> QED
    BY <1>2, <2>1, FailsKeeps DEF Raises
<1> QED
  BY <1>1, <1>2

LEMMA SeesEndKeeps == ASSUME IInv, SeesEnd PROVE IInv'
<1>1. pc \in Steps /\ steps[pc].on = "await"
  BY DEF IInv, Waiting, SeesEnd
<1>2. CASE effect[pc] = "done" /\ Proceed
  <2>1. Achieved(pc)
    BY <1>1, <1>2 DEF Achieved, Enough
  <2> QED
    BY <1>2, <2>1, ProceedKeeps DEF SeesEnd
<1>3. CASE effect[pc] = "failed" /\ Fails
  BY <1>1, <1>3, OnlyItems, FailsKeeps DEF SeesEnd
<1> QED
  BY <1>2, <1>3 DEF SeesEnd

LEMMA GivesUpKeeps == ASSUME IInv, GivesUp PROVE IInv'
  BY OnlyItems, FailsKeeps DEF GivesUp, IInv, Waiting

LEMMA StutterKeeps == ASSUME IInv, UNCHANGED vars PROVE IInv'
<1>1. /\ TypeOK /\ UNCHANGED <<job, worker, effect, window>> /\ steps' = steps /\ Steps' = Steps
  BY DEF IInv, vars, steps, Steps
<1>2. TypeOK' /\ Waiting'
  BY <1>1 DEF TypeOK, worker, window, IInv, Waiting, Sent
<1> QED
  BY <1>1, <1>2, StandKeeps DEF IInv, Telling, Items, worker, window

LEMMA NextIInv == IInv /\ [Next]_vars => IInv'
<1> SUFFICES ASSUME IInv, [Next]_vars PROVE IInv'
  OBVIOUS
<1>1. CASE Run \/ Reject \/ Cancel \/ Quit
  BY <1>1, RunKeeps, RejectKeeps, CancelKeeps, QuitKeeps
<1>2. CASE Thread
  BY <1>2, OpenKeeps, SendKeeps, AnsweredKeeps, RaisesKeeps, SeesEndKeeps, GivesUpKeeps,
     SucceedKeeps, FailKeeps, FinishKeeps DEF Thread
<1>3. CASE Slots
  BY <1>3, HearAnswerKeeps, HearFinishedKeeps, RefreshDataKeeps DEF Slots
<1>4. CASE \E i \in Steps : Serve(i)
  BY <1>4, ServeKeeps
<1>5. CASE UNCHANGED vars
  BY <1>5, StutterKeeps
<1> QED
  BY <1>1, <1>2, <1>3, <1>4, <1>5 DEF Next

THEOREM Invariance == Spec => []IInv
  BY InitIInv, NextIInv, PTL DEF Spec
----------------------------------------------------------------------------
(* The variables keep their types, whatever the programs.                   *)
THEOREM TypeCorrect == Spec => []TypeOK
<1>1. IInv => TypeOK
  BY DEF IInv
<1> QED
  BY <1>1, Invariance, PTL

(* A success that is shown is whole: BulkVmActionWorker apart, which tells  *)
(* none, every worker's required requests were carried out.                 *)
THEOREM SuccessWhole == Spec => []SuccessIsWhole
<1>1. IInv => SuccessIsWhole
  BY DEF IInv, Telling, SuccessIsWhole
<1> QED
  BY <1>1, Invariance, PTL

(* No request is sent past one that the operation needed and did not get.   *)
THEOREM SentInOrder == Spec => []InOrder
<1>1. IInv => InOrder
  <2>1. SUFFICES ASSUME IInv, NEW i \in Steps, NEW j \in Steps, i < j, Sent(j)
                 PROVE  Satisfied(i)
    BY DEF InOrder
  <2>2. i < pc
    BY <2>1, Shape DEF IInv, Order, TypeOK
  <2> QED
    BY <2>1, <2>2 DEF IInv, Past
<1> QED
  BY <1>1, Invariance, PTL

(* What can be carried out twice is not sent twice, unless it was refused.  *)
THEOREM AgainSafe == Spec => []AgainOnlyIfRefused
<1>1. IInv => AgainOnlyIfRefused
  BY DEF IInv, Agains
<1> QED
  BY <1>1, Invariance, PTL

(* A bulk of any number of VMs tries each of them, unless it is cancelled.  *)
THEOREM BulkTriesAll == Spec => []NoneLeftOut
<1>1. IInv => NoneLeftOut
  <2>1. SUFFICES ASSUME IInv, ended, Itemized, ~ cancelled PROVE \A i \in Steps : Sent(i)
    BY DEF NoneLeftOut
  <2>2. pc \notin Steps /\ pc \in 1..(Len(steps) + 1) /\ \A i \in Steps : i < pc => Sent(i)
    BY <2>1 DEF IInv, Items, TypeOK
  <2>3. \A i \in Steps : i < pc
    BY <2>1, <2>2, Shape DEF IInv
  <2> QED
    BY <2>2, <2>3
<1> QED
  BY <1>1, Invariance, PTL
----------------------------------------------------------------------------
(* The contract.  Only Send changes what was asked, only the server what is *)
(* whole, only Succeed and Fail the answer.                                 *)
Asked == {i \in Steps : Sent(i)}
Whole == \A i \in Steps : Satisfied(i)

LEMMA SendAsks == ASSUME IInv, Send PROVE Contract!Ask
<1>1. /\ steps' = steps /\ Steps' = Steps /\ pc \in Steps /\ ~ Sent(pc)
      /\ \A i \in Steps : effect'[i] = IF i = pc THEN "asked" ELSE effect[i]
      /\ \A i \in Steps : Satisfied(i) => Satisfied(i)'
      /\ \A i \in Steps : Sent(i)' <=> (Sent(i) \/ i = pc)
  BY SendFacts
<1>2. Asked \subseteq Asked' /\ Asked # Asked'
  BY <1>1 DEF Asked
<1>3. \A i \in Steps : Achieved(i)' <=> Achieved(i)
  BY <1>1 DEF Achieved, Enough, Sent
<1>4. \A i \in Steps : Satisfied(i)' <=> Satisfied(i)
  BY <1>1, <1>3 DEF Satisfied, Required, Covered
<1>5. Whole' = Whole
  BY <1>1, <1>4 DEF Whole
<1>6. told = "nothing" /\ told' = told
  BY DEF IInv, Telling, Send, Goes
<1> QED
  BY <1>2, <1>5, <1>6 DEF Contract!Ask, Asked, Whole

LEMMA ServeHappens ==
    ASSUME IInv, NEW k \in Steps, Serve(k)
    PROVE  Contract!Happen \/ UNCHANGED Contract!vars
<1>1. /\ Steps' = Steps /\ \A i \in Steps : Satisfied(i) => Satisfied(i)'
      /\ \A i \in Steps : Sent(i)' <=> Sent(i)
  BY ServeFacts
<1>2. Asked' = Asked /\ told' = told
  BY <1>1 DEF Asked, Serve, worker
<1>3. Whole => Whole'
  BY <1>1 DEF Whole
<1>4. Whole' = Whole \/ (~ Whole /\ Whole' = TRUE)
  BY <1>3 DEF Whole
<1> QED
  BY <1>2, <1>4 DEF Contract!Happen, Contract!vars, Asked, Whole

(* Any other step leaves what was asked and what is whole alone.            *)
LEMMA SameServer ==
    ASSUME job' = job, effect' = effect
    PROVE  Asked' = Asked /\ Whole' = Whole
<1>1. steps' = steps /\ Steps' = Steps
  BY DEF steps, Steps
<1>2. \A i \in Steps : (Sent(i)' <=> Sent(i)) /\ (Satisfied(i)' <=> Satisfied(i))
  BY <1>1 DEF Sent, Satisfied, Required, Achieved, Enough, Covered
<1> QED
  BY <1>1, <1>2 DEF Asked, Whole

LEMMA AnswersKept ==
    ASSUME IInv, job' = job, effect' = effect,
           \/ told' = told
           \/ told = "nothing" /\ told' = "success" /\ Whole
           \/ told = "nothing" /\ told' = "failure"
    PROVE  [Contract!Next]_(Contract!vars)
<1>1. Asked' = Asked /\ Whole' = Whole
  BY SameServer
<1> QED
  BY <1>1 DEF Contract!Next, Contract!Succeed, Contract!Fail, Contract!vars, Asked, Whole

LEMMA SucceedWhole ==
    ASSUME IInv, Succeed
    PROVE  told' = told \/ (told = "nothing" /\ told' = "success" /\ Whole)
<1>1. told = "nothing"
  BY DEF IInv, Telling, Succeed
<1>2. CASE LeftOut
  BY <1>2, Shape DEF IInv, LeftOut, Succeed, Answer
<1>3. CASE pc \notin Steps
  <2>1. \A i \in Steps : i < pc
    BY <1>3, Shape DEF IInv, TypeOK
  <2> QED
    BY <1>1, <2>1 DEF IInv, Past, Succeed, Answer, Whole
<1> QED
  BY <1>2, <1>3 DEF Succeed

LEMMA StepContract == IInv /\ [Next]_vars => [Contract!Next]_(Contract!vars)
<1> SUFFICES ASSUME IInv, [Next]_vars PROVE [Contract!Next]_(Contract!vars)
  OBVIOUS
<1>1. CASE Send
  BY <1>1, SendAsks DEF Contract!Next
<1>2. CASE \E i \in Steps : Serve(i)
  BY <1>2, ServeHappens DEF Contract!Next
<1>3. CASE Succeed
  BY <1>3, SucceedWhole, AnswersKept DEF Succeed
<1>4. CASE Fail
  <2>1. told = "nothing" /\ (told' = told \/ told' = "failure") /\ job' = job /\ effect' = effect
    BY <1>4 DEF IInv, Telling, Fail, Answer
  <2> QED
    BY <2>1, AnswersKept
<1>5. CASE Open \/ Answered \/ Raises \/ SeesEnd \/ GivesUp \/ Finish
  <2>1. job' = job /\ effect' = effect /\ told' = told
    BY <1>5 DEF Open, Answered, Raises, SeesEnd, GivesUp, Finish, Goes, Proceed, ProceedAnyway, Fails
  <2> QED
    BY <2>1, AnswersKept
<1>6. CASE Run \/ Reject \/ Slots \/ Cancel \/ Quit \/ UNCHANGED vars
  <2>1. job' = job /\ effect' = effect /\ told' = told
    BY <1>6 DEF Run, Reject, Slots, HearAnswer, HearFinished, RefreshData, Cancel, Quit, vars, worker
  <2> QED
    BY <2>1, AnswersKept
<1> QED
  BY <1>1, <1>2, <1>3, <1>4, <1>5, <1>6 DEF Next, Thread

LEMMA InitContract == Init => Contract!Init
<1> SUFFICES ASSUME Init PROVE Contract!Init
  OBVIOUS
<1>1. \A i \in Steps : ~ Sent(i)
  BY DEF Init, Sent
<1>2. Asked = {} /\ Whole \in BOOLEAN
  BY <1>1 DEF Asked, Whole
<1> QED
  BY <1>2 DEF Init, Contract!Init, Asked, Whole

(* Every worker, whatever its program, implements the contract the window   *)
(* relies on.                                                               *)
THEOREM Refines == Spec => KeepsContract
  BY InitContract, StepContract, Invariance, PTL DEF Spec, KeepsContract, Contract!Spec
----------------------------------------------------------------------------
(* Why an operation ends: the rank of Operation rises with every step of    *)
(* the thread and has a bound.                                              *)
LEMMA Stages ==
    /\ Stage("opens") = 0 /\ Stage("calls") = 1 /\ Stage("waits") = 2 /\ Stage("awaits") = 3
    /\ Stage("fails") = 4 /\ Stage("ends") = 5 /\ Stage("over") = 6
    /\ \A place \in Places : Stage(place) \in 0..6
  BY DEF Stage, Places

LEMMA RankOrder ==
    ASSUME NEW p \in Nat, NEW q \in Nat, NEW n \in Nat, NEW a \in 0..6, NEW b \in 0..6,
           p < q \/ (p = q /\ a < b), q <= n + 1
    PROVE  7 * p + a < 7 * q + b /\ 7 * q + b <= 7 * n + 13
  OBVIOUS

LEMMA StepLeadsOn ==
    ASSUME IInv, IInv', Thread
    PROVE  Rank < Rank' /\ Rank' <= 7 * Len(steps) + 13
<1>1. /\ pc \in 1..(Len(steps) + 1) /\ pc \in Nat /\ Len(steps) \in Nat
      /\ pc' \in 1..(Len(steps) + 1) /\ pc' \in Nat
      /\ Stage(at) \in 0..6 /\ Stage(at') \in 0..6
  <2>1. steps' = steps
    BY DEF Thread, Open, Send, Answered, Raises, SeesEnd, GivesUp, Succeed, Fail, Finish, steps
  <2> QED
    BY <2>1, Shape, Stages DEF IInv, TypeOK
<1>2. pc' > pc \/ (pc' = pc /\ Stage(at') > Stage(at))
  <2>1. ASSUME Proceed, pc \in Steps PROVE pc' > pc
    <3>1. steps[pc].skip \in Nat
      BY <2>1, Shape DEF IInv
    <3> QED
      BY <2>1, <3>1, <1>1 DEF Proceed
  <2>2. CASE Open
    BY <2>2, Stages DEF Open, Goes
  <2>3. CASE Send
    BY <2>3, Stages DEF Send, Goes
  <2>4. CASE Answered
    <3>1. pc \in Steps
      BY <2>4 DEF Answered, IInv, Waiting
    <3> QED
      BY <2>4, <3>1, <2>1, Stages DEF Answered, Goes
  <2>5. CASE Raises
    BY <2>5, <1>1, Stages DEF Raises, ProceedAnyway, Fails, Goes
  <2>6. CASE SeesEnd
    <3>1. pc \in Steps
      BY <2>6 DEF SeesEnd, IInv, Waiting
    <3> QED
      BY <2>6, <3>1, <2>1, Stages DEF SeesEnd, Fails, Goes
  <2>7. CASE GivesUp
    BY <2>7, Stages DEF GivesUp, Fails, Goes
  <2>8. CASE Succeed \/ Fail \/ Finish
    BY <2>8, Stages DEF Succeed, Fail, Finish
  <2> QED
    BY <2>2, <2>3, <2>4, <2>5, <2>6, <2>7, <2>8 DEF Thread
<1>3. Rank = 7 * pc + Stage(at) /\ Rank' = 7 * pc' + Stage(at')
  BY DEF Rank, Stage
<1>4. /\ 7 * pc + Stage(at) < 7 * pc' + Stage(at')
      /\ 7 * pc' + Stage(at') <= 7 * Len(steps) + 13
  <2>1. pc' <= Len(steps) + 1 /\ (pc < pc' \/ (pc = pc' /\ Stage(at) < Stage(at')))
    BY <1>1, <1>2
  <2> QED
    BY <1>1, <2>1, RankOrder
<1> QED
  BY <1>3, <1>4

(* Whatever its calls do, run() ends: no step of the thread can be one that *)
(* it has made before, and their number is bounded by the program.          *)
THEOREM RunEnds == Spec => LeadsOn
<1> DEFINE On1 == Thread => Rank < Rank' /\ Rank' <= 7 * Len(steps) + 13
<1>1. IInv /\ IInv' /\ [Next]_vars => [On1]_vars
  BY StepLeadsOn
<1> QED
  BY <1>1, Invariance, PTL DEF Spec, LeadsOn
----------------------------------------------------------------------------
(* What the window still has to come: a place is taken by a worker that     *)
(* runs, finished comes with the end, the slot hears what was told.         *)
Held ==
    /\ tracked => at \notin {"idle", "rejected"}
    /\ at = "over" => ended = job.finishes
    /\ heard \in {"nothing", told}

LEMMA InitHeld == Init => Held
  BY DEF Init, Held

LEMMA NextHeld == IInv /\ Held /\ [Next]_vars => Held'
<1> SUFFICES ASSUME IInv, Held, [Next]_vars PROVE Held'
  OBVIOUS
<1>1. CASE Run \/ Reject \/ Cancel \/ Quit
  BY <1>1 DEF Run, Reject, Cancel, Quit, worker, window, Held
<1>2. CASE Open \/ Send \/ Answered \/ Raises \/ SeesEnd \/ GivesUp
  <2>1. /\ UNCHANGED <<job, told, ended, heard, tracked, refresh>>
        /\ at' \in {"calls", "waits", "awaits", "fails"}
    BY <1>2 DEF Open, Send, Answered, Raises, SeesEnd, GivesUp, Proceed, ProceedAnyway, Fails,
       Goes, window
  <2> QED
    BY <2>1 DEF Held
<1>3. CASE Succeed \/ Fail
  <2>1. told = "nothing" /\ heard = "nothing"
    BY <1>3 DEF IInv, Telling, Held, Succeed, Fail
  <2> QED
    BY <2>1, <1>3 DEF Succeed, Fail, window, Held
<1>4. CASE Finish
  BY <1>4 DEF Finish, window, Held
<1>5. CASE HearAnswer
  BY <1>5 DEF HearAnswer, worker, Due, Held
<1>6. CASE HearFinished
  BY <1>6 DEF HearFinished, worker, Due, Held
<1>7. CASE RefreshData
  BY <1>7 DEF RefreshData, worker, Held
<1>8. CASE \E i \in Steps : Serve(i)
  BY <1>8 DEF Serve, worker, window, Held
<1>9. CASE UNCHANGED vars
  BY <1>9 DEF vars, worker, window, Held
<1> QED
  BY <1>1, <1>2, <1>3, <1>4, <1>5, <1>6, <1>7, <1>8, <1>9 DEF Next, Thread, Slots

LEMMA HeldAlways == Spec => []Held
  BY InitHeld, NextHeld, Invariance, PTL DEF Spec

(* No worker that emits finished keeps a place of the pool for good: it     *)
(* still runs, or the slot that gives the place back is due.                *)
THEOREM NoPlaceIsLost == Spec => []PlaceIsAwaited
<1>1. IInv /\ Held => PlaceIsAwaited
  BY DEF IInv, TypeOK, Held, PlaceIsAwaited
<1> QED
  BY <1>1, Invariance, HeldAlways, PTL
=============================================================================
