----------------------------- MODULE CollectionRun -----------------------------
(***************************************************************************)
(* What the two writers of a collection run promise its readers: the run   *)
(* and its attempt rows start as running, attempts settle, and the step    *)
(* that settles the run leaves no attempt running and the rollup equal to  *)
(* the sum of the attempts.  A completed run may still be overturned to    *)
(* failed, with every count as it was.                                     *)
(***************************************************************************)
EXTENDS Naturals, Functions

CONSTANTS None, AttemptIds

VARIABLES
    status,    \* of the run, or None before its row exists
    rollup,    \* the run's own counters
    attempts   \* [AttemptIds -> [status, counts] or None]

vars == <<status, rollup, attempts>>

Completed == {"completed", "completed_with_errors"}

Zero == [discovered |-> 0, inserted |-> 0, updated |-> 0]

Created == {a \in AttemptIds : attempts[a] # None}
Running == {a \in Created : attempts[a].status = "running"}

Total == [f \in DOMAIN Zero |->
            SumFunction([a \in Created |-> attempts[a].counts[f]])]

Init == status = None /\ rollup = Zero /\ attempts = [a \in AttemptIds |-> None]

\* New attempts begin as running with nothing counted; settled ones stay.
AttemptsProgress ==
    \A a \in AttemptIds :
      /\ attempts[a] = None /\ attempts'[a] # None =>
           attempts'[a] = [status |-> "running", counts |-> Zero]
      /\ attempts[a] # None => attempts'[a] # None
      /\ a \in Created \ Running => attempts'[a] = attempts[a]

Start == /\ status = None
         /\ status' = "running"
         /\ rollup' = Zero
         /\ AttemptsProgress

\* Counts move to the rollup with the attempts they come from, or later.
Progress == /\ status = "running"
            /\ status' = "running"
            /\ AttemptsProgress
            /\ \/ rollup' = rollup
               \/ \A f \in DOMAIN Zero : rollup'[f] + Total[f] = rollup[f] + Total'[f]

Settle == /\ status = "running"
          /\ status' \in Completed \cup {"failed"}
          /\ AttemptsProgress
          /\ Running' = {}
          /\ rollup' = Total'

Overturn == /\ status \in Completed
            /\ status' = "failed"
            /\ \A a \in Created : /\ attempts'[a].counts = attempts[a].counts
                                  /\ attempts'[a].status \in {attempts[a].status, "failed"}
            /\ Created' = Created
            /\ rollup' = Total'

Next == Start \/ Progress \/ Settle \/ Overturn

Spec == Init /\ [][Next]_vars
=============================================================================
