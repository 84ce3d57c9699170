-------------------------- MODULE SubmissionPromise --------------------------
(***************************************************************************)
(* What the asynchronous submission API promises its clients, whatever     *)
(* happens to tasks, workers and polls: an accepted submission is resolved *)
(* once, with one outcome that is never revised; the package version it    *)
(* asked for is published by at most one submission, the one that says so; *)
(* and no submission stays pending for ever.                               *)
(***************************************************************************)
CONSTANTS
    Subs,  \* submissions, all of the same package version
    None   \* no submission

VARIABLES
    outcome,     \* what a poll of the submission would report
    publishedBy  \* the submission that published the version, or None

vars == <<outcome, publishedBy>>

Init ==
    /\ outcome = [s \in Subs |-> "absent"]
    /\ publishedBy = None

Accept(s) ==
    /\ outcome[s] = "absent"
    /\ outcome' = [outcome EXCEPT ![s] = "pending"]
    /\ UNCHANGED publishedBy

Reject(s) ==
    /\ outcome[s] = "pending"
    /\ outcome' = [outcome EXCEPT ![s] = "errors"]
    /\ UNCHANGED publishedBy

Publish(s) ==
    /\ outcome[s] = "pending"
    /\ publishedBy = None
    /\ outcome' = [outcome EXCEPT ![s] = "version"]
    /\ publishedBy' = s

\* Abandoned and old submissions are forgotten.
Forget(s) ==
    /\ outcome[s] \in {"pending", "errors", "version"}
    /\ outcome' = [outcome EXCEPT ![s] = "gone"]
    /\ UNCHANGED publishedBy

Settle(s) == outcome[s] = "pending" /\ (Reject(s) \/ Publish(s) \/ Forget(s))

Next == \E s \in Subs : Accept(s) \/ Reject(s) \/ Publish(s) \/ Forget(s)

\* The part of the promise that no finite behaviour may break, and all of it.
Safety == Init /\ [][Next]_vars

Spec == Safety /\ \A s \in Subs : WF_vars(Settle(s))

=============================================================================
