----------------------------- MODULE JobService -----------------------------
(***************************************************************************)
(* What the daemon's queue promises about the jobs it accepts, whatever    *)
(* channels, goroutines and locks carry it out: a job is accepted once and *)
(* waits its turn; a free server takes the job that has waited longest;    *)
(* nobody else has it until its server ends it; and an outcome never       *)
(* changes, but for a cancellation that comes too late.  No job is         *)
(* cancelled that nobody asked to cancel.  JobQueue is shown to implement  *)
(* it.                                                                     *)
(***************************************************************************)
EXTENDS Naturals, Sequences

CONSTANTS Jobs, Servers, Capacity, NoJob

VARIABLES waiting,  \* the accepted jobs that nobody serves yet, oldest first
          serving,  \* server -> the job it has, or NoJob
          outcome,  \* job -> how it ended, or "none"
          asked     \* jobs whose cancellation was asked for

vars == <<waiting, serving, outcome, asked>>

Waits(j) == \E i \in 1..Len(waiting) : waiting[i] = j
Served(j) == \E s \in Servers : serving[s] = j

Init ==
    /\ waiting = <<>>
    /\ serving = [s \in Servers |-> NoJob]
    /\ outcome = [j \in Jobs |-> "none"]
    /\ asked = {}

Accept(j) ==
    /\ ~Waits(j) /\ ~Served(j) /\ outcome[j] = "none"
    /\ Len(waiting) < Capacity
    /\ waiting' = Append(waiting, j)
    /\ UNCHANGED <<serving, outcome, asked>>

Serve(s) ==
    /\ serving[s] = NoJob /\ waiting # <<>>
    /\ serving' = [serving EXCEPT ![s] = Head(waiting)]
    /\ waiting' = Tail(waiting)
    /\ UNCHANGED <<outcome, asked>>

End(s, how) ==
    /\ serving[s] # NoJob
    /\ how = "Cancelled" => serving[s] \in asked
    /\ outcome' = [outcome EXCEPT ![serving[s]] = how]
    /\ serving' = [serving EXCEPT ![s] = NoJob]
    /\ UNCHANGED <<waiting, asked>>

AskToCancel(j) ==
    /\ asked' = asked \union {j}
    /\ UNCHANGED <<waiting, serving, outcome>>

\* The cancellation of a job that has ended.
CancelLate(j) ==
    /\ j \in asked /\ outcome[j] # "none"
    /\ outcome' = [outcome EXCEPT ![j] = "Cancelled"]
    /\ UNCHANGED <<waiting, serving, asked>>

Next ==
    \/ \E j \in Jobs : Accept(j) \/ AskToCancel(j) \/ CancelLate(j)
    \/ \E s \in Servers :
          Serve(s) \/ \E how \in {"Completed", "Failed", "Cancelled"} : End(s, how)

Spec == Init /\ [][Next]_vars
=============================================================================
