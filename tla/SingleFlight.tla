----------------------------- MODULE SingleFlight -----------------------------
(***************************************************************************)
(* What the index job queue promises its callers, whatever its data        *)
(* structures: one job runs at a time, the slot is never idle while a job  *)
(* waits, the job that takes the slot is one no waiting job is more urgent *)
(* than, and a job that was answered is never touched again.               *)
(*                                                                         *)
(* Jobs are numbered in the order they are accepted.  One step may accept, *)
(* finish, give up and start jobs together, as one turn of the event loop  *)
(* does.                                                                   *)
(***************************************************************************)
EXTENDS Naturals, Sequences

VARIABLES
    phase,  \* job -> "waiting", "running" or "settled"
    rank    \* job -> how urgent it is, 0 the most

Jobs == DOMAIN phase
Waiting == {j \in Jobs : phase[j] = "waiting"}
Running == {j \in Jobs : phase[j] = "running"}

Init == phase = <<>> /\ rank = <<>>

\* No accepted job is forgotten, and none goes back.
Forward ==
    /\ Jobs \subseteq Jobs'
    /\ \A j \in Jobs : /\ phase[j] = "running" => phase'[j] # "waiting"
                       /\ phase[j] = "settled" => phase'[j] = "settled"
\* A job may become more urgent while it waits, never less.
Urgency ==
    \A j \in Jobs : rank'[j] <= rank[j] /\ (phase[j] # "waiting" => rank'[j] = rank[j])
OneSlot == \A i, j \in Running' : i = j
NeverIdle == Waiting' # {} => Running' # {}
\* A job that takes the slot in this step is at least as urgent as all that wait.
MostUrgentFirst ==
    \A j \in Running' \ Running : \A i \in Waiting' : rank'[j] <= rank'[i]

Next == Forward /\ Urgency /\ OneSlot /\ NeverIdle /\ MostUrgentFirst

Spec == Init /\ [][Next]_<<phase, rank>>
=============================================================================
