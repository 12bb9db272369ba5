--------------------------- MODULE RequestOutcome ---------------------------
(***************************************************************************)
(* What a client of the resident app may conclude from the answer to a     *)
(* request: a request is answered at most once, an answer of NotRun means  *)
(* that the command was not executed and never will be, an answer of       *)
(* Result that it was.  Any other answer tells nothing.                    *)
(***************************************************************************)
CONSTANTS
    Req,      \* requests
    NotRun,   \* answers that deny the execution
    Result,   \* answers that come from the execution
    Unsure    \* answers that leave it open

VARIABLES
    ran,      \* requests whose command was executed, or is being executed
    answer    \* [Req -> what the client was told, or "none"]

slot == <<ran, answer>>

Init == ran = {} /\ answer = [r \in Req |-> "none"]

Run(r) ==
    /\ r \notin ran
    /\ answer[r] \notin NotRun
    /\ ran' = ran \cup {r}
    /\ UNCHANGED answer

Settle(r, a) ==
    /\ answer[r] = "none"
    /\ a \in NotRun => r \notin ran
    /\ a \in Result => r \in ran
    /\ answer' = [answer EXCEPT ![r] = a]
    /\ UNCHANGED ran

\* The connection is lost with several requests open.
Drop(a) ==
    /\ a \in Unsure
    /\ \E R \in SUBSET Req :
         /\ \A r \in R : answer[r] = "none"
         /\ answer' = [r \in Req |-> IF r \in R THEN a ELSE answer[r]]
    /\ UNCHANGED ran

Next ==
    \/ \E r \in Req : Run(r) \/ \E a \in NotRun \cup Result \cup Unsure : Settle(r, a)
    \/ \E a \in Unsure : Drop(a)

Spec == Init /\ [][Next]_slot
=============================================================================
