-------------------------- MODULE WorkerContract --------------------------
(***************************************************************************)
(* What Worker core promises of an execution, apart from how it keeps it     *)
(* (packages/worker-core/src/run.ts and outcome.ts): one answer; a Refusal    *)
(* only while no Reviewer was let in, a Failure or a Result only after; a     *)
(* Result only when the Sandbox is provably gone; and an answer that leaves   *)
(* a Sandbox behind only on a runtime nobody trusts any more.                 *)
(***************************************************************************)
CONSTANT Execs

VARIABLES
    authorized,  \* the executions whose Pass was begun
    answer,      \* per execution: "none", "refusal", "failure" or "result"
    standing,    \* the executions something of whose Sandbox exists
    trusted      \* whether the runtime is

contractVars == <<authorized, answer, standing, trusted>>

ContractInit ==
    /\ authorized = {} /\ standing = {} /\ trusted = TRUE
    /\ answer = [e \in Execs |-> "none"]

Provision(e) ==
    /\ answer[e] = "none"
    /\ standing' \in {standing \cup {e}, standing \ {e}}
    /\ trusted' \in {trusted, FALSE}
    /\ UNCHANGED <<authorized, answer>>

(* Any launch on the runtime may end its trust, and none restores it.        *)
Distrust ==
    /\ trusted' = FALSE
    /\ UNCHANGED <<authorized, answer, standing>>

Authorize(e) ==
    /\ answer[e] = "none" /\ e \in standing
    /\ authorized' = authorized \cup {e}
    /\ UNCHANGED <<answer, standing, trusted>>

Answer(e) ==
    /\ answer[e] = "none"
    /\ \/ e \notin authorized /\ answer' = [answer EXCEPT ![e] = "refusal"]
       \/ e \in authorized /\ answer' = [answer EXCEPT ![e] = "failure"]
       \/ e \in authorized /\ e \notin standing /\ answer' = [answer EXCEPT ![e] = "result"]
    /\ e \in standing => ~trusted
    /\ UNCHANGED <<authorized, standing, trusted>>

ContractNext == Distrust \/ \E e \in Execs : Provision(e) \/ Authorize(e) \/ Answer(e)

ContractSpec == ContractInit /\ [][ContractNext]_contractVars
=============================================================================
