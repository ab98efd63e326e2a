------------------------------ MODULE RunBudget ------------------------------
(***************************************************************************)
(* The budget of one run while the branches of its layers run side by side *)
(* (one gather() per layer of a DAG, or the agents of a swarm).  All of    *)
(* them share workflow.budget: BudgetEnforcer.call checks it, waits for    *)
(* the provider, and only then charges the answer; a sub-workflow reserves *)
(* the whole of its own budget first and gets back what it did not use.    *)
(* Between two awaits a branch runs undisturbed.                           *)
(***************************************************************************)
EXTENDS Integers, FiniteSets

CONSTANTS
    Node,            \* the branches of the widest layer
    SubNode,         \* those that run a sub-workflow; the others call the model
    NoNode,
    MaxCost, MaxIterations, MaxDepth,   \* the declared budget
    Estimate,        \* the most that a call is estimated at
    Cap,             \* the declared max_cost_usd of a sub-workflow
    ChildOverrun,    \* how far a sub-workflow may overrun it (OvershootBounded)
    MaxRetries,      \* node.max_retries
    Layers           \* number of layers

ASSUME BudgetAssumption ==
    /\ IsFiniteSet(Node) /\ Node # {} /\ NoNode \notin Node
    /\ SubNode \subseteq Node
    /\ {MaxCost, MaxIterations, MaxDepth, Estimate, Cap} \subseteq Nat
    /\ {ChildOverrun, MaxRetries, Layers} \subseteq Nat

VARIABLES
    spent,        \* budget.spent_usd
    iterations,   \* budget.iterations_used
    depth,        \* budget.depth_used
    late,         \* the wall-clock budget is used up
    pc, est, attempt,   \* each branch's place, the price of its call, its retries
    layer,        \* layers started
    aborted,      \* the run's abort signal
    over,         \* the strategy has returned
    answers,      \* calls the provider has answered
    paid,         \* what calls and sub-workflows have really cost
    overrun,      \* the part of it that sub-workflows spent beyond their caps
    last          \* the branch whose call was admitted last

budget == <<spent, iterations, depth>>
ledger == <<answers, paid, overrun, last>>
run == <<late, layer, aborted, over>>
vars == <<budget, ledger, run, pc, est, attempt>>

Place == {"ready", "dispatch", "calling", "child", "retrying", "done"}

TypeOK ==
    /\ spent \in Nat /\ iterations \in Nat /\ depth \in Nat
    /\ pc \in [Node -> Place]
    /\ est \in [Node -> 0..Estimate]
    /\ attempt \in [Node -> 0..MaxRetries]
    /\ layer \in 0..Layers
    /\ late \in BOOLEAN /\ aborted \in BOOLEAN /\ over \in BOOLEAN
    /\ answers \in Nat /\ paid \in Nat /\ overrun \in Nat
    /\ last \in Node \cup {NoNode}

Init ==
    /\ spent = 0 /\ iterations = 0 /\ depth = 0
    /\ pc = [n \in Node |-> "done"]
    /\ est = [n \in Node |-> 0]
    /\ attempt = [n \in Node |-> 0]
    /\ layer = 0
    /\ late = FALSE /\ aborted = FALSE /\ over = FALSE
    /\ answers = 0 /\ paid = 0 /\ overrun = 0
    /\ last = NoNode

-----------------------------------------------------------------------------
(* Budget *)

\* is_exhausted: no money, time, iterations or "depth" left.  The clock starts with the
\* first call.
Exhausted ==
    \/ spent >= MaxCost
    \/ late
    \/ iterations >= MaxIterations
    \/ depth >= MaxDepth

\* Mutation of Fits: the estimate is left out, as before "R-5 (I.14)".
FitsWhatever(e) == TRUE
Fits(e) == e <= MaxCost - spent

Refunded(amount) == IF amount > spent THEN spent ELSE amount

-----------------------------------------------------------------------------
(* NodeExecutor.execute *)

Goto(n, p) == pc' = [pc EXCEPT ![n] = p]

\* What the first line of the loop does: a signal ends the branch between attempts.
Start(n) == Goto(n, IF aborted THEN "done" ELSE "dispatch")

\* The check before the first attempt.
Enter(n) ==
    /\ pc[n] = "ready"
    /\ IF Exhausted THEN Goto(n, "done") ELSE Start(n)
    /\ UNCHANGED <<budget, ledger, run, est, attempt>>

\* Mutation of Failed: the attempts are not counted.
FailedUncounted(n) == Goto(n, "retrying") /\ UNCHANGED attempt
Failed(n) ==
    IF attempt[n] < MaxRetries
    THEN Goto(n, "retrying") /\ attempt' = [attempt EXCEPT ![n] = @ + 1]
    ELSE Goto(n, "done") /\ UNCHANGED attempt

Retry(n) ==
    /\ pc[n] = "retrying"
    /\ Start(n)
    /\ UNCHANGED <<budget, ledger, run, est, attempt>>

\* The attempt fails before it costs anything: the mission's circuit breaker is open,
\* the sub-workflow is not found.
TurnedAway(n) ==
    /\ pc[n] = "dispatch"
    /\ Failed(n)
    /\ UNCHANGED <<budget, ledger, run, est>>

-----------------------------------------------------------------------------
(* BudgetEnforcer.call *)

\* From the check to the request there is no await.  A call that finds the budget
\* exhausted, or does not fit, raises BudgetExhausted, which is not retried; one that
\* does not fit has been counted.
Admit(n) ==
    /\ pc[n] = "dispatch" /\ n \notin SubNode
    /\ \/ /\ Exhausted
          /\ Goto(n, "done")
          /\ UNCHANGED <<iterations, est, last>>
       \/ /\ ~Exhausted
          /\ iterations' = iterations + 1
          /\ \E e \in 0..Estimate :
                IF Fits(e)
                THEN Goto(n, "calling") /\ est' = [est EXCEPT ![n] = e] /\ last' = n
                ELSE Goto(n, "done") /\ UNCHANGED <<est, last>>
    /\ UNCHANGED <<spent, depth, run, answers, paid, overrun, attempt>>

\* Mutation of Tracked: depth_used is left to the sub-workflows.
Untracked == depth
Tracked == iterations

EndCall(n) ==
    /\ est' = [est EXCEPT ![n] = 0]
    /\ last' = IF last = n THEN NoNode ELSE last

\* The answer is charged, at most at its estimate; it may be empty, which is a failure.
Answer(n) ==
    /\ pc[n] = "calling"
    /\ \E c \in 0..est[n] : spent' = spent + c /\ paid' = paid + c
    /\ depth' = Tracked
    /\ answers' = answers + 1
    /\ Failed(n) \/ (Goto(n, "done") /\ UNCHANGED attempt)
    /\ EndCall(n)
    /\ UNCHANGED <<iterations, run, overrun>>

\* The provider fails or times out: nothing is charged, and the iteration stays used.
ProviderFails(n) ==
    /\ pc[n] = "calling"
    /\ Failed(n)
    /\ EndCall(n)
    /\ UNCHANGED <<budget, run, answers, paid, overrun>>

-----------------------------------------------------------------------------
(* _handle_sub_workflow *)

Reserve(n) ==
    /\ pc[n] = "dispatch" /\ n \in SubNode
    /\ IF Fits(Cap)
       THEN Goto(n, "child") /\ spent' = spent + Cap
       ELSE Goto(n, "done") /\ UNCHANGED spent
    /\ UNCHANGED <<iterations, depth, ledger, run, est, attempt>>

\* Mutations of Unused: a failed sub-workflow keeps its reservation, or gets all of it.
UnusedOnSuccess(c, ok) == IF ok /\ c < Cap THEN Cap - c ELSE 0
UnusedAllOnFailure(c, ok) == IF ~ok THEN Cap ELSE IF c < Cap THEN Cap - c ELSE 0
Unused(c, ok) == IF c < Cap THEN Cap - c ELSE 0

\* The sub-workflow has spent c of its own budget and returns or raises.
Close(n) ==
    /\ pc[n] = "child"
    /\ \E c \in 0..(Cap + ChildOverrun), ok \in BOOLEAN :
          /\ spent' = spent - Refunded(Unused(c, ok))
          /\ paid' = paid + c
          /\ overrun' = overrun + (IF c > Cap THEN c - Cap ELSE 0)
          /\ IF ok THEN Goto(n, "done") /\ UNCHANGED attempt ELSE Failed(n)
    /\ UNCHANGED <<iterations, depth, run, est, answers, last>>

-----------------------------------------------------------------------------
(* DAGStrategy.execute: the results of a layer, failures included, are      *)
(* collected before the next one starts.                                    *)

LayerDone == \A n \in Node : pc[n] = "done"

NextLayer ==
    /\ LayerDone /\ ~over /\ ~aborted /\ layer < Layers
    /\ layer' = layer + 1
    /\ \E executable \in SUBSET Node :
          pc' = [n \in Node |-> IF n \in executable THEN "ready" ELSE "done"]
    /\ attempt' = [n \in Node |-> 0]
    /\ UNCHANGED <<budget, ledger, est, late, aborted, over>>

Return ==
    /\ LayerDone /\ ~over /\ (aborted \/ layer = Layers)
    /\ over' = TRUE
    /\ UNCHANGED <<budget, ledger, pc, est, attempt, late, layer, aborted>>

Elapse ==
    /\ ~late /\ iterations > 0 /\ ~over
    /\ late' = TRUE
    /\ UNCHANGED <<budget, ledger, pc, est, attempt, layer, aborted, over>>

Abort ==
    /\ ~aborted /\ ~over
    /\ aborted' = TRUE
    /\ UNCHANGED <<budget, ledger, pc, est, attempt, late, layer, over>>

Branch(n) ==
    \/ Enter(n) \/ Retry(n) \/ TurnedAway(n)
    \/ Admit(n) \/ Answer(n) \/ ProviderFails(n)
    \/ Reserve(n) \/ Close(n)

Next ==
    \/ \E n \in Node : Branch(n)
    \/ NextLayer \/ Return \/ Elapse \/ Abort

Spec == Init /\ [][Next]_vars

(* Providers answer or time out, sub-workflows return, and the event loop   *)
(* serves every task.  Nobody has to abort the run, and it has no deadline  *)
(* but for its calls.                                                       *)
Fairness ==
    /\ \A n \in Node : WF_vars(Branch(n))
    /\ WF_vars(NextLayer \/ Return)

FairSpec == Spec /\ Fairness

-----------------------------------------------------------------------------
(* Properties *)

Calling == {n \in Node : pc[n] = "calling"}
Children == {n \in Node : pc[n] = "child"}

(* The run overshoots its budget by less than one call for each branch that *)
(* runs beside another: each call fits when it is made, but what the others *)
(* are being charged is not counted (BudgetEnforcer.call).  A run whose     *)
(* branches come one after the other does not overshoot at all (I.14).      *)
OvershootBounded == spent <= MaxCost + Estimate * (Cardinality(Node) - 1)

(* The budget accounts for all the run has cost, reservations included, but *)
(* for what sub-workflows spent beyond their caps, whatever order branches  *)
(* reserve, fail, retry and refund in (budget.reserve, budget.refund).      *)
BooksBalance ==
    /\ spent + overrun = paid + Cap * Cardinality(Children)
    /\ overrun <= paid

(* What a run really costs, nested overruns included, is bounded by its     *)
(* budget, in proportion to how far a sub-workflow can overrun its cap:     *)
(* though overruns are never charged, each uses up a reservation for good,  *)
(* and a reservation is made only if it fits (_handle_sub_workflow).        *)
CostBounded ==
    Cap * paid
      <= (Cap + ChildOverrun) * (MaxCost + Estimate * (Cardinality(Node) - 1))

(* depth_used is set to the number of iterations: a run makes no more than  *)
(* max_depth calls that are answered, but for those under way side by side  *)
(* with the last one, however many iterations it was granted.               *)
AnswersBounded ==
    answers > 0 \/ Calling # {} =>
        answers + Cardinality(Calling) < MaxDepth + Cardinality(Node \ SubNode)

(* Every call made has been counted against max_iterations before it was    *)
(* made, whether it was answered or not.                                    *)
CallsCounted ==
    /\ answers + Cardinality(Calling) <= iterations
    /\ iterations <= MaxIterations

(* "No LLM call is made if it would exceed the declared budget."            *)
BudgetIsCeiling == spent <= MaxCost

(* The run ends, out of budget, aborted or not, however often its calls     *)
(* fail and its sub-workflows give their reservations back.                 *)
RunEnds == <>over

-----------------------------------------------------------------------------
(* The inductive invariant behind the safety properties *)

\* Only model calls are priced, only sub-workflows reserve.
BranchesInPlace == Children \subseteq SubNode /\ Calling \subseteq Node \ SubNode

\* The call admitted last fitted; the others may each add an estimate to it.
InFlight ==
    IF last \in Calling
    THEN spent + est[last] + Estimate * (Cardinality(Calling) - 1)
           <= MaxCost + Estimate * (Cardinality(Node) - 1)
    ELSE spent + Estimate * Cardinality(Calling)
           <= MaxCost + Estimate * (Cardinality(Node) - 1)

\* An answer sets depth_used to at least the number of answers.
DepthCounts == answers <= depth /\ depth <= iterations

BooksInv ==
    /\ TypeOK
    /\ BranchesInPlace
    /\ InFlight
    /\ BooksBalance
    /\ DepthCounts
    /\ CallsCounted
    /\ AnswersBounded

\* What was spent beyond the caps is at most ChildOverrun for each Cap within them.
OverrunsUseUpCaps == Cap * overrun <= ChildOverrun * (paid - overrun)

(* The inductive invariant of the budget.                                   *)
BudgetInv == BooksInv /\ OverrunsUseUpCaps
=============================================================================
