-------------------------- MODULE RunBudgetProofs --------------------------
(***************************************************************************)
(* BooksInv is inductive, for any branches, prices, caps and limits.  The *)
(* properties count branches: the lemmas of the first part say what a step *)
(* does to the sets of branches that wait for a provider or a sub-workflow *)
(* and to their sizes, those of the second what it does to the budget.     *)
(***************************************************************************)
EXTENDS RunBudget, FiniteSetTheorems, TLAPS

(* The sets of branches are finite, and change their size by one.          *)
LEMMA Sizes ==
    ASSUME NEW S \in SUBSET Node
    PROVE  /\ IsFiniteSet(S) /\ Cardinality(S) \in Nat
           /\ \A n \in S : Cardinality(S \ {n}) = Cardinality(S) - 1 /\ Cardinality(S) >= 1
           /\ \A n \in Node \ S : Cardinality(S \cup {n}) = Cardinality(S) + 1
<1>1. IsFiniteSet(S)
    BY BudgetAssumption, FS_Subset
<1>2. Cardinality(S) \in Nat
    BY <1>1, FS_CardinalityType
<1>3. ASSUME NEW n \in S
      PROVE  Cardinality(S \ {n}) = Cardinality(S) - 1 /\ Cardinality(S) >= 1
    <2>1. Cardinality(S \ {n}) = Cardinality(S) - 1
        BY <1>1, FS_RemoveElement
    <2>2. IsFiniteSet(S \ {n})
        BY <1>1, FS_RemoveElement
    <2>3. Cardinality(S \ {n}) \in Nat
        BY <2>2, FS_CardinalityType
    <2> QED
        BY <1>2, <2>1, <2>3
<1>4. ASSUME NEW n \in Node \ S
      PROVE  Cardinality(S \cup {n}) = Cardinality(S) + 1
    BY <1>1, FS_AddElement
<1> QED
    BY <1>1, <1>2, <1>3, <1>4

(* No more branches than there are.                                        *)
LEMMA NotMore ==
    ASSUME NEW S \in SUBSET Node, NEW T \in SUBSET S
    PROVE  Cardinality(T) <= Cardinality(S)
BY Sizes, FS_Subset

(* Where a branch goes decides whether it is counted.                      *)
LEMMA Moved ==
    ASSUME TypeOK, NEW n \in Node, NEW p \in Place, Goto(n, p)
    PROVE  /\ pc' \in [Node -> Place]
           /\ Calling' = IF p = "calling" THEN Calling \cup {n} ELSE Calling \ {n}
           /\ Children' = IF p = "child" THEN Children \cup {n} ELSE Children \ {n}
BY DEF TypeOK, Goto, Calling, Children, Place

(* A failure takes the branch to another attempt or to its end.            *)
LEMMA AfterFailure ==
    ASSUME TypeOK, NEW n \in Node, Failed(n)
    PROVE  /\ attempt' \in [Node -> 0..MaxRetries]
           /\ pc' \in [Node -> Place]
           /\ Calling' = Calling \ {n} /\ Children' = Children \ {n}
<1>1. Goto(n, "retrying") \/ Goto(n, "done")
    BY DEF Failed
<1>2. attempt' \in [Node -> 0..MaxRetries]
    BY BudgetAssumption DEF Failed, TypeOK
<1> QED
    BY <1>1, <1>2, Moved DEF Place

(* The invariant holds of a run that has not begun.                        *)
LEMMA InitInv == Init => BooksInv
<1> SUFFICES ASSUME Init PROVE BooksInv
    OBVIOUS
<1>9. {0} \subseteq 0..Estimate /\ {0} \subseteq 0..MaxRetries /\ {0} \subseteq 0..Layers
    BY BudgetAssumption
<1>1. TypeOK
    BY <1>9 DEF Init, TypeOK, Place
<1>2. Calling = {} /\ Children = {}
    BY DEF Init, Calling, Children
<1>3. Cardinality(Calling) = 0 /\ Cardinality(Children) = 0
    BY <1>2, FS_EmptySet
<1>4. Cardinality(Node) \in Nat /\ Cardinality(Node) >= 1
    BY BudgetAssumption, Sizes
<1>5. /\ Estimate * (Cardinality(Node) - 1) >= 0 /\ Cap * 0 = 0 /\ Estimate * 0 = 0
      /\ Estimate * (Cardinality(Node) - 1) \in Int /\ MaxCost \in Nat
    BY <1>4, BudgetAssumption
<1>6. InFlight
    <2>1. last \notin Calling /\ spent = 0
        BY <1>2 DEF Init
    <2>2. 0 + Estimate * 0 <= MaxCost + Estimate * (Cardinality(Node) - 1)
        BY <1>5
    <2> QED
        BY <1>3, <2>1, <2>2 DEF InFlight
<1>7. BooksBalance
    BY <1>3, <1>5 DEF BooksBalance, Init
<1>8. DepthCounts /\ CallsCounted /\ AnswersBounded
    BY <1>2, <1>3, BudgetAssumption DEF DepthCounts, CallsCounted, AnswersBounded, Init
<1> QED
    BY <1>1, <1>2, <1>6, <1>7, <1>8 DEF BooksInv, BranchesInPlace

(* A step that leaves the budget, the prices and the branches that are     *)
(* counted alone keeps all but the types.                                  *)
LEMMA Quiet ==
    ASSUME BooksInv, TypeOK', Calling' = Calling, Children' = Children,
           UNCHANGED <<budget, ledger, est>>
    PROVE  BooksInv'
BY DEF BooksInv, BranchesInPlace, InFlight, BooksBalance, DepthCounts, CallsCounted,
       AnswersBounded, budget, ledger

(* Entering, trying again and failing for free cost nothing.               *)
LEMMA FreeSteps ==
    ASSUME BooksInv, NEW n \in Node, Enter(n) \/ Retry(n) \/ TurnedAway(n)
    PROVE  BooksInv'
<1>1. TypeOK /\ n \notin Calling /\ n \notin Children
    BY DEF BooksInv, Enter, Retry, TurnedAway, Calling, Children
<1>2. UNCHANGED <<budget, ledger, run, est>>
    BY DEF Enter, Retry, TurnedAway
<1>3. /\ attempt' \in [Node -> 0..MaxRetries]
      /\ pc' \in [Node -> Place]
      /\ Calling' = Calling \ {n} /\ Children' = Children \ {n}
    <2>1. CASE TurnedAway(n)
        BY <1>1, <2>1, AfterFailure DEF TurnedAway
    <2>2. CASE Enter(n) \/ Retry(n)
        <3>1. Goto(n, "done") \/ Goto(n, "dispatch")
            BY <2>2 DEF Enter, Retry, Start
        <3>2. attempt' = attempt
            BY <2>2 DEF Enter, Retry
        <3> QED
            BY <1>1, <3>1, <3>2, Moved DEF Place, TypeOK
    <2> QED
        BY <2>1, <2>2
<1>4. TypeOK'
    BY <1>1, <1>2, <1>3 DEF TypeOK, budget, ledger, run
<1> QED
    BY <1>1, <1>2, <1>3, <1>4, Quiet

(* The strategy and the environment move between layers, or touch no branch. *)
LEMMA RunSteps ==
    ASSUME BooksInv, NextLayer \/ Return \/ Elapse \/ Abort
    PROVE  BooksInv'
<1>1. TypeOK
    BY DEF BooksInv
<1>2. UNCHANGED <<budget, ledger, est>>
    BY DEF NextLayer, Return, Elapse, Abort
<1>3. TypeOK'
    <2>1. CASE NextLayer
        <3>1. layer' \in 0..Layers
            BY <1>1, <2>1, BudgetAssumption DEF NextLayer, TypeOK
        <3>2. attempt' \in [Node -> 0..MaxRetries]
            BY <2>1, BudgetAssumption DEF NextLayer
        <3>3. pc' \in [Node -> Place]
            BY <2>1 DEF NextLayer, Place
        <3> QED
            BY <1>1, <2>1, <3>1, <3>2, <3>3 DEF TypeOK, budget, ledger, NextLayer
    <2>2. CASE Return \/ Elapse \/ Abort
        BY <1>1, <2>2 DEF TypeOK, budget, ledger, Return, Elapse, Abort
    <2> QED
        BY <2>1, <2>2
<1>4. Calling' = Calling /\ Children' = Children
    <2>1. CASE NextLayer
        BY <2>1 DEF NextLayer, LayerDone, Calling, Children
    <2>2. CASE Return \/ Elapse \/ Abort
        BY <2>2 DEF Return, Elapse, Abort, Calling, Children
    <2> QED
        BY <2>1, <2>2
<1> QED
    BY <1>2, <1>3, <1>4, Quiet

(* A call that is admitted fits beside what has been spent, and was counted *)
(* before depth_used reached its limit.                                    *)
LEMMA AdmitStep ==
    ASSUME BooksInv, NEW n \in Node, Admit(n)
    PROVE  BooksInv'
<1> DEFINE c == Cardinality(Calling)
<1>1. TypeOK /\ n \notin Calling /\ n \notin Children /\ n \notin SubNode
    BY DEF BooksInv, Admit, Calling, Children
<1>2. UNCHANGED <<spent, depth, run, answers, paid, overrun, attempt>>
    BY DEF Admit
<1>3. c \in Nat /\ Cardinality(Calling \cup {n}) = c + 1
    BY <1>1, Sizes DEF Calling
<1>4. CASE Goto(n, "done") /\ UNCHANGED <<est, last>> /\ iterations' \in {iterations, iterations + 1}
           /\ iterations' <= MaxIterations
    <2>1. Calling' = Calling /\ Children' = Children /\ pc' \in [Node -> Place]
        BY <1>1, <1>4, Moved DEF Place
    <2>2. TypeOK'
        BY <1>1, <1>2, <1>4, <2>1 DEF TypeOK, run
    <2>3. BranchesInPlace' /\ InFlight' /\ BooksBalance' /\ AnswersBounded'
        BY <1>2, <1>4, <2>1
        DEF BooksInv, BranchesInPlace, InFlight, BooksBalance, AnswersBounded
    <2>4. DepthCounts' /\ CallsCounted'
        BY <1>1, <1>2, <1>3, <1>4, <2>1 DEF BooksInv, DepthCounts, CallsCounted, TypeOK
    <2> QED
        BY <2>2, <2>3, <2>4 DEF BooksInv
<1>5. CASE \E e \in 0..Estimate :
              /\ ~Exhausted /\ iterations' = iterations + 1 /\ Fits(e)
              /\ Goto(n, "calling") /\ est' = [est EXCEPT ![n] = e] /\ last' = n
    <2>1. PICK e \in 0..Estimate :
              /\ ~Exhausted /\ iterations' = iterations + 1 /\ Fits(e)
              /\ Goto(n, "calling") /\ est' = [est EXCEPT ![n] = e] /\ last' = n
        BY <1>5
    <2>2. Calling' = Calling \cup {n} /\ Children' = Children /\ pc' \in [Node -> Place]
        BY <1>1, <2>1, Moved DEF Place
    <2>3. TypeOK'
        <3>1. est' \in [Node -> 0..Estimate] /\ iterations' \in Nat
            BY <1>1, <2>1 DEF TypeOK
        <3> QED
            BY <1>1, <1>2, <2>1, <2>2, <3>1 DEF TypeOK, run
    <2>4. BranchesInPlace' /\ BooksBalance'
        BY <1>1, <1>2, <2>2 DEF BooksInv, BranchesInPlace, BooksBalance
    <2>5. est'[n] = e /\ e \in Nat /\ spent + e <= MaxCost
        BY <1>1, <2>1, BudgetAssumption DEF TypeOK, Fits
    <2>6. c + 1 <= Cardinality(Node) /\ Cardinality(Node) \in Nat
        BY <1>3, Sizes, NotMore DEF Calling
    <2>7. Estimate * c <= Estimate * (Cardinality(Node) - 1)
        <3> DEFINE d == Cardinality(Node) - 1 - c
        <3>1. d \in Nat /\ Cardinality(Node) - 1 = c + d
            BY <1>3, <2>6
        <3>2. Estimate * (c + d) = Estimate * c + Estimate * d /\ Estimate * d >= 0
            BY <1>3, <3>1, BudgetAssumption
        <3>3. Estimate * c \in Int /\ Estimate * d \in Int
            BY <1>3, <3>1, BudgetAssumption
        <3> QED
            BY <3>1, <3>2, <3>3
    <2>8. InFlight'
        <3>1. last' \in Calling' /\ Cardinality(Calling') - 1 = c
            BY <1>3, <2>1, <2>2
        <3>2. spent + e + Estimate * c <= MaxCost + Estimate * (Cardinality(Node) - 1)
            <4>1. Estimate * c \in Int /\ Estimate * (Cardinality(Node) - 1) \in Int
                BY <1>3, <2>6, BudgetAssumption
            <4> QED
                BY <1>1, <2>5, <2>7, <4>1, BudgetAssumption DEF TypeOK
        <3> QED
            BY <1>2, <2>1, <2>5, <3>1, <3>2 DEF InFlight
    <2>9. answers + c + 1 <= iterations + 1 /\ iterations + 1 <= MaxIterations
        BY <1>1, <1>3, <2>1, BudgetAssumption DEF BooksInv, CallsCounted, Exhausted, TypeOK
    <2>10. DepthCounts' /\ CallsCounted'
        BY <1>1, <1>2, <1>3, <2>1, <2>2, <2>9 DEF BooksInv, DepthCounts, CallsCounted, TypeOK
    <2>11. answers < MaxDepth
        BY <1>1, <2>1, BudgetAssumption DEF BooksInv, DepthCounts, Exhausted, TypeOK
    <2>12. c + 1 <= Cardinality(Node \ SubNode) /\ Cardinality(Node \ SubNode) \in Nat
        BY <1>1, <1>3, Sizes, NotMore DEF BooksInv, BranchesInPlace
    <2>13. AnswersBounded'
        BY <1>1, <1>2, <1>3, <2>2, <2>11, <2>12, BudgetAssumption DEF AnswersBounded, TypeOK
    <2> QED
        BY <2>3, <2>4, <2>8, <2>10, <2>13 DEF BooksInv
<1>6. ~Exhausted => iterations + 1 <= MaxIterations
    BY <1>1, BudgetAssumption DEF Exhausted, TypeOK
<1>7. iterations <= MaxIterations
    BY DEF BooksInv, CallsCounted
<1> QED
    BY <1>4, <1>5, <1>6, <1>7 DEF Admit

(* What the call in flight is worth less than an estimate.                 *)
LEMMA CallEnds ==
    ASSUME BooksInv, NEW n \in Calling, NEW s \in Nat, spent <= s, s <= spent + est[n],
           EndCall(n), spent' = s, Calling' = Calling \ {n}
    PROVE  InFlight'
<1> DEFINE c == Cardinality(Calling)
           bound == MaxCost + Estimate * (Cardinality(Node) - 1)
<1>1. TypeOK /\ InFlight /\ n \in Node
    BY DEF BooksInv, Calling
<1>2. c \in Nat /\ c >= 1 /\ Cardinality(Calling') = c - 1
    BY Sizes DEF Calling
<1>3. Cardinality(Node) \in Nat
    BY Sizes
<1>4. bound \in Int /\ Estimate \in Nat
    BY <1>3, BudgetAssumption
<1>5. Estimate * c = Estimate * (c - 1) + Estimate /\ Estimate * (c - 1) \in Int
    BY <1>2, <1>4
<1>6. est[n] \in 0..Estimate /\ spent \in Nat
    BY <1>1 DEF TypeOK
<1>7. CASE last = n
    <2>1. spent + est[n] + Estimate * (c - 1) <= bound
        BY <1>1, <1>7 DEF InFlight
    <2>2. last' \notin Calling'
        BY <1>7, BudgetAssumption DEF EndCall, Calling
    <2>3. s + Estimate * (c - 1) <= bound
        BY <1>4, <1>5, <1>6, <2>1
    <2> QED
        BY <1>2, <2>2, <2>3 DEF InFlight
<1>8. CASE last # n /\ last \in Calling
    <2>1. spent + est[last] + Estimate * (c - 1) <= bound
        BY <1>1, <1>8 DEF InFlight
    <2>2. last' = last /\ last' \in Calling' /\ est'[last] = est[last] /\ est[last] \in 0..Estimate
        BY <1>1, <1>8 DEF EndCall, TypeOK, Calling
    <2>3. Estimate * (c - 1) = Estimate * (c - 1 - 1) + Estimate /\ Estimate * (c - 1 - 1) \in Int
        BY <1>2, <1>4
    <2>4. s + est[last] + Estimate * (c - 1 - 1) <= bound
        BY <1>4, <1>5, <1>6, <2>1, <2>2, <2>3
    <2> QED
        BY <1>2, <2>2, <2>4 DEF InFlight
<1>9. CASE last # n /\ last \notin Calling
    <2>1. spent + Estimate * c <= bound
        BY <1>1, <1>9 DEF InFlight
    <2>2. last' \notin Calling'
        BY <1>9 DEF EndCall
    <2>3. s + Estimate * (c - 1) <= bound
        BY <1>4, <1>5, <1>6, <2>1
    <2> QED
        BY <1>2, <2>2, <2>3 DEF InFlight
<1> QED
    BY <1>7, <1>8, <1>9

(* The end of a call keeps the types.                                      *)
LEMMA EndCallTypes ==
    ASSUME TypeOK, NEW n \in Node, EndCall(n)
    PROVE  est' \in [Node -> 0..Estimate] /\ last' \in Node \cup {NoNode}
BY BudgetAssumption DEF TypeOK, EndCall

(* An answer costs at most what it was estimated at, and moves depth_used. *)
LEMMA AnswerStep ==
    ASSUME BooksInv, NEW n \in Node, Answer(n)
    PROVE  BooksInv'
<1> DEFINE c == Cardinality(Calling)
<1>1. TypeOK /\ n \in Calling
    BY DEF BooksInv, Answer, Calling
<1>2. PICK k \in 0..est[n] : spent' = spent + k /\ paid' = paid + k
    BY DEF Answer
<1>3. /\ attempt' \in [Node -> 0..MaxRetries]
      /\ pc' \in [Node -> Place]
      /\ Calling' = Calling \ {n} /\ Children' = Children \ {n}
    <2>1. CASE Failed(n)
        BY <1>1, <2>1, AfterFailure
    <2>2. CASE Goto(n, "done") /\ UNCHANGED attempt
        BY <1>1, <2>2, Moved DEF Place, TypeOK
    <2> QED
        BY <2>1, <2>2 DEF Answer
<1>4. Children' = Children
    BY <1>1, <1>3 DEF Calling, Children
<1>5. k \in Nat /\ k <= est[n] /\ est[n] \in Nat
    BY <1>1, <1>2, BudgetAssumption DEF TypeOK, Calling
<1>6. c \in Nat /\ c >= 1 /\ Cardinality(Calling') = c - 1
    BY <1>1, <1>3, Sizes DEF Calling
<1>7. answers' = answers + 1 /\ depth' = iterations /\ UNCHANGED <<iterations, run, overrun>>
    BY DEF Answer, Tracked
<1>8. TypeOK'
    BY <1>1, <1>2, <1>3, <1>5, <1>7, EndCallTypes DEF TypeOK, run, Answer
<1>9. BranchesInPlace'
    BY <1>3, <1>4 DEF BooksInv, BranchesInPlace
<1>10. InFlight'
    BY <1>1, <1>2, <1>3, <1>5, CallEnds DEF Answer, TypeOK
<1>11. BooksBalance'
    <2>1. Cap * Cardinality(Children) \in Int
        BY Sizes, BudgetAssumption DEF Children
    <2> QED
        BY <1>1, <1>2, <1>4, <1>5, <1>7, <2>1 DEF BooksInv, BooksBalance, TypeOK
<1>12. DepthCounts' /\ CallsCounted'
    BY <1>1, <1>6, <1>7 DEF BooksInv, DepthCounts, CallsCounted, TypeOK
<1>13. AnswersBounded'
    <2>1. answers + c < MaxDepth + Cardinality(Node \ SubNode)
        BY <1>1 DEF BooksInv, AnswersBounded
    <2> QED
        BY <1>1, <1>6, <1>7, <2>1 DEF AnswersBounded, TypeOK
<1> QED
    BY <1>8, <1>9, <1>10, <1>11, <1>12, <1>13 DEF BooksInv

(* A call that fails costs nothing.                                        *)
LEMMA ProviderStep ==
    ASSUME BooksInv, NEW n \in Node, ProviderFails(n)
    PROVE  BooksInv'
<1> DEFINE c == Cardinality(Calling)
<1>1. TypeOK /\ n \in Calling
    BY DEF BooksInv, ProviderFails, Calling
<1>2. /\ attempt' \in [Node -> 0..MaxRetries]
      /\ pc' \in [Node -> Place]
      /\ Calling' = Calling \ {n} /\ Children' = Children \ {n}
    BY <1>1, AfterFailure DEF ProviderFails
<1>3. Children' = Children
    BY <1>1, <1>2 DEF Calling, Children
<1>4. c \in Nat /\ c >= 1 /\ Cardinality(Calling') = c - 1
    BY <1>1, <1>2, Sizes DEF Calling
<1>5. UNCHANGED <<spent, iterations, depth, run, answers, paid, overrun>>
    BY DEF ProviderFails, budget
<1>6. TypeOK'
    BY <1>1, <1>2, <1>5, EndCallTypes DEF TypeOK, run, ProviderFails
<1>7. BranchesInPlace' /\ BooksBalance' /\ DepthCounts'
    BY <1>2, <1>3, <1>5 DEF BooksInv, BranchesInPlace, BooksBalance, DepthCounts
<1>8. InFlight'
    BY <1>1, <1>2, <1>5, CallEnds DEF ProviderFails, TypeOK, Calling
<1>9. CallsCounted'
    BY <1>1, <1>4, <1>5 DEF BooksInv, CallsCounted, TypeOK
<1>10. AnswersBounded'
    <2>1. answers + c < MaxDepth + Cardinality(Node \ SubNode)
        BY <1>1 DEF BooksInv, AnswersBounded
    <2>2. Cardinality(Node \ SubNode) \in Nat
        BY Sizes
    <2> QED
        BY <1>1, <1>4, <1>5, <2>1, <2>2, BudgetAssumption DEF AnswersBounded, TypeOK
<1> QED
    BY <1>6, <1>7, <1>8, <1>9, <1>10 DEF BooksInv

(* A reservation fits beside what has been spent, and is in the books.     *)
LEMMA ReserveStep ==
    ASSUME BooksInv, NEW n \in Node, Reserve(n)
    PROVE  BooksInv'
<1> DEFINE c == Cardinality(Calling)
           bound == MaxCost + Estimate * (Cardinality(Node) - 1)
<1>1. TypeOK /\ n \notin Calling /\ n \notin Children /\ n \in SubNode
    BY DEF BooksInv, Reserve, Calling, Children
<1>2. UNCHANGED <<iterations, depth, ledger, run, est, attempt>>
    BY DEF Reserve
<1>3. CASE Goto(n, "done") /\ UNCHANGED spent
    <2>1. Calling' = Calling /\ Children' = Children /\ pc' \in [Node -> Place]
        BY <1>1, <1>3, Moved DEF Place
    <2>2. TypeOK'
        BY <1>1, <1>2, <1>3, <2>1 DEF TypeOK, run, ledger
    <2> QED
        BY <1>2, <1>3, <2>1, <2>2, Quiet DEF budget
<1>4. CASE Fits(Cap) /\ Goto(n, "child") /\ spent' = spent + Cap
    <2>1. Calling' = Calling /\ Children' = Children \cup {n} /\ pc' \in [Node -> Place]
        BY <1>1, <1>4, Moved DEF Place
    <2>2. TypeOK'
        BY <1>1, <1>2, <1>4, <2>1, BudgetAssumption DEF TypeOK, run, ledger
    <2>3. BranchesInPlace' /\ DepthCounts' /\ CallsCounted' /\ AnswersBounded'
        BY <1>1, <1>2, <2>1
        DEF BooksInv, BranchesInPlace, DepthCounts, CallsCounted, AnswersBounded, ledger
    <2>4. c \in Nat /\ c + 1 <= Cardinality(Node) /\ Cardinality(Node) \in Nat
        <3>1. c \in Nat /\ Cardinality(Calling \cup {n}) = c + 1 /\ Cardinality(Node) \in Nat
            BY <1>1, Sizes DEF Calling
        <3>2. Calling \cup {n} \in SUBSET Node
            BY DEF Calling
        <3> QED
            BY <3>1, <3>2, NotMore
    <2>5. Estimate * c <= Estimate * (Cardinality(Node) - 1)
        <3> DEFINE d == Cardinality(Node) - 1 - c
        <3>1. d \in Nat /\ Cardinality(Node) - 1 = c + d
            BY <2>4
        <3>2. Estimate * (c + d) = Estimate * c + Estimate * d /\ Estimate * d >= 0
            BY <2>4, <3>1, BudgetAssumption
        <3>3. Estimate * c \in Int /\ Estimate * d \in Int
            BY <2>4, <3>1, BudgetAssumption
        <3> QED
            BY <3>1, <3>2, <3>3
    <2>6. spent' <= MaxCost /\ spent' \in Nat /\ MaxCost \in Nat /\ Estimate \in Nat
        BY <1>1, <1>4, BudgetAssumption DEF Fits, TypeOK
    <2>7. Estimate * c \in Int /\ Estimate * (Cardinality(Node) - 1) \in Int
        BY <2>4, BudgetAssumption
    <2>8. BooksBalance'
        <3>1. Cardinality(Children') = Cardinality(Children) + 1 /\ Cardinality(Children) \in Nat
            BY <1>1, <2>1, Sizes DEF Children
        <3>2. Cap * (Cardinality(Children) + 1) = Cap * Cardinality(Children) + Cap
            BY <3>1, BudgetAssumption
        <3>3. Cap * Cardinality(Children) \in Int
            BY <3>1, BudgetAssumption
        <3> QED
            BY <1>1, <1>2, <1>4, <3>1, <3>2, <3>3, BudgetAssumption
            DEF BooksInv, BooksBalance, TypeOK, ledger
    <2>9. CASE last \in Calling
        <3>4. c >= 1
            BY <2>9, Sizes DEF Calling
        <3>1. Estimate * c = Estimate * (c - 1) + Estimate /\ Estimate * (c - 1) \in Int
            BY <2>4, <2>6, <3>4
        <3>2. est[last] \in 0..Estimate
            BY <1>1, <2>9 DEF TypeOK, Calling
        <3>3. spent' + est[last] + Estimate * (c - 1) <= bound
            BY <2>5, <2>6, <2>7, <3>1, <3>2
        <3> QED
            BY <1>2, <2>1, <2>2, <2>3, <2>8, <2>9, <3>3 DEF InFlight, BooksInv, ledger
    <2>10. CASE last \notin Calling
        <3>1. spent' + Estimate * c <= bound
            BY <2>5, <2>6, <2>7
        <3> QED
            BY <1>2, <2>1, <2>2, <2>3, <2>8, <2>10, <3>1 DEF InFlight, BooksInv, ledger
    <2> QED
        BY <2>9, <2>10
<1> QED
    BY <1>3, <1>4 DEF Reserve

(* A sub-workflow gives back what it did not use, and never more than there *)
(* is: its reservation is still in the books.                              *)
LEMMA CloseStep ==
    ASSUME BooksInv, NEW n \in Node, Close(n)
    PROVE  BooksInv'
<1> DEFINE k == Cardinality(Children)
<1>1. TypeOK /\ n \in Children
    BY DEF BooksInv, Close, Children
<1>2. PICK c \in 0..(Cap + ChildOverrun), ok \in BOOLEAN :
          /\ spent' = spent - Refunded(Unused(c, ok))
          /\ paid' = paid + c
          /\ overrun' = overrun + (IF c > Cap THEN c - Cap ELSE 0)
          /\ IF ok THEN Goto(n, "done") /\ UNCHANGED attempt ELSE Failed(n)
    BY DEF Close
<1>3. /\ attempt' \in [Node -> 0..MaxRetries]
      /\ pc' \in [Node -> Place]
      /\ Calling' = Calling \ {n} /\ Children' = Children \ {n}
    <2>1. CASE Failed(n)
        BY <1>1, <2>1, AfterFailure
    <2>2. CASE Goto(n, "done") /\ UNCHANGED attempt
        BY <1>1, <2>2, Moved DEF Place, TypeOK
    <2> QED
        BY <1>2, <2>1, <2>2
<1>4. Calling' = Calling
    BY <1>1, <1>3 DEF Calling, Children
<1>5. UNCHANGED <<iterations, depth, run, est, answers, last>>
    BY DEF Close
<1>6. k \in Nat /\ k >= 1 /\ Cardinality(Children') = k - 1
    BY <1>1, <1>3, Sizes DEF Children
<1>7. Cap * k = Cap * (k - 1) + Cap /\ Cap * (k - 1) >= 0 /\ Cap * (k - 1) \in Int
    BY <1>6, BudgetAssumption
<1>8. c \in Nat /\ Cap \in Nat /\ Unused(c, ok) = (IF c < Cap THEN Cap - c ELSE 0)
    BY <1>2, BudgetAssumption DEF Unused
<1>9. spent + overrun = paid + Cap * k /\ {spent, overrun, paid} \subseteq Nat
    BY <1>1 DEF BooksInv, BooksBalance, TypeOK
<1>10. CASE Unused(c, ok) <= spent
    <2>1. spent' = spent - Unused(c, ok) /\ spent' \in Nat
        BY <1>2, <1>8, <1>9, <1>10 DEF Refunded
    <2>2. paid' \in Nat /\ overrun' \in Nat
        BY <1>2, <1>8, <1>9
    <2>3. TypeOK'
        BY <1>1, <1>3, <1>5, <2>1, <2>2 DEF TypeOK, run
    <2>4. BranchesInPlace' /\ DepthCounts' /\ CallsCounted' /\ AnswersBounded'
        BY <1>3, <1>4, <1>5
        DEF BooksInv, BranchesInPlace, DepthCounts, CallsCounted, AnswersBounded
    <2>7. overrun' <= paid'
        BY <1>2, <1>8, <1>9 DEF BooksInv, BooksBalance
    <2>5. BooksBalance'
        <3>1. spent' + overrun' = paid' + Cap * (k - 1)
            BY <1>2, <1>7, <1>8, <1>9, <2>1
        <3> QED
            BY <1>6, <2>7, <3>1 DEF BooksBalance
    <2>6. InFlight'
        <3>1. spent' <= spent
            BY <1>8, <1>9, <2>1
        <3>2. Cardinality(Calling) \in Nat /\ Cardinality(Node) \in Nat
            BY Sizes DEF Calling
        <3>3. /\ Estimate * Cardinality(Calling) \in Int
              /\ Estimate * (Cardinality(Calling) - 1) \in Int
              /\ Estimate * (Cardinality(Node) - 1) \in Int
            BY <3>2, BudgetAssumption
        <3>4. last \in Calling => est[last] \in Int
            BY <1>1, BudgetAssumption DEF TypeOK, Calling
        <3> QED
            BY <1>4, <1>5, <1>9, <2>1, <3>1, <3>3, <3>4, BudgetAssumption
            DEF BooksInv, InFlight
    <2> QED
        BY <2>3, <2>4, <2>5, <2>6 DEF BooksInv
<1>11. Unused(c, ok) <= spent
    BY <1>7, <1>8, <1>9 DEF BooksInv, BooksBalance
<1> QED
    BY <1>10, <1>11

(* The inductive step, from the lemmas above.                              *)
LEMMA InvStep == BooksInv /\ [Next]_vars => BooksInv'
<1> SUFFICES ASSUME BooksInv, [Next]_vars PROVE BooksInv'
    OBVIOUS
<1>1. CASE \E n \in Node : Branch(n)
    BY <1>1, FreeSteps, AdmitStep, AnswerStep, ProviderStep, ReserveStep, CloseStep DEF Branch
<1>2. CASE NextLayer \/ Return \/ Elapse \/ Abort
    BY <1>2, RunSteps
<1>3. CASE UNCHANGED vars
    <2>1. TypeOK' /\ Calling' = Calling /\ Children' = Children
        BY <1>3 DEF vars, budget, ledger, run, BooksInv, TypeOK, Calling, Children
    <2> QED
        BY <1>3, <2>1, Quiet DEF vars
<1> QED
    BY <1>1, <1>2, <1>3 DEF Next

(* What is in flight only adds to what has been spent.                     *)
LEMMA BoundOfInv == BooksInv => OvershootBounded
<1> SUFFICES ASSUME BooksInv PROVE OvershootBounded
    OBVIOUS
<1> DEFINE c == Cardinality(Calling)
           bound == MaxCost + Estimate * (Cardinality(Node) - 1)
<1>1. TypeOK /\ InFlight
    BY DEF BooksInv
<1>2. c \in Nat /\ Cardinality(Node) \in Nat
    BY Sizes DEF Calling
<1>3. Estimate * (Cardinality(Node) - 1) \in Int /\ spent \in Nat /\ MaxCost \in Nat
    BY <1>1, <1>2, BudgetAssumption DEF TypeOK
<1>4. CASE last \in Calling
    <2>1. c - 1 \in Nat
        BY <1>2, <1>4, Sizes DEF Calling
    <2>2. Estimate * (c - 1) \in Nat
        BY <2>1, BudgetAssumption
    <2>3. est[last] \in Nat
        BY <1>1, <1>4, BudgetAssumption DEF TypeOK, Calling
    <2>4. spent + est[last] + Estimate * (c - 1) <= bound
        BY <1>1, <1>4 DEF InFlight
    <2> QED
        BY <1>3, <2>2, <2>3, <2>4 DEF OvershootBounded
<1>5. CASE last \notin Calling
    <2>1. Estimate * c \in Nat
        BY <1>2, BudgetAssumption
    <2>2. spent + Estimate * c <= bound
        BY <1>1, <1>5 DEF InFlight
    <2> QED
        BY <1>3, <2>1, <2>2 DEF OvershootBounded
<1> QED
    BY <1>4, <1>5

-----------------------------------------------------------------------------
(* Overruns *)

(* A sub-workflow that overruns its cap leaves its reservation behind.       *)
LEMMA OverrunStep == BudgetInv /\ [Next]_vars => OverrunsUseUpCaps'
<1> SUFFICES ASSUME BudgetInv, [Next]_vars PROVE OverrunsUseUpCaps'
    OBVIOUS
<1>1. /\ Cap \in Nat /\ ChildOverrun \in Nat /\ paid \in Nat /\ overrun \in Nat
      /\ Cap * overrun <= ChildOverrun * (paid - overrun)
    BY BudgetAssumption DEF BudgetInv, BooksInv, TypeOK, OverrunsUseUpCaps
<1>2. CASE UNCHANGED <<paid, overrun>>
    BY <1>2 DEF BudgetInv, OverrunsUseUpCaps
<1>3. ASSUME NEW c \in Nat, paid' = paid + c, overrun' = overrun
      PROVE  OverrunsUseUpCaps'
    <2>1. /\ ChildOverrun * (paid' - overrun')
                = ChildOverrun * (paid - overrun) + ChildOverrun * c
          /\ ChildOverrun * c \in Nat
        BY <1>1, <1>3
    <2> QED
        BY <1>1, <1>3, <2>1 DEF OverrunsUseUpCaps
<1>4. ASSUME NEW x \in 0..ChildOverrun, paid' = paid + Cap + x, overrun' = overrun + x
      PROVE  OverrunsUseUpCaps'
    <2>1. x \in Nat /\ x <= ChildOverrun
        BY <1>1
    <2>2. /\ Cap * overrun' = Cap * overrun + Cap * x
          /\ Cap * overrun \in Int /\ Cap * x \in Int
        BY <1>1, <1>4, <2>1
    <2>3. paid' - overrun' = (paid - overrun) + Cap
        BY <1>1, <1>4, <2>1
    <2>4. /\ ChildOverrun * (paid' - overrun')
                = ChildOverrun * (paid - overrun) + ChildOverrun * Cap
          /\ ChildOverrun * (paid - overrun) \in Int /\ ChildOverrun * Cap \in Int
        BY <1>1, <2>3
    <2>5. Cap * x <= ChildOverrun * Cap
        BY <1>1, <2>1
    <2> QED
        BY <1>1, <2>2, <2>4, <2>5 DEF OverrunsUseUpCaps
<1>5. ASSUME NEW n \in Node, Answer(n) PROVE OverrunsUseUpCaps'
    <2>1. PICK c \in 0..est[n] : paid' = paid + c
        BY <1>5 DEF Answer
    <2>2. c \in Nat /\ overrun' = overrun
        BY <1>5, <2>1, BudgetAssumption DEF Answer, BudgetInv, BooksInv, TypeOK
    <2> QED
        BY <1>3, <2>1, <2>2
<1>6. ASSUME NEW n \in Node, Close(n) PROVE OverrunsUseUpCaps'
    <2>1. PICK c \in 0..(Cap + ChildOverrun) :
              /\ paid' = paid + c
              /\ overrun' = overrun + (IF c > Cap THEN c - Cap ELSE 0)
        BY <1>6 DEF Close
    <2>2. CASE c > Cap
        <3>1. /\ c - Cap \in 0..ChildOverrun /\ overrun' = overrun + (c - Cap)
              /\ paid' = paid + Cap + (c - Cap)
            BY <1>1, <2>1, <2>2
        <3> QED
            BY <1>4, <3>1
    <2>3. CASE c <= Cap
        BY <1>1, <1>3, <2>1, <2>3
    <2> QED
        BY <1>1, <2>1, <2>2, <2>3
<1>7. ASSUME NEW n \in Node, Branch(n), ~Answer(n), ~Close(n)
      PROVE  UNCHANGED <<paid, overrun>>
    BY <1>7 DEF Branch, Enter, Retry, TurnedAway, Admit, ProviderFails, Reserve, ledger
<1>8. CASE NextLayer \/ Return \/ Elapse \/ Abort \/ UNCHANGED vars
    BY <1>2, <1>8 DEF NextLayer, Return, Elapse, Abort, ledger, vars
<1> QED
    BY <1>2, <1>5, <1>6, <1>7, <1>8 DEF Next

(* The books bound what was paid within the caps by what was spent, and the  *)
(* overruns by what was paid within the caps.                                *)
LEMMA CostOfInv == BudgetInv => CostBounded
<1> SUFFICES ASSUME BudgetInv PROVE CostBounded
    OBVIOUS
<1> DEFINE within == paid - overrun
           bound == MaxCost + Estimate * (Cardinality(Node) - 1)
           share == Cap + ChildOverrun
<1>1. /\ Cap \in Nat /\ ChildOverrun \in Nat
      /\ paid \in Nat /\ overrun \in Nat /\ spent \in Nat
    BY BudgetAssumption DEF BudgetInv, BooksInv, TypeOK
<1>2. spent <= bound
    BY BoundOfInv DEF BudgetInv, OvershootBounded
<1>3. bound \in Int
    BY Sizes, BudgetAssumption
<1>4. Cardinality(Children) \in Nat
    BY Sizes DEF Children
<1>5. Cap * Cardinality(Children) \in Nat
    BY <1>1, <1>4
<1>6. within <= spent
    BY <1>1, <1>5 DEF BudgetInv, BooksInv, BooksBalance
<1>7. Cap * overrun <= ChildOverrun * within
    BY DEF BudgetInv, OverrunsUseUpCaps
<1>8. within \in Int /\ paid = within + overrun
    BY <1>1
<1>9. within <= bound
    BY <1>1, <1>2, <1>3, <1>6, <1>8
<1> HIDE DEF within, bound
<1>10. Cap * paid = Cap * within + Cap * overrun
    BY <1>1, <1>8
<1>11. share * within = Cap * within + ChildOverrun * within
    BY <1>1, <1>8
<1>12. {Cap * within, Cap * overrun, ChildOverrun * within} \subseteq Int
    BY <1>1, <1>8
<1>13. share * within <= share * bound
    BY <1>1, <1>3, <1>8, <1>9
<1>14. share * within \in Int /\ share * bound \in Int
    BY <1>1, <1>3, <1>8
<1>15. Cap * paid <= share * bound
    BY <1>7, <1>10, <1>11, <1>12, <1>13, <1>14
<1> QED
    BY <1>15 DEF CostBounded, bound

(* The inductive invariant holds of every behaviour, whatever the number of *)
(* branches, their prices and the budget.                                  *)
THEOREM BudgetCorrect == Spec => []BudgetInv
<1>1. Init => BudgetInv
    <2>1. Init => OverrunsUseUpCaps
        BY BudgetAssumption DEF Init, OverrunsUseUpCaps
    <2> QED
        BY <2>1, InitInv DEF BudgetInv
<1>2. BudgetInv /\ [Next]_vars => BudgetInv'
    BY InvStep, OverrunStep DEF BudgetInv
<1> QED
    BY <1>1, <1>2, PTL DEF Spec

(* A run overshoots its budget by at most one estimate for every branch    *)
(* beside another.                                                         *)
THEOREM Overshoot == Spec => []OvershootBounded
<1>1. BudgetInv => OvershootBounded
    BY BoundOfInv DEF BudgetInv
<1> QED
    BY <1>1, BudgetCorrect, PTL

(* One branch after the other: max_cost_usd is a true ceiling.             *)
THEOREM SequentialCeiling ==
    ASSUME Cardinality(Node) = 1
    PROVE  Spec => []BudgetIsCeiling
<1>1. OvershootBounded => BudgetIsCeiling
    BY BudgetAssumption DEF OvershootBounded, BudgetIsCeiling
<1> QED
    BY <1>1, Overshoot, PTL

(* Reservations and refunds lose no money, in whatever order they come.    *)
THEOREM Books == Spec => []BooksBalance
<1>1. BudgetInv => BooksBalance
    BY DEF BudgetInv, BooksInv
<1> QED
    BY <1>1, BudgetCorrect, PTL

(* What a run and its sub-workflows really cost is bounded by constants,   *)
(* however they fail, are retried and overrun.                             *)
THEOREM Cost == Spec => []CostBounded
BY CostOfInv, BudgetCorrect, PTL

(* A run is answered max_depth times, and once more for every model call   *)
(* beside the last one, at the most.                                       *)
THEOREM Answers == Spec => []AnswersBounded
<1>1. BudgetInv => AnswersBounded
    BY DEF BudgetInv, BooksInv
<1> QED
    BY <1>1, BudgetCorrect, PTL
=============================================================================
