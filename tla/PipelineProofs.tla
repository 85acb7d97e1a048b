--------------------------- MODULE PipelineProofs ---------------------------
(* Proofs about Pipeline, for any requests, interpretations and limits. *)
EXTENDS Pipeline, TLAPS

Behind(n) == {StageOrder[m] : m \in 1 .. n - 1}

\* The stages are different, and there are eight.
LEMMA Order ==
  /\ DOMAIN StageOrder = 1 .. 8
  /\ Stages = {StageOrder[n] : n \in 1 .. 8}
  /\ \A m, n \in 1 .. 8 : StageOrder[m] = StageOrder[n] => m = n
  /\ \A n \in 1 .. 8 : StageOrder[n] # "end"
  /\ /\ StageOrder[1] = "input" /\ StageOrder[2] = "intent" /\ StageOrder[3] = "context"
     /\ StageOrder[4] = "research" /\ StageOrder[5] = "verification"
     /\ StageOrder[6] = "planning" /\ StageOrder[7] = "priority" /\ StageOrder[8] = "today"
<1>1. DOMAIN StageOrder = 1 .. 8
  BY DEF StageOrder
<1>2. /\ StageOrder[1] = "input" /\ StageOrder[2] = "intent" /\ StageOrder[3] = "context"
      /\ StageOrder[4] = "research" /\ StageOrder[5] = "verification"
      /\ StageOrder[6] = "planning" /\ StageOrder[7] = "priority" /\ StageOrder[8] = "today"
  BY DEF StageOrder
<1>3. \A m, n \in 1 .. 8 : StageOrder[m] = StageOrder[n] => m = n
  <2> SUFFICES ASSUME NEW m \in 1 .. 8, NEW n \in 1 .. 8, StageOrder[m] = StageOrder[n]
               PROVE  m = n
    OBVIOUS
  <2>1. /\ m = 1 \/ m = 2 \/ m = 3 \/ m = 4 \/ m = 5 \/ m = 6 \/ m = 7 \/ m = 8
        /\ n = 1 \/ n = 2 \/ n = 3 \/ n = 4 \/ n = 5 \/ n = 6 \/ n = 7 \/ n = 8
    OBVIOUS
  <2> QED
    BY <1>2, <2>1
<1>4. \A n \in 1 .. 8 : StageOrder[n] # "end"
  <2> SUFFICES ASSUME NEW n \in 1 .. 8
               PROVE  StageOrder[n] # "end"
    OBVIOUS
  <2>1. n = 1 \/ n = 2 \/ n = 3 \/ n = 4 \/ n = 5 \/ n = 6 \/ n = 7 \/ n = 8
    OBVIOUS
  <2> QED
    BY <1>2, <2>1
<1> QED
  BY <1>1, <1>2, <1>3, <1>4 DEF Stages

\* If the completed stages are those before the nth, that one is found missing.
LEMMA Missing ==
  ASSUME NEW n \in 1 .. 8, completed = Behind(n)
  PROVE  FirstMissing = StageOrder[n]
<1> DEFINE missing == {k \in DOMAIN StageOrder : StageOrder[k] \notin completed}
<1>1. missing = n .. 8
  BY Order DEF Behind
<1>2. n \in missing /\ \A m \in missing : n <= m
  BY <1>1
<1>3. \A k \in missing : (\A m \in missing : k <= m) => k = n
  BY <1>1, <1>2
<1>4. (CHOOSE k \in missing : \A m \in missing : k <= m) = n
  BY <1>2, <1>3
<1> HIDE DEF missing
<1>5. missing # {}
  BY <1>2
<1>6. FirstMissing = StageOrder[CHOOSE k \in missing : \A m \in missing : k <= m]
  BY <1>5 DEF FirstMissing, missing
<1> QED
  BY <1>4, <1>6

-----------------------------------------------------------------------------
\* The completed stages are those before the running one; what failed is the next one.
Progress ==
  \/ \E n \in 1 .. 8 : pc = StageOrder[n] /\ failure = None /\ completed = Behind(n) /\ results = Behind(n)
  \/ /\ pc = "end" /\ failure = None /\ answer.status = "success"
     /\ completed = Stages
  \/ /\ pc = "end" /\ failure # None
     /\ \E n \in 1 .. 8 :
          /\ failure.stage = StageOrder[n] /\ completed = Behind(n) /\ results = Behind(n)
          /\ answer = [status |-> "failed", stage |-> StageOrder[n]]

\* A request model that was passed is passed still: nothing it looked at has changed.
Gates ==
  /\ "input" \in completed => Accepted
  /\ "intent" \in completed => intent \in Interpretation
  /\ "research" \in completed => Researchable
  /\ "verification" \in completed => Verifiable
  /\ "planning" \in completed => Plannable
  /\ "priority" \in completed => Prioritizable

\* A limit was the reason if the stage that failed has one that is not kept.
Reasons ==
  failure # None /\ failure.cause = "limit" =>
    \/ failure.stage = "input" /\ ~Accepted
    \/ failure.stage = "research" /\ ~Researchable
    \/ failure.stage = "verification" /\ ~Verifiable
    \/ failure.stage = "planning" /\ ~Plannable
    \/ failure.stage = "priority" /\ ~Prioritizable

\* The evidence is what M5 makes of the sources, which do not change any more.
Grounds ==
  evidence # None =>
    /\ "verification" \in completed
    /\ evidence = [status |-> Status, verified |-> Verified, conflicting |-> Conflicting,
                   insufficient |-> Insufficient]

IInv == TypeOK /\ Progress /\ Gates /\ Reasons /\ Grounds

\* A stage is behind another if it comes earlier.
LEMMA Membership ==
  \A n \in 1 .. 8 :
    /\ \A m \in 1 .. 8 : StageOrder[m] \in Behind(n) <=> m < n
    /\ Behind(n) \subseteq Stages
BY Order DEF Behind

\* While a stage runs, those before it are completed and have left their results, and nothing failed.
LEMMA Running ==
  ASSUME Progress, NEW n \in 1 .. 8, pc = StageOrder[n]
  PROVE  failure = None /\ completed = Behind(n) /\ results = Behind(n)
BY Order DEF Progress

\* A stage that answers is completed before the next one begins.
LEMMA DoneProgress ==
  ASSUME Progress, NEW n \in 1 .. 7, pc = StageOrder[n], Done(StageOrder[n], StageOrder[n + 1])
  PROVE  Progress'
<1>1. n \in 1 .. 8 /\ n + 1 \in 1 .. 8
  OBVIOUS
<1>2. failure = None /\ completed = Behind(n) /\ results = Behind(n)
  BY <1>1, Running
<1>3. Behind(n + 1) = Behind(n) \cup {StageOrder[n]}
  BY DEF Behind
<1>4. pc' = StageOrder[n + 1] /\ failure' = None /\ completed' = Behind(n + 1) /\ results' = Behind(n + 1)
  BY <1>2, <1>3 DEF Done
<1> QED
  BY <1>1, <1>4 DEF Progress

\* A failure is reported of the stage that ran.
LEMMA FailProgress ==
  ASSUME TypeOK, Progress, pc # "end", NEW cause \in {"limit", "service"}, Fail(cause)
  PROVE  /\ Progress'
         /\ failure' \in Failure /\ failure' # None
<1>1. PICK n \in 1 .. 8 : pc = StageOrder[n]
  BY DEF Progress
<1>2. completed = Behind(n) /\ results = Behind(n)
  BY <1>1, Running
<1>3. FirstMissing = StageOrder[n]
  BY <1>2, Missing
<1>4. failure' = [stage |-> StageOrder[n], cause |-> cause]
  BY <1>1 DEF Fail
<1>5. failure' \in Failure
  BY <1>1, <1>4, Order DEF Failure
<1>6. failure' # None
  BY <1>5, NoneAssumption
<1>7. /\ failure'.stage = StageOrder[n] /\ completed' = Behind(n) /\ results' = Behind(n)
      /\ answer' = [status |-> "failed", stage |-> StageOrder[n]]
      /\ pc' = "end"
  BY <1>2, <1>3, <1>4 DEF Fail
<1> QED
  BY <1>5, <1>6, <1>7 DEF Progress

\* What the sources say are facts.
LEMMA FactsType ==
  ASSUME TypeOK
  PROVE  Facts \subseteq Fact
<1>1. Items \subseteq Source
  BY DEF TypeOK, Items, Joined, Request
<1> QED
  BY <1>1 DEF Facts, Source

\* M5's answer is evidence.
LEMMA EvidenceType ==
  ASSUME TypeOK
  PROVE  [status |-> Status, verified |-> Verified, conflicting |-> Conflicting,
          insufficient |-> Insufficient] \in Evidence
<1>1. Facts \subseteq Fact
  BY FactsType
<1>2. Verified \subseteq Fact /\ Insufficient \subseteq Fact
  BY <1>1 DEF Verified, Insufficient
<1>3. Conflicting \subseteq STRING
  BY <1>1 DEF Conflicting, Fact
<1>4. Status \in {"conflicting", "verified", "insufficient_evidence", "unverified"}
  BY DEF Status
<1> QED
  BY <1>2, <1>3, <1>4 DEF Evidence

\* The invariant holds when the pipeline is asked.
LEMMA Start == Init => IInv
<1> SUFFICES ASSUME Init PROVE IInv
  OBVIOUS
<1>1. TypeOK
  BY InputsAssumption, Order DEF Init, TypeOK
<1>2. Behind(1) = {}
  BY DEF Behind
<1>3. Progress
  BY <1>2, Order DEF Init, Progress
<1>4. Gates /\ Reasons /\ Grounds
  BY DEF Init, Gates, Reasons, Grounds
<1> QED
  BY <1>1, <1>3, <1>4 DEF IInv

-----------------------------------------------------------------------------
\* What the operators say depends on few variables.
LEMMA Kept ==
  /\ UNCHANGED request => (Accepted' <=> Accepted)
  /\ UNCHANGED intent => (Researchable' <=> Researchable) /\ (Prioritizable' <=> Prioritizable)
  /\ UNCHANGED <<request, intent, found>> => (Verifiable' <=> Verifiable)
  /\ UNCHANGED <<intent, evidence>> => (Plannable' <=> Plannable)
  /\ UNCHANGED <<request, found>> =>
       Status' = Status /\ Verified' = Verified /\ Conflicting' = Conflicting
       /\ Insufficient' = Insufficient
<1>1. UNCHANGED request => (Accepted' <=> Accepted)
  BY DEF Accepted
<1>2. UNCHANGED intent => (Researchable' <=> Researchable) /\ (Prioritizable' <=> Prioritizable)
  BY DEF Researchable, Prioritizable
<1>3. UNCHANGED <<request, intent, found>> => (Verifiable' <=> Verifiable)
  BY DEF Verifiable, Items, Joined
<1>4. UNCHANGED <<intent, evidence>> => (Plannable' <=> Plannable)
  BY DEF Plannable
<1>5. UNCHANGED <<request, found>> =>
        Status' = Status /\ Verified' = Verified /\ Conflicting' = Conflicting
        /\ Insufficient' = Insufficient
  BY DEF Status, Verified, Conflicting, Insufficient, Facts, Items, Joined, Agreed, Corroborated
<1> QED
  BY <1>1, <1>2, <1>3, <1>4, <1>5

\* In the nth stage just the stages before it are completed.
LEMMA Reached ==
  ASSUME Progress, NEW n \in 1 .. 8, pc = StageOrder[n]
  PROVE  /\ failure = None
         /\ "input" \in completed <=> 1 < n
         /\ "intent" \in completed <=> 2 < n
         /\ "research" \in completed <=> 4 < n
         /\ "verification" \in completed <=> 5 < n
         /\ "planning" \in completed <=> 6 < n
         /\ "priority" \in completed <=> 7 < n
BY Running, Membership, Order

\* Each stage keeps the invariant; it disturbs its own gate and the gates that are yet to come.
LEMMA InputKeeps == IInv /\ Input => IInv'
<1> SUFFICES ASSUME IInv, Input PROVE IInv'
  OBVIOUS
<1> USE DEF IInv
<1>1. Progress'
  BY DoneProgress, Order DEF Input
<1>2. TypeOK'
  BY Order DEF Input, Done, TypeOK
<1>3. failure' = None /\ completed' = completed \cup {"input"}
  BY Reached, Order DEF Input, Done
<1>4. Gates'
  BY <1>3, Reached, Order, Kept DEF Input, Done, Gates
<1>5. Reasons'
  BY <1>3 DEF Reasons
<1>6. Grounds'
  BY <1>3, Kept DEF Input, Grounds
<1> QED
  BY <1>1, <1>2, <1>4, <1>5, <1>6

LEMMA InterpretKeeps == IInv /\ (Interpret \/ Ask) => IInv'
<1> SUFFICES ASSUME IInv, Interpret \/ Ask PROVE IInv'
  OBVIOUS
<1> USE DEF IInv
<1>1. /\ pc = "intent" /\ Done("intent", "context")
      /\ UNCHANGED <<request, found, evidence, answer>>
  BY DEF Interpret, Ask
<1>2. Progress'
  BY <1>1, DoneProgress, Order
<1>3. "input" \in completed /\ failure' = None /\ completed' = completed \cup {"intent"}
  BY <1>1, Reached, Order DEF Done
<1>4. intent' \in Interpretation
  <2>1. CASE Interpret
    BY <2>1 DEF Interpret, TypeOK, Request, Text, Interpretation
  <2>2. CASE Ask
    BY <2>2, InputsAssumption DEF Ask
  <2> QED
    BY <2>1, <2>2
<1>5. TypeOK'
  BY <1>1, <1>4, Order DEF Done, TypeOK
<1>6. Gates'
  BY <1>1, <1>3, <1>4, Reached, Order, Kept DEF Gates
<1>7. Reasons'
  BY <1>3 DEF Reasons
<1>8. Grounds'
  BY <1>1, <1>3, Kept DEF Grounds
<1> QED
  BY <1>2, <1>5, <1>6, <1>7, <1>8

LEMMA ContextKeeps == IInv /\ Context => IInv'
<1> SUFFICES ASSUME IInv, Context PROVE IInv'
  OBVIOUS
<1> USE DEF IInv
<1>1. Progress'
  BY DoneProgress, Order DEF Context
<1>2. TypeOK'
  BY Order DEF Context, Done, TypeOK
<1>3. failure' = None /\ completed' = completed \cup {"context"}
  BY Reached, Order DEF Context, Done
<1>4. Gates'
  BY <1>3, Reached, Order, Kept DEF Context, Gates
<1>5. Reasons'
  BY <1>3 DEF Reasons
<1>6. Grounds'
  BY <1>3, Kept DEF Context, Grounds
<1> QED
  BY <1>1, <1>2, <1>4, <1>5, <1>6

LEMMA ResearchKeeps == IInv /\ Research => IInv'
<1> SUFFICES ASSUME IInv, Research PROVE IInv'
  OBVIOUS
<1> USE DEF IInv
<1>1. Progress'
  BY DoneProgress, Order DEF Research
<1>2. TypeOK'
  BY Order DEF Research, Done, TypeOK
<1>3. failure' = None /\ completed' = completed \cup {"research"}
  BY Reached, Order DEF Research, Done
<1>4. Gates'
  BY <1>3, Reached, Order, Kept DEF Research, Gates
<1>5. Reasons'
  BY <1>3 DEF Reasons
<1>6. evidence' = None
  BY Reached, Order DEF Research, Grounds
<1>7. Grounds'
  BY <1>6 DEF Grounds
<1> QED
  BY <1>1, <1>2, <1>4, <1>5, <1>7

LEMMA VerifyKeeps == IInv /\ Verify => IInv'
<1> SUFFICES ASSUME IInv, Verify PROVE IInv'
  OBVIOUS
<1> USE DEF IInv
<1>1. Progress'
  BY DoneProgress, Order DEF Verify
<1>2. evidence' \in Evidence
  BY EvidenceType DEF Verify
<1>3. TypeOK'
  BY <1>2, Order DEF Verify, Done, TypeOK
<1>4. failure' = None /\ completed' = completed \cup {"verification"}
  BY Reached, Order DEF Verify, Done
<1>5. Gates'
  BY <1>4, Reached, Order, Kept DEF Verify, Gates
<1>6. Reasons'
  BY <1>4 DEF Reasons
<1>7. Grounds'
  BY <1>4, Kept DEF Verify, Grounds
<1> QED
  BY <1>1, <1>3, <1>5, <1>6, <1>7

LEMMA PlanKeeps == IInv /\ Plan => IInv'
<1> SUFFICES ASSUME IInv, Plan PROVE IInv'
  OBVIOUS
<1> USE DEF IInv
<1>1. Progress'
  BY DoneProgress, Order DEF Plan
<1>2. TypeOK'
  BY Order DEF Plan, Done, TypeOK
<1>3. failure' = None /\ completed' = completed \cup {"planning"}
  BY Reached, Order DEF Plan, Done
<1>4. Gates'
  BY <1>3, Reached, Order, Kept DEF Plan, Gates
<1>5. Reasons'
  BY <1>3 DEF Reasons
<1>6. Grounds'
  BY <1>3, Kept DEF Plan, Grounds
<1> QED
  BY <1>1, <1>2, <1>4, <1>5, <1>6

LEMMA PrioritizeKeeps == IInv /\ Prioritize => IInv'
<1> SUFFICES ASSUME IInv, Prioritize PROVE IInv'
  OBVIOUS
<1> USE DEF IInv
<1>1. Progress'
  BY DoneProgress, Order DEF Prioritize
<1>2. TypeOK'
  BY Order DEF Prioritize, Done, TypeOK
<1>3. failure' = None /\ completed' = completed \cup {"priority"}
  BY Reached, Order DEF Prioritize, Done
<1>4. Gates'
  BY <1>3, Reached, Order, Kept DEF Prioritize, Gates
<1>5. Reasons'
  BY <1>3 DEF Reasons
<1>6. Grounds'
  BY <1>3, Kept DEF Prioritize, Grounds
<1> QED
  BY <1>1, <1>2, <1>4, <1>5, <1>6

LEMMA TodayKeeps == IInv /\ Today => IInv'
<1> SUFFICES ASSUME IInv, Today PROVE IInv'
  OBVIOUS
<1> USE DEF IInv
<1>1. failure' = None /\ completed' = completed \cup {"today"}
  BY Reached, Order DEF Today, Done
<1>2. completed' = Stages
  BY <1>1, Running, Order DEF Today, Behind
<1>3. Progress'
  BY <1>1, <1>2 DEF Today, Done, Progress
<1>4. TypeOK'
  BY Order DEF Today, Done, TypeOK
<1>5. Gates'
  BY <1>1, Reached, Order, Kept DEF Today, Gates
<1>6. Reasons'
  BY <1>1 DEF Reasons
<1>7. Grounds'
  BY <1>1, Kept DEF Today, Grounds
<1> QED
  BY <1>3, <1>4, <1>5, <1>6, <1>7

\* The except clause changes nothing that a gate or the evidence depends on.
LEMMA FailKeeps ==
  ASSUME IInv, pc # "end", NEW cause \in {"limit", "service"}, Fail(cause)
  PROVE  TypeOK' /\ Progress' /\ Gates' /\ Grounds'
<1> USE DEF IInv
<1>1. Progress' /\ failure' \in Failure
  BY FailProgress
<1>2. PICK n \in 1 .. 8 : answer' = [status |-> "failed", stage |-> StageOrder[n]]
  BY Missing, Running DEF Fail, Progress
<1>3. TypeOK'
  BY <1>1, <1>2, Order DEF Fail, TypeOK
<1>4. Gates'
  BY Kept DEF Fail, Gates
<1>5. Grounds'
  BY Kept DEF Fail, Grounds
<1> QED
  BY <1>1, <1>3, <1>4, <1>5

LEMMA RaiseKeeps == IInv /\ Raise => IInv'
<1> SUFFICES ASSUME IInv, Raise PROVE IInv'
  OBVIOUS
<1>1. TypeOK' /\ Progress' /\ Gates' /\ Grounds'
  BY FailKeeps DEF Raise
<1>2. failure'.cause = "service"
  BY DEF Raise, Fail
<1>3. Reasons'
  BY <1>2 DEF Reasons
<1> QED
  BY <1>1, <1>3 DEF IInv

LEMMA RefuseKeeps == IInv /\ Refuse => IInv'
<1> SUFFICES ASSUME IInv, Refuse PROVE IInv'
  OBVIOUS
<1>1. TypeOK' /\ Progress' /\ Gates' /\ Grounds'
  BY FailKeeps DEF Refuse
<1>2. failure'.stage = pc
  BY DEF Refuse, Fail
<1>3. UNCHANGED <<request, intent, found, evidence>>
  BY DEF Refuse, Fail
<1>4. Reasons'
  BY <1>2, <1>3, Kept DEF Refuse, Reasons
<1> QED
  BY <1>1, <1>4 DEF IInv

LEMMA Stutters == IInv /\ UNCHANGED vars => IInv'
<1> SUFFICES ASSUME IInv, UNCHANGED vars PROVE IInv'
  OBVIOUS
<1> USE DEF IInv
<1>1. TypeOK' /\ Progress'
  BY DEF vars, TypeOK, Progress
<1>2. Gates'
  BY Kept DEF vars, Gates
<1>3. Reasons'
  BY Kept DEF vars, Reasons
<1>4. Grounds'
  BY Kept DEF vars, Grounds
<1> QED
  BY <1>1, <1>2, <1>3, <1>4

\* The invariant holds always.
LEMMA Invariance == Spec => []IInv
<1>1. IInv /\ [Next]_vars => IInv'
  BY InputKeeps, InterpretKeeps, ContextKeeps, ResearchKeeps, VerifyKeeps, PlanKeeps, PrioritizeKeeps,
     TodayKeeps, RaiseKeeps, RefuseKeeps, Stutters DEF Next
<1> QED
  BY Start, <1>1, PTL DEF Spec

-----------------------------------------------------------------------------
\* All that the pipeline computes is well-typed, the evidence of M5 included.
THEOREM TypeCorrect == Spec => []TypeOK
<1>1. IInv => TypeOK
  BY DEF IInv
<1> QED
  BY Invariance, <1>1, PTL

\* The except clause blames the stage that raised, whatever raised and wherever.
THEOREM Blamed == Spec => []FailureNamesStage
<1>1. IInv => FailureNamesStage
  <2> SUFFICES ASSUME IInv, failure # None PROVE FailureNamesStage
    BY DEF FailureNamesStage
  <2>1. Progress
    BY DEF IInv
  <2>2. \/ pc = "end" /\ failure = None /\ answer.status = "success" /\ completed = Stages
        \/ \E n \in 1 .. 8 :
             /\ failure.stage = StageOrder[n] /\ results = Behind(n)
             /\ answer = [status |-> "failed", stage |-> StageOrder[n]]
    BY <2>1 DEF Progress
  <2>3. PICK n \in 1 .. 8 :
          /\ failure.stage = StageOrder[n] /\ results = Behind(n)
          /\ answer = [status |-> "failed", stage |-> StageOrder[n]]
    BY <2>2
  <2>4. ASSUME NEW m \in 1 .. 8, NEW k \in 1 .. 8, StageOrder[k] = failure.stage
        PROVE  StageOrder[m] \in results <=> m < k
    <3>1. k = n
      BY <2>3, <2>4, Order
    <3> QED
      BY <2>3, <3>1, Membership
  <2> QED
    BY <2>3, <2>4, Order DEF FailureNamesStage
<1> QED
  BY Invariance, <1>1, PTL

\* What the pipeline answers without a failing service follows from the request and what was made of it.
THEOREM OnlyLimits == Spec => []RefusedByLimitsOnly
<1>1. IInv => RefusedByLimitsOnly
  <2> DEFINE Titled == \/ intent.planned = "template"
                       \/ (intent.planned = "single" /\ intent.title \in 1 .. TitleLimit)
             Filled == \A n \in Joined : ~request.sources[n].blank
  <2> SUFFICES ASSUME IInv, pc = "end", failure # None => failure.cause = "limit"
               PROVE  RefusedByLimitsOnly
    BY DEF RefusedByLimitsOnly
  <2>1. Verifiable <=> ~intent.blank /\ Filled
    BY DEF Verifiable, Items
  <2>2. Accepted <=> request.text.length \in 1 .. MaxContent
    BY LimitsAssumption DEF Accepted, IInv, TypeOK, Request, Text
  <2>3. intent \in Interpretation =>
          (Plannable <=> Titled /\ Cardinality(evidence.verified) <= MaxInformation)
    BY LimitsAssumption DEF Plannable, Interpretation
  <2>4. CASE failure = None
    <3>1. answer.status = "success" /\ completed = Stages
      BY <2>4, Order DEF IInv, Progress
    <3>2. /\ Accepted /\ Researchable /\ Verifiable /\ Plannable /\ Prioritizable
          /\ intent \in Interpretation
      BY <3>1 DEF IInv, Gates, Stages, StageOrder
    <3> QED
      BY <2>1, <2>2, <2>3, <3>1, <3>2 DEF RefusedByLimitsOnly, Researchable, Prioritizable
  <2>5. CASE failure # None
    <3>1. PICK n \in 1 .. 8 : failure.stage = StageOrder[n] /\ completed = Behind(n)
                             /\ answer = [status |-> "failed", stage |-> StageOrder[n]]
      BY <2>5, Order DEF IInv, Progress
    <3>2. failure.stage = "planning" => intent \in Interpretation
      <4>1. failure.stage = "planning" => n = 6
        <5>1. StageOrder[n] = StageOrder[6] => n = 6
          BY Order
        <5> QED
          BY <3>1, <5>1, Order
      <4>2. n = 6 => "intent" \in completed
        BY <3>1, Membership, Order
      <4> QED
        BY <4>1, <4>2 DEF IInv, Gates
    <3>3. answer.status # "success"
      BY <3>1
    <3>4. ~(/\ Accepted /\ Researchable /\ Verifiable /\ Titled
            /\ Cardinality(evidence.verified) <= MaxInformation /\ Prioritizable)
      BY <2>3, <2>5, <3>2 DEF IInv, Reasons
    <3> QED
      BY <2>1, <2>2, <3>3, <3>4 DEF RefusedByLimitsOnly, Researchable, Prioritizable
  <2> QED
    BY <2>4, <2>5
<1> QED
  BY Invariance, <1>1, PTL

\* If no two sources share an id, M5 verifies nothing on the word of one source or against another's.
THEOREM TwoWitnesses == Spec => []VerifiedIsCorroborated
<1>1. IInv => VerifiedIsCorroborated
  <2> SUFFICES ASSUME IInv, evidence # None, Distinct PROVE VerifiedIsCorroborated
    BY DEF VerifiedIsCorroborated
  <2>1. evidence.verified = Verified /\ evidence.status = Status
    BY DEF IInv, Grounds
  <2>2. found \subseteq DOMAIN request.sources
    BY DEF IInv, TypeOK
  <2>3. \A n \in DOMAIN request.sources : n \in Int
    BY DEF IInv, TypeOK, Request
  <2>4. Joined = found
    BY <2>2, <2>3 DEF Joined, Distinct
  <2>5. \A n \in found : \A f \in request.sources[n].facts : f \in Facts
    BY <2>4 DEF Facts, Items
  <2>6. Facts \subseteq Fact
    BY FactsType DEF IInv
  <2>7. \A f \in Facts, g \in Facts : Agreed(f) /\ g.key = f.key => g = f
    BY <2>6 DEF Agreed, Fact
  <2>8. ASSUME NEW f \in Verified
        PROVE  /\ \E m, n \in found :
                    m # n /\ f \in request.sources[m].facts /\ f \in request.sources[n].facts
               /\ \A n \in found : \A g \in request.sources[n].facts : g.key = f.key => g = f
    <3>1. f \in Facts /\ Agreed(f) /\ Corroborated(f)
      BY DEF Verified
    <3>2. PICK s \in Items, t \in Items : s.id # t.id /\ f \in s.facts /\ f \in t.facts
      BY <3>1 DEF Corroborated
    <3>3. PICK m \in found, n \in found : s = request.sources[m] /\ t = request.sources[n]
      BY <2>4, <3>2 DEF Items
    <3>4. m # n
      BY <3>2, <3>3
    <3> QED
      BY <2>5, <2>7, <3>1, <3>2, <3>3, <3>4
  <2>9. ASSUME Status = "verified"
        PROVE  \A m, n \in found : \A f \in request.sources[m].facts : \A g \in request.sources[n].facts :
                 g.key = f.key => g = f
    <3>1. Conflicting = {}
      BY <2>9 DEF Status
    <3>2. \A f \in Facts : Agreed(f)
      BY <3>1 DEF Conflicting
    <3> QED
      BY <2>5, <2>7, <3>2
  <2> QED
    BY <2>1, <2>8, <2>9 DEF VerifiedIsCorroborated
<1> QED
  BY Invariance, <1>1, PTL
=============================================================================
