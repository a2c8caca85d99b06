--------------------- MODULE IncrementalRefresh_proofs ---------------------
(***************************************************************************)
(* Proofs about the producer, for any set of jobs and any number of pages. *)
(*                                                                         *)
(* The properties are not inductive on their own: they need what a run     *)
(* knows at each of its steps (RunFacts), because a run acts on a journal  *)
(* it read earlier, and what the files keep between runs (FileFacts).      *)
(***************************************************************************)
EXTENDS IncrementalRefresh, TLAPS

\* What a run that holds the lock may rely on at each of its steps.
RunFacts ==
  /\ run.at # "idle" => run.job \in Jobs /\ Active \in {NoJob, run.job}
  /\ run.at = "activate" => phase[run.job] = "ACQUIRING"
  /\ run.at \in {"get", "asked", "refuse", "build"} =>
       phase[run.job] \in {"ACQUIRING", "BUILDING"}
  /\ run.at = "asked" => cache[run.job].next = "intent" /\ cache[run.job].good < Requests
  /\ run.at = "refuse" => cache[run.job].next \in {"bad", "intent"}
  /\ run.at = "stage" => phase[run.job] = "BUILDING"
  /\ run.at \in {"commit", "pointed"} => phase[run.job] = "STAGED"
  /\ run.at = "pointed" => accepted = run.job /\ run.job \in everAccepted

\* What the files say of one another, whoever stopped where.
FileFacts ==
  /\ accepted \in everAccepted \cup {Base}
  /\ \A j \in Jobs : baseline[j] \in everAccepted \cup {Base}
  /\ \A j \in Jobs : phase[j] = "COMPLETED" => j \in everAccepted
  /\ \A j \in Jobs : phase[j] = "FAILED" => cache[j].next = "bad"
  /\ \A j \in everAccepted : phase[j] \in {"STAGED", "COMPLETED"}
  /\ \A j \in Jobs : active = j => phase[j] # "none"
  /\ \A j, k \in everAccepted : baseline[j] = baseline[k] => j = k
  /\ PointerIsNewest

ProducerInv == ProducerTypeOK /\ RunFacts /\ FileFacts

\* The strengthened invariant holds at the start.
LEMMA ProducerInitInv == ProducerInit => ProducerInv
  BY JobsAssumption, RequestsAssumption
  DEF ProducerInit, ProducerInv, ProducerTypeOK, RunFacts, FileFacts, PointerIsNewest,
      Generations, Phases, IdleRun, RunSteps, Active

LEMMA BeginRunInv ==
  ASSUME ProducerInv, NEW j \in Jobs, NEW retry \in BOOLEAN, BeginRun(j, retry)
  PROVE  ProducerInv'
<1> USE JobsAssumption, RequestsAssumption DEF ProducerInv
<1>1. ProducerTypeOK'
  BY DEF BeginRun, EntryStep, ProducerTypeOK, FileFacts, Generations, Phases, RunSteps
<1>2. RunFacts'
  BY DEF BeginRun, EntryStep, Terminal, Active, ProducerTypeOK, FileFacts, RunFacts, Phases
\* Only a job that has no journal gets a baseline, and no accepted job is one.
<1>3. FileFacts'
  <2>1. CASE phase[j] # "none"
    BY <2>1 DEF BeginRun, FileFacts, PointerIsNewest
  <2>2. CASE phase[j] = "none"
    <3>1. /\ phase' = [phase EXCEPT ![j] = "ACQUIRING"]
          /\ baseline' = [baseline EXCEPT ![j] = accepted]
          /\ UNCHANGED <<cache, active, accepted, everAccepted>>
      BY <2>2 DEF BeginRun
    <3>2. j \notin everAccepted
      BY <2>2 DEF FileFacts
    <3>3. \A k \in Jobs : k # j => phase'[k] = phase[k] /\ baseline'[k] = baseline[k]
      BY <3>1 DEF ProducerTypeOK
    <3>4. phase'[j] = "ACQUIRING" /\ baseline'[j] = accepted
      BY <3>1 DEF ProducerTypeOK
    <3>5. \A k \in everAccepted : k \in Jobs /\ k # j
      BY <3>2 DEF ProducerTypeOK
    <3>6. QED  BY <3>1, <3>3, <3>4, <3>5 DEF FileFacts, PointerIsNewest
  <2>3. QED  BY <2>1, <2>2
<1>4. QED  BY <1>1, <1>2, <1>3

LEMMA WriteActiveInv ==
  ASSUME ProducerInv, WriteActive
  PROVE  ProducerInv'
<1> USE JobsAssumption, RequestsAssumption DEF ProducerInv, WriteActive, To, Active, Terminal
<1>1. ProducerTypeOK'
  BY DEF ProducerTypeOK, RunFacts, Generations, Phases, RunSteps, IdleRun
<1>2. RunFacts'
  BY DEF ProducerTypeOK, RunFacts, FileFacts, Generations, Phases, RunSteps
<1>3. FileFacts'
  BY DEF ProducerTypeOK, RunFacts, FileFacts, PointerIsNewest, Generations, Phases, RunSteps
<1>4. QED  BY <1>1, <1>2, <1>3

LEMMA NextPageInv ==
  ASSUME ProducerInv, NextPage
  PROVE  ProducerInv'
<1> USE JobsAssumption, RequestsAssumption DEF ProducerInv
<1> DEFINE j == run.job
<1>0. /\ j \in Jobs /\ phase[j] \in {"ACQUIRING", "BUILDING"}
      /\ run.at = "get" /\ Active \in {NoJob, j}
      /\ UNCHANGED <<phase, baseline, active, accepted, everAccepted>>
  BY DEF NextPage, RunFacts
<1>1. Active' = Active
  BY <1>0 DEF Active, Terminal
<1>2. \/ cache[j].next = "bad" /\ To("refuse") /\ UNCHANGED cache
      \/ To("build") /\ UNCHANGED cache
      \/ Return("held") /\ UNCHANGED cache
      \/ /\ cache[j].good # Requests
         /\ cache' = [cache EXCEPT ![j].next = "intent"]
         /\ To("asked")
  BY DEF NextPage
<1>3. CASE /\ UNCHANGED cache
           /\ \/ cache[j].next = "bad" /\ To("refuse")
              \/ To("build")
              \/ Return("held")
  <2>1. /\ run' \in [at: {"refuse", "build", "returned"}, job: {j}, retry: BOOLEAN,
                     outcome: {"none", "completed", "failed", "held", "raised"}]
        /\ run'.at = "refuse" => cache[j].next = "bad"
    BY <1>3 DEF ProducerTypeOK, To, Return
  <2>2. ProducerTypeOK'
    BY <1>0, <1>3, <2>1 DEF ProducerTypeOK, RunSteps
  <2>3. RunFacts'
    BY <1>0, <1>1, <1>3, <2>1 DEF RunFacts
  <2>4. FileFacts'
    BY <1>0, <1>3 DEF FileFacts, PointerIsNewest
  <2>5. QED  BY <2>2, <2>3, <2>4
<1>4. CASE /\ cache[j].good # Requests
           /\ cache' = [cache EXCEPT ![j].next = "intent"]
           /\ To("asked")
  <2>1. run' \in [at: {"asked"}, job: {j}, retry: BOOLEAN,
                  outcome: {"none", "completed", "failed", "held", "raised"}]
    BY <1>4 DEF ProducerTypeOK, To
  <2>2. /\ cache'[j].good = cache[j].good /\ cache'[j].next = "intent"
        /\ \A k \in Jobs : k # j => cache'[k] = cache[k]
        /\ cache[j].good < Requests
    <3>1. cache[j] \in [good: 0 .. Requests, next: {"clear", "intent", "bad"}]
      BY <1>0 DEF ProducerTypeOK
    <3>2. cache[j].good < Requests
      BY <1>4, <3>1
    <3>3. cache'[j] = [cache[j] EXCEPT !.next = "intent"]
      BY <1>0, <1>4 DEF ProducerTypeOK
    <3>4. \A k \in Jobs : k # j => cache'[k] = cache[k]
      BY <1>0, <1>4 DEF ProducerTypeOK
    <3>5. QED  BY <3>1, <3>2, <3>3, <3>4
  <2>3. ProducerTypeOK'
    BY <1>0, <1>4, <2>1 DEF ProducerTypeOK, RunSteps
  <2>4. RunFacts'
    BY <1>0, <1>1, <2>1, <2>2 DEF RunFacts
  <2>5. FileFacts'
    BY <1>0, <2>2 DEF ProducerTypeOK, FileFacts, PointerIsNewest
  <2>6. QED  BY <2>3, <2>4, <2>5
<1>5. QED  BY <1>2, <1>3, <1>4

LEMMA AnswerInv ==
  ASSUME ProducerInv, NEW good \in BOOLEAN, Answer(good)
  PROVE  ProducerInv'
<1> USE JobsAssumption, RequestsAssumption DEF ProducerInv, Answer, To, Active, Terminal
<1>1. ProducerTypeOK'
  BY DEF ProducerTypeOK, RunFacts, Generations, Phases, RunSteps, IdleRun
<1>2. RunFacts'
  BY DEF ProducerTypeOK, RunFacts, FileFacts, Generations, Phases, RunSteps
<1>3. FileFacts'
  BY DEF ProducerTypeOK, RunFacts, FileFacts, PointerIsNewest, Generations, Phases, RunSteps
<1>4. QED  BY <1>1, <1>2, <1>3

LEMMA UnansweredInv ==
  ASSUME ProducerInv, Unanswered
  PROVE  ProducerInv'
<1> USE JobsAssumption, RequestsAssumption DEF ProducerInv, Unanswered, To, Active, Terminal
<1>1. ProducerTypeOK'
  BY DEF ProducerTypeOK, RunFacts, Generations, Phases, RunSteps, IdleRun
<1>2. RunFacts'
  BY DEF ProducerTypeOK, RunFacts, FileFacts, Generations, Phases, RunSteps
<1>3. FileFacts'
  BY DEF ProducerTypeOK, RunFacts, FileFacts, PointerIsNewest, Generations, Phases, RunSteps
<1>4. QED  BY <1>1, <1>2, <1>3

LEMMA RefuseSourceInv ==
  ASSUME ProducerInv, RefuseSource
  PROVE  ProducerInv'
<1> USE JobsAssumption, RequestsAssumption DEF ProducerInv
<1> DEFINE j == run.job
<1>0. /\ j \in Jobs /\ phase[j] \in {"ACQUIRING", "BUILDING"}
      /\ run.at = "refuse" /\ Active \in {NoJob, j}
      /\ cache[j].next \in {"bad", "intent"}
      /\ UNCHANGED <<baseline, cache, active, accepted, everAccepted>>
  BY DEF RefuseSource, RunFacts
<1>1. \/ /\ Return("raised") \/ Return("held")
         /\ UNCHANGED phase
      \/ /\ Active = j /\ ~Uncertain(j)
         /\ phase' = [phase EXCEPT ![j] = "FAILED"]
         /\ Return("failed")
  BY <1>0 DEF RefuseSource
<1>2. Active' \in {NoJob, j}
  BY <1>0, <1>1 DEF Active, Terminal, ProducerTypeOK
<1>3. run' \in [at: {"returned"}, job: {j}, retry: BOOLEAN,
                 outcome: {"raised", "held", "failed"}]
  BY <1>1 DEF Return, ProducerTypeOK
<1>4. ProducerTypeOK'
  BY <1>0, <1>1, <1>3 DEF ProducerTypeOK, Phases, RunSteps
<1>5. RunFacts'
  BY <1>0, <1>2, <1>3 DEF RunFacts
<1>6. FileFacts'
  BY <1>0, <1>1 DEF ProducerTypeOK, FileFacts, PointerIsNewest, Uncertain
<1>7. QED  BY <1>4, <1>5, <1>6

LEMMA BuildInv ==
  ASSUME ProducerInv, Build
  PROVE  ProducerInv'
<1> USE JobsAssumption, RequestsAssumption DEF ProducerInv, Build, To, Active, Terminal
<1>1. ProducerTypeOK'
  BY DEF ProducerTypeOK, RunFacts, Generations, Phases, RunSteps, IdleRun
<1>2. RunFacts'
  BY DEF ProducerTypeOK, RunFacts, FileFacts, Generations, Phases, RunSteps
<1>3. FileFacts'
  BY DEF ProducerTypeOK, RunFacts, FileFacts, PointerIsNewest, Generations, Phases, RunSteps
<1>4. QED  BY <1>1, <1>2, <1>3

LEMMA StageInv ==
  ASSUME ProducerInv, Stage
  PROVE  ProducerInv'
<1> USE JobsAssumption, RequestsAssumption DEF ProducerInv, Stage, To, Active, Terminal
<1>1. ProducerTypeOK'
  BY DEF ProducerTypeOK, RunFacts, Generations, Phases, RunSteps, IdleRun
<1>2. RunFacts'
  BY DEF ProducerTypeOK, RunFacts, FileFacts, Generations, Phases, RunSteps
<1>3. FileFacts'
  BY DEF ProducerTypeOK, RunFacts, FileFacts, PointerIsNewest, Generations, Phases, RunSteps
<1>4. QED  BY <1>1, <1>2, <1>3

LEMMA CommitPointerInv ==
  ASSUME ProducerInv, CommitPointer
  PROVE  ProducerInv'
<1> USE JobsAssumption, RequestsAssumption DEF ProducerInv
<1> DEFINE j == run.job
<1>0. /\ j \in Jobs /\ phase[j] = "STAGED"
      /\ run.at = "commit" /\ Active \in {NoJob, j}
      /\ UNCHANGED <<phase, baseline, cache, active>>
  BY DEF CommitPointer, RunFacts
<1>1. Active' = Active
  BY <1>0 DEF Active, Terminal
<1>2. \/ /\ accepted \in {j, baseline[j]}
         /\ accepted' = j
         /\ everAccepted' = everAccepted \cup {j}
         /\ To("pointed")
      \/ Return("raised") /\ UNCHANGED <<accepted, everAccepted>>
  BY DEF CommitPointer, MayCommit
<1>3. ProducerTypeOK'
  BY <1>0, <1>2 DEF ProducerTypeOK, To, Return, RunSteps, Generations
<1>4. RunFacts'
  BY <1>0, <1>1, <1>2 DEF ProducerTypeOK, RunFacts, To, Return, RunSteps
\* A new generation joins the line at its end; a recovered one is there already.
<1>5. FileFacts'
  <2>1. CASE UNCHANGED <<accepted, everAccepted>>
    BY <1>0, <2>1 DEF FileFacts, PointerIsNewest
  <2>2. CASE /\ accepted \in {j, baseline[j]}
             /\ accepted' = j
             /\ everAccepted' = everAccepted \cup {j}
    <3>1. CASE j \in everAccepted
      <4>1. accepted = j
        BY <2>2, <3>1 DEF FileFacts, PointerIsNewest
      <4>2. QED  BY <1>0, <2>2, <3>1, <4>1 DEF FileFacts, PointerIsNewest
    <3>2. CASE j \notin everAccepted
      <4>1. accepted = baseline[j] /\ baseline[j] # j
        BY <1>0, <2>2, <3>2 DEF FileFacts
      <4>2. PointerIsNewest'
        BY <1>0, <2>2, <3>2, <4>1 DEF ProducerTypeOK, FileFacts, PointerIsNewest
      <4>3. \A k, l \in everAccepted' : baseline'[k] = baseline'[l] => k = l
        BY <1>0, <2>2, <3>2, <4>1 DEF FileFacts, PointerIsNewest
      <4>4. QED  BY <1>0, <2>2, <4>2, <4>3 DEF FileFacts
    <3>3. QED  BY <3>1, <3>2
  <2>3. QED  BY <1>2, <2>1, <2>2
<1>6. QED  BY <1>3, <1>4, <1>5

LEMMA CommitJournalInv ==
  ASSUME ProducerInv, CommitJournal
  PROVE  ProducerInv'
<1> USE JobsAssumption, RequestsAssumption DEF ProducerInv, CommitJournal, Return, Active, Terminal
<1>1. ProducerTypeOK'
  BY DEF ProducerTypeOK, RunFacts, Generations, Phases, RunSteps, IdleRun
<1>2. RunFacts'
  BY DEF ProducerTypeOK, RunFacts, FileFacts, Generations, Phases, RunSteps
<1>3. FileFacts'
  BY DEF ProducerTypeOK, RunFacts, FileFacts, PointerIsNewest, Generations, Phases, RunSteps
<1>4. QED  BY <1>1, <1>2, <1>3

LEMMA EndRunInv ==
  ASSUME ProducerInv, EndRun
  PROVE  ProducerInv'
<1> USE JobsAssumption, RequestsAssumption DEF ProducerInv, EndRun, IdleRun, Active, Terminal
<1>1. ProducerTypeOK'
  BY DEF ProducerTypeOK, RunFacts, Generations, Phases, RunSteps, IdleRun
<1>2. RunFacts'
  BY DEF ProducerTypeOK, RunFacts, FileFacts, Generations, Phases, RunSteps
<1>3. FileFacts'
  BY DEF ProducerTypeOK, RunFacts, FileFacts, PointerIsNewest, Generations, Phases, RunSteps
<1>4. QED  BY <1>1, <1>2, <1>3

\* Every step of a producer preserves the strengthened invariant.
LEMMA ProducerStepInv == ProducerInv /\ [ProducerNext]_producerVars => ProducerInv'
<1> SUFFICES ASSUME ProducerInv, [ProducerNext]_producerVars
             PROVE  ProducerInv'
  OBVIOUS
<1>1. CASE \E j \in Jobs, retry \in BOOLEAN : BeginRun(j, retry)
  BY <1>1, BeginRunInv
<1>2. CASE RunStep
  BY <1>2, WriteActiveInv, NextPageInv, AnswerInv, UnansweredInv, RefuseSourceInv,
     BuildInv, StageInv, CommitPointerInv, CommitJournalInv DEF RunStep
<1>3. CASE EndRun
  BY <1>3, EndRunInv
<1>4. CASE UNCHANGED producerVars
  BY <1>4 DEF producerVars, ProducerInv, ProducerTypeOK, RunFacts, FileFacts,
              PointerIsNewest, Active, Terminal
<1>5. QED  BY <1>1, <1>2, <1>3, <1>4 DEF ProducerNext

LEMMA ProducerAlwaysInv == ProducerSpec => []ProducerInv
  BY ProducerInitInv, ProducerStepInv, PTL DEF ProducerSpec

\* The producer's files and its run keep their types, for any number of jobs and
\* pages: no run asks a page beyond the last one.
THEOREM ProducerTypeCorrect == ProducerSpec => []ProducerTypeOK
<1>1. ProducerInv => ProducerTypeOK  BY DEF ProducerInv
<1>2. QED  BY <1>1, ProducerAlwaysInv, PTL

\* Accepted generations form one unbroken line: a commit that a crash delayed
\* never forks it (_commit's check of the pointer against the job's baseline).
THEOREM AcceptedHistorySafe == ProducerSpec => []AcceptedHistoryIsALine
<1>1. ProducerInv => AcceptedHistoryIsALine
  BY DEF ProducerInv, ProducerTypeOK, FileFacts, AcceptedHistoryIsALine
<1>2. QED  BY <1>1, ProducerAlwaysInv, PTL

\* The accepted pointer never goes back to a generation that another was built on.
THEOREM PointerSafe == ProducerSpec => []PointerIsNewest
<1>1. ProducerInv => PointerIsNewest  BY DEF ProducerInv, FileFacts
<1>2. QED  BY <1>1, ProducerAlwaysInv, PTL

\* A closed journal agrees with the pointer: completed jobs were accepted, failed
\* ones were not and hold a saved refusal.
THEOREM JournalSafe == ProducerSpec => []JournalMatchesPointer
<1>1. ProducerInv => JournalMatchesPointer
  BY DEF ProducerInv, FileFacts, JournalMatchesPointer
<1>2. QED  BY <1>1, ProducerAlwaysInv, PTL

\* No later run of a job reopens its closed journal or asks for its pages again.
THEOREM ClosedJournalStays == ProducerSpec => ClosedJournalIsFinal
<1> DEFINE Final == \A j \in Jobs :
                      Terminal(j) => phase'[j] = phase[j] /\ cache'[j] = cache[j]
<1>1. ASSUME ProducerInv, [ProducerNext]_producerVars PROVE [Final]_producerVars
  <2> SUFFICES ASSUME NEW k \in Jobs, Terminal(k), ProducerNext
               PROVE  phase'[k] = phase[k] /\ cache'[k] = cache[k]
    BY <1>1
  <2> USE <1>1 DEF ProducerInv, ProducerTypeOK, RunFacts, Terminal
  <2>1. CASE \E j \in Jobs, retry \in BOOLEAN : BeginRun(j, retry)
    BY <2>1 DEF BeginRun
  <2>2. CASE WriteActive \/ Unanswered \/ CommitPointer \/ EndRun
    BY <2>2 DEF WriteActive, Unanswered, CommitPointer, EndRun
  <2>3. CASE NextPage
    <3>1. run.job # k /\ run.job \in Jobs
      BY <2>3 DEF NextPage
    <3>2. QED  BY <2>3, <3>1 DEF NextPage
  <2>4. CASE \E good \in BOOLEAN : Answer(good)
    BY <2>4 DEF Answer
  <2>5. CASE RefuseSource
    BY <2>5 DEF RefuseSource
  <2>6. CASE Build \/ Stage
    BY <2>6 DEF Build, Stage
  <2>7. CASE CommitJournal
    BY <2>7 DEF CommitJournal
  <2>8. QED  BY <2>1, <2>2, <2>3, <2>4, <2>5, <2>6, <2>7 DEF ProducerNext, RunStep
<1>2. QED  BY <1>1, ProducerAlwaysInv, PTL DEF ProducerSpec, ClosedJournalIsFinal
=============================================================================
