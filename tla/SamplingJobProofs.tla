-------------------------- MODULE SamplingJobProofs --------------------------
(***************************************************************************)
(* What holds of a run over a data set, for every size of it, any number   *)
(* of iterations, crashes, evaluator calls and workers, and every          *)
(* configuration.                                                          *)
(* The last sections are about the files of trees: what the operators of   *)
(* TreeFile do to sequences, names, labels and lines, and that every file  *)
(* tells what the tree was.                                                *)
(***************************************************************************)
EXTENDS SamplingJob, FiniteSetTheorems, FunctionTheorems, SequenceTheorems,
        WellFoundedInduction, TLAPS

Place == {"waiting", "search", "found", "saved", "answered", "done", "lost", "dropped"}

Entry(i) ==
  [output : 0..i, true : 0..i, stats : 0..i, error : 0..i, skipped : BOOLEAN]

(* TypeOK without the sizes of sets, and with the types of the counters    *)
(* that it leaves out.                                                     *)
OfJob ==
  /\ opts \in Setups
  /\ job \in {"off", "running", "written", "ended", "aborted", "crashed"}
  /\ iter \in 1..opts.iterations /\ crashes \in 0..opts.crashes
  /\ pc \in [Task -> Place]
  /\ entry \in [Task -> Entry(iter)]
  /\ raised \subseteq Task

OfSearch ==
  /\ verified \in [Task -> BOOLEAN]
  /\ left \in [Task -> 0..MaxEvaluations]
  /\ root \in [Task -> RootId \union {NoRoot}]
  /\ praised \in [Task -> [ProofState -> Nat]]
  /\ tracker \in [seen : SUBSET ProofState, root : RootId \union {NoRoot}]

OfClient ==
  /\ phase \in [Task -> Phase]
  /\ connected \in BOOLEAN /\ session \in BOOLEAN
  /\ process \in {"none", "server", "exited"}
  /\ server \in BOOLEAN /\ broken \subseteq {"line", "session"}

OfFiles ==
  /\ trees \in [Task -> Nat] /\ moved \subseteq Task
  /\ file # NoFile => opts.read
  /\ delivered \subseteq Task
  /\ DOMAIN report.entry \subseteq Data

Types == OfJob /\ OfSearch /\ OfClient /\ OfFiles

-----------------------------------------------------------------------------
(* Configurations and types.                                               *)

(* What the numbers and switches of a configuration can be.                *)
LEMMA Options ==
  ASSUME NEW o \in Setups
  PROVE  /\ o.size \in 1..DataSize /\ o.concurrent \in 1..DataSize
         /\ o.batch \in 1..DataSize /\ o.iterations \in 1..MaxIterations
         /\ o.crashes \in Nat
         /\ o.async \in BOOLEAN /\ o.skip \in BOOLEAN /\ o.resume \in BOOLEAN
<1>1. o \in Setup
  BY SetupAssumption
<1> QED BY <1>1 DEF Setup

LEMMA DataAreTasks ==
  ASSUME opts \in Setups
  PROVE  Data \subseteq Task /\ opts.iterations \in Nat /\ opts.iterations >= 1
         /\ IsFiniteSet(Task)
<1>1. opts.size \in 1..DataSize /\ opts.iterations \in 1..MaxIterations
  BY Options
<1> QED BY <1>1, JobAssumption, TaskAssumption DEF Data

(* A saved tree is another file of a problem, or none.                     *)
LEMMA SavedType ==
  ASSUME trees \in [Task -> Nat], NEW D, PartlySaved(D)
  PROVE  trees' \in [Task -> Nat]
BY DEF PartlySaved

(* What is stored in an entry.                                             *)
LEMMA ResultType ==
  ASSUME OfJob, NEW d \in Task
  PROVE  /\ Result(d) \in Entry(iter)
         /\ [entry[d] EXCEPT !.output = iter, !.error = iter] \in Entry(iter)
<1>1. entry[d] \in Entry(iter)
  BY DEF OfJob
<1>2. iter \in Nat
  BY DataAreTasks DEF OfJob
<1>3. iter \in 0..iter /\ 0 \in 0..iter
  BY <1>2
<1>4. (IF verified[d] THEN iter ELSE 0) \in 0..iter
  BY <1>3
<1> QED BY <1>1, <1>3, <1>4 DEF Result, Entry

(* The job.                                                                *)
LEMMA JobTypes == Types /\ [Next]_vars => OfJob'
<1> SUFFICES ASSUME Types, [Next]_vars PROVE OfJob'
  OBVIOUS
<1>0. /\ OfJob
      /\ Data \subseteq Task /\ opts.iterations \in Nat /\ opts.iterations >= 1
      /\ opts.crashes \in Nat
  BY DataAreTasks, Options DEF Types, OfJob
<1>1. CASE UNCHANGED vars
  BY <1>0, <1>1 DEF OfJob, vars, Data
<1>2. ASSUME Launch(Dropped), opts' = opts, job' = "running", crashes' = crashes
      PROVE  OfJob'
  <2>1. Each(Untouched) \in [Task -> Entry(1)]
    BY DEF Each, Untouched, Entry
  <2> QED BY <1>0, <1>2, <2>1 DEF OfJob, Launch, Place
<1>3. CASE StartJob
  BY <1>2, <1>3 DEF StartJob
<1>4. CASE StartFails
  BY <1>0, <1>4 DEF StartFails, OfJob
<1>5. CASE Crash
  BY <1>0, <1>5 DEF Crash, OfJob
<1>6. CASE EndBatch
  <2>1. \A d \in Task : Result(d) \in Entry(iter)
    BY <1>0, ResultType
  <2> QED BY <1>0, <1>6, <2>1 DEF EndBatch, OfJob, Place
<1>7. CASE Abort
  BY <1>0, <1>7 DEF Abort, OfJob
<1>8. CASE WriteAnswers
  BY <1>0, <1>8 DEF WriteAnswers, OfJob
<1>9. CASE NextIteration
  <2>1. entry \in [Task -> Entry(iter + 1)]
    <3>1. Entry(iter) \subseteq Entry(iter + 1)
      BY <1>0 DEF Entry, OfJob
    <3> QED BY <1>0, <3>1 DEF OfJob
  <2>2. CASE iter = opts.iterations
    BY <1>0, <1>9, <2>2 DEF NextIteration, OfJob
  <2>3. CASE iter # opts.iterations
    <3>1. iter + 1 \in 1..opts.iterations
      BY <1>0, <2>3 DEF OfJob
    <3> QED BY <1>0, <1>9, <2>1, <2>3, <3>1 DEF NextIteration, OfJob, Place
  <2> QED BY <2>2, <2>3
<1>10. ASSUME NEW d \in Data, Work(d)
       PROVE  OfJob'
  <2>0. d \in Task
    BY <1>0
  <2>1. CASE Skip(d)
    <3>1. [entry[d] EXCEPT !.skipped = TRUE] \in Entry(iter)
      BY <1>0, <2>0 DEF OfJob, Entry
    <3> QED BY <1>0, <2>0, <2>1, <3>1 DEF Skip, OfJob, Place
  <2>2. CASE Start(d)
    BY <1>0, <2>0, <2>2 DEF Start, OfJob, Place
  <2>3. CASE \/ Praise(d) \/ Judge(d) \/ PlayRound(d) \/ EndTournament(d)
             \/ Check(d) \/ ClientStep(d) \/ CheckReturns(d) \/ CheckFails(d)
    BY <1>0, <2>3 DEF Praise, Judge, PlayRound, EndTournament, Check, ClientStep,
                      CheckReturns, CheckFails, Others, OfJob
  <2>4. CASE EndSearch(d)
    BY <1>0, <2>0, <2>4 DEF EndSearch, OfJob, Place
  <2>5. CASE Save(d)
    BY <1>0, <2>0, <2>5 DEF Save, OfJob, Place
  <2>6. CASE Deliver(d)
    <3>1. Result(d) \in Entry(iter)
      BY <1>0, <2>0, ResultType
    <3> QED BY <1>0, <2>0, <2>6, <3>1 DEF Deliver, OfJob, Place
  <2>7. CASE Respond(d)
    BY <1>0, <2>0, <2>7 DEF Respond, OfJob, Place
  <2>8. CASE Raise(d)
    <3>1. [entry[d] EXCEPT !.output = iter, !.error = iter] \in Entry(iter)
      BY <1>0, <2>0, ResultType
    <3> QED BY <1>0, <2>0, <2>8, <3>1 DEF Raise, OfJob, Place
  <2>9. CASE RaiseAll(d)
    BY <1>0, <2>0, <2>9 DEF RaiseAll, OfJob, Place
  <2> QED BY <1>10, <2>1, <2>2, <2>3, <2>4, <2>5, <2>6, <2>7, <2>8, <2>9 DEF Work
<1> QED
  BY <1>1, <1>3, <1>4, <1>5, <1>6, <1>7, <1>8, <1>9, <1>10 DEF Next, Progress

(* The searches.                                                           *)
LEMMA SearchTypes == Types /\ [Next]_vars => OfSearch'
<1> SUFFICES ASSUME Types, [Next]_vars PROVE OfSearch'
  OBVIOUS
<1>0. OfSearch /\ Data \subseteq Task
  BY DataAreTasks DEF Types, OfJob
<1>1. CASE UNCHANGED vars
  BY <1>0, <1>1 DEF OfSearch, vars, searchVars
<1>2. CASE StartJob \/ StartFails \/ EndBatch \/ Abort \/ WriteAnswers \/ NextIteration
  BY <1>0, <1>2 DEF StartJob, StartFails, EndBatch, Abort, WriteAnswers, NextIteration,
                    OfSearch, searchVars
<1>3. CASE Crash
  <2>1. Unpraised \in [ProofState -> Nat]
    BY DEF Unpraised
  <2>2. 0 \in 0..MaxEvaluations
    BY JobAssumption
  <2> QED BY <1>3, <2>1, <2>2 DEF Crash, OfSearch, Each, Forgotten
<1>4. ASSUME NEW d \in Data, Work(d)
      PROVE  OfSearch'
  <2>0. d \in Task
    BY <1>0
  <2>1. ASSUME Calls(d)
        PROVE  left' \in [Task -> 0..MaxEvaluations]
    <3>1. left[d] \in Nat /\ left[d] - 1 \in 0..MaxEvaluations
      BY <1>0, <2>0, <2>1, JobAssumption DEF Calls, OfSearch
    <3> QED BY <1>0, <2>0, <2>1, <3>1 DEF Calls, OfSearch
  <2>2. CASE Skip(d) \/ Save(d)
    BY <1>0, <2>2 DEF Skip, Save, OfSearch, searchVars
  <2>3. CASE Start(d)
    <3>1. Unpraised \in [ProofState -> Nat]
      BY DEF Unpraised
    <3>2. 0 \in 0..MaxEvaluations /\ MaxEvaluations \in 0..MaxEvaluations
      BY JobAssumption
    <3>3. left' \in [Task -> 0..MaxEvaluations]
      BY <1>0, <2>0, <2>3, <3>2 DEF Start, OfSearch
    <3>4. PICK r \in RootId \union {NoRoot} : root' = [root EXCEPT ![d] = r]
      BY <2>3 DEF Start
    <3> QED BY <1>0, <2>0, <2>3, <3>1, <3>3, <3>4 DEF Start, OfSearch
  <2>4. CASE Praise(d)
    <3>1. PICK n \in 1..2 : \E ss \in [1..n -> ProofState] :
            LET new == {ss[i] : i \in Novel(tracker, root[d], ss)} IN
            /\ tracker' = Seen(tracker, root[d], ss)
            /\ praised' = [praised EXCEPT ![d] =
                             [s \in ProofState |-> IF s \in new THEN @[s] + 1 ELSE @[s]]]
      BY <2>4 DEF Praise
    <3>2. PICK ss \in [1..n -> ProofState] :
            LET new == {ss[i] : i \in Novel(tracker, root[d], ss)} IN
            /\ tracker' = Seen(tracker, root[d], ss)
            /\ praised' = [praised EXCEPT ![d] =
                             [s \in ProofState |-> IF s \in new THEN @[s] + 1 ELSE @[s]]]
      BY <3>1
    <3> DEFINE new == {ss[i] : i \in Novel(tracker, root[d], ss)}
               count == [s \in ProofState |->
                           IF s \in new THEN praised[d][s] + 1 ELSE praised[d][s]]
    <3>3. praised' = [praised EXCEPT ![d] = count]
      BY <3>2
    <3>4. count \in [ProofState -> Nat]
      <4> HIDE DEF new
      <4> QED BY <1>0, <2>0 DEF OfSearch
    <3>5. praised' \in [Task -> [ProofState -> Nat]]
      <4> HIDE DEF count
      <4> QED BY <1>0, <2>0, <3>3, <3>4 DEF OfSearch
    <3>6. ToSet(ss) \subseteq ProofState
      BY DEF ToSet
    <3>7. tracker' \in [seen : SUBSET ProofState, root : RootId \union {NoRoot}]
      BY <1>0, <2>0, <3>2, <3>6 DEF OfSearch, Seen, ForTree
    <3> QED BY <1>0, <2>1, <2>4, <3>5, <3>7 DEF Praise, OfSearch, Others
  <2>5. CASE Judge(d) \/ Check(d)
    BY <1>0, <2>1, <2>5 DEF Judge, Check, OfSearch, Others
  <2>6. CASE PlayRound(d) \/ EndTournament(d) \/ ClientStep(d) \/ CheckReturns(d)
             \/ CheckFails(d)
    BY <1>0, <2>6 DEF PlayRound, EndTournament, ClientStep, CheckReturns, CheckFails,
                      OfSearch, Others
  <2>7. CASE EndSearch(d)
    <3>1. PICK v \in BOOLEAN : verified' = [verified EXCEPT ![d] = v]
      BY <2>7 DEF EndSearch
    <3> QED BY <1>0, <2>0, <2>7, <3>1 DEF EndSearch, OfSearch
  <2>8. CASE Deliver(d) \/ Respond(d) \/ Raise(d) \/ RaiseAll(d)
    BY <1>0, <2>0, <2>8 DEF Deliver, Respond, Raise, RaiseAll, Gone, OfSearch
  <2> QED BY <1>4, <2>2, <2>3, <2>4, <2>5, <2>6, <2>7, <2>8 DEF Work
<1> QED BY <1>1, <1>2, <1>3, <1>4 DEF Next, Progress

(* Which actions leave the client alone, and what the others do with it.   *)
ClientAction(d) ==
  \/ Call(d) \/ ServerUp(d) \/ ServerFails(d) \/ SessionUp(d) \/ SessionFails(d)
  \/ Submit(d) \/ Answer(d)

LEMMA ClientSteps ==
  ASSUME [Next]_vars
  PROVE  \/ UNCHANGED isaVars
         \/ StartJob /\ Constructed
         \/ StartFails /\ NotConstructed
         \/ Crash
         \/ \E d \in Data :
              /\ ClientAction(d) /\ job = "running"
              /\ UNCHANGED <<opts, job, crashes, pc>>
              /\ Call(d) => pc[d] = "search"
<1>1. CASE UNCHANGED vars
  BY <1>1 DEF vars, searchVars, isaVars
<1>2. CASE StartJob \/ StartFails \/ EndBatch \/ Abort \/ WriteAnswers \/ NextIteration
           \/ Crash
  BY <1>2 DEF StartJob, StartFails, EndBatch, Abort, WriteAnswers, NextIteration,
              searchVars, isaVars
<1>3. ASSUME NEW d \in Data, Work(d)
      PROVE  \/ UNCHANGED isaVars
             \/ /\ ClientAction(d) /\ job = "running"
                /\ UNCHANGED <<opts, job, crashes, pc>>
                /\ Call(d) => pc[d] = "search"
  <2>1. CASE Skip(d) \/ Save(d)
    BY <2>1 DEF Skip, Save, searchVars, isaVars
  <2>2. CASE \/ Start(d) \/ Praise(d) \/ Judge(d) \/ PlayRound(d) \/ EndTournament(d)
             \/ EndSearch(d) \/ Deliver(d) \/ Respond(d) \/ Raise(d) \/ RaiseAll(d)
    BY <2>2 DEF Start, Praise, Judge, PlayRound, EndTournament, EndSearch, Deliver,
                Respond, Raise, RaiseAll
  <2>3. CASE Check(d)
    BY <2>3 DEF Check, Calls, AtWork, Others, ClientAction
  <2>4. CASE ClientStep(d) \/ CheckReturns(d) \/ CheckFails(d)
    <3>1. ~Call(d)
      BY <2>4 DEF ClientStep, CheckReturns, CheckFails, Starting, CheckRaises, Call,
                  ServerUp, SessionUp, Submit, Answer, ServerFails, SessionFails
    <3> QED BY <2>4, <3>1 DEF ClientStep, CheckReturns, CheckFails, Starting,
                              CheckRaises, Others, ClientAction
  <2> QED BY <1>3, <2>1, <2>2, <2>3, <2>4 DEF Work
<1> QED BY <1>1, <1>2, <1>3 DEF Next, Progress

LEMMA ClientTypes == Types /\ [Next]_vars => OfClient'
<1> SUFFICES ASSUME Types, [Next]_vars PROVE OfClient'
  OBVIOUS
<1>0. OfClient /\ Data \subseteq Task
  BY DataAreTasks DEF Types, OfJob
<1>1. CASE UNCHANGED isaVars
  BY <1>0, <1>1 DEF OfClient, isaVars
<1>2. CASE Constructed \/ NotConstructed
  BY <1>0, <1>2 DEF OfClient, Constructed, NotConstructed
<1>3. CASE Crash
  BY <1>0, <1>3 DEF OfClient, Crash, Each, Phase
<1>4. ASSUME NEW d \in Data, ClientAction(d)
      PROVE  OfClient'
  <2>1. d \in Task
    BY <1>0
  <2> QED BY <1>0, <1>4, <2>1
          DEF OfClient, ClientAction, Call, ServerUp, ServerFails, SessionUp,
              SessionFails, Submit, Answer, Move, Phase
<1> QED BY <1>1, <1>2, <1>3, <1>4, ClientSteps

(* The files.                                                              *)
LEMMA FileTypes == Types /\ [Next]_vars => OfFiles'
<1> SUFFICES ASSUME Types, [Next]_vars PROVE OfFiles'
  OBVIOUS
<1>0. /\ OfFiles /\ Data \subseteq Task
  BY DataAreTasks DEF Types, OfJob
<1>1. CASE UNCHANGED vars
  BY <1>0, <1>1 DEF OfFiles, vars, fileVars, Data
<1>2. CASE StartJob \/ StartFails \/ EndBatch \/ Abort
  BY <1>0, <1>2 DEF StartJob, StartFails, EndBatch, Abort, OfFiles, fileVars, Data
<1>3. CASE Crash
  BY <1>0, <1>3, SavedType DEF Crash, OfFiles, Data
<1>4. CASE WriteAnswers
  BY <1>0, <1>4 DEF WriteAnswers, OfFiles, Listed, Data
<1>5. CASE NextIteration
  BY <1>0, <1>5 DEF NextIteration, OfFiles, Each, Data
<1>6. ASSUME NEW d \in Data, Work(d)
      PROVE  OfFiles'
  <2>1. CASE \/ Skip(d) \/ Start(d) \/ Praise(d) \/ Judge(d) \/ PlayRound(d)
             \/ EndTournament(d) \/ Check(d) \/ ClientStep(d) \/ CheckReturns(d)
             \/ CheckFails(d) \/ EndSearch(d) \/ Deliver(d) \/ Respond(d)
    <3>1. UNCHANGED <<opts, fileVars>>
      BY <2>1 DEF Skip, Start, Praise, Judge, PlayRound, EndTournament, Check, ClientStep,
                  CheckReturns, CheckFails, EndSearch, Deliver, Respond, Others
    <3> QED BY <1>0, <3>1 DEF OfFiles, fileVars, Data
  <2>2. CASE Raise(d) \/ RaiseAll(d)
    BY <1>0, <2>2, SavedType DEF Raise, RaiseAll, OfFiles, Data
  <2>3. CASE Save(d)
    <3>1. trees' \in [Task -> Nat]
      BY <1>0, <2>3, SavedType DEF Save, OfFiles
    <3>2. opts.read \/ UNCHANGED file
      BY <2>3 DEF Save
    <3> QED BY <1>0, <2>3, <3>1, <3>2 DEF Save, OfFiles, Data
  <2> QED BY <1>6, <2>1, <2>2, <2>3 DEF Work
<1> QED BY <1>1, <1>2, <1>3, <1>4, <1>5, <1>6 DEF Next, Progress

-----------------------------------------------------------------------------
(* How many searches there are, and how many checks.                       *)

Counted == Cardinality(Busy) <= Places /\ Cardinality(Running) <= MaxWorkers

LEMMA Finite ==
  ASSUME Types
  PROVE  /\ IsFiniteSet(Busy) /\ Cardinality(Busy) \in Nat
         /\ IsFiniteSet(Running) /\ Cardinality(Running) \in Nat
<1>1. IsFiniteSet(Task) /\ Busy \subseteq Task /\ Running \subseteq Task
  BY DataAreTasks DEF Types, OfJob, Busy, Running
<1> QED BY <1>1, FS_Subset, FS_CardinalityType

LEMMA PlacesType ==
  ASSUME opts \in Setups
  PROVE  Places \in Nat \ {0} /\ (opts.async => Places = opts.concurrent)
BY Options, JobAssumption DEF Places

LEMMA BusyStays ==
  ASSUME Types, \/ StartJob \/ StartFails \/ EndBatch \/ Abort \/ WriteAnswers
                \/ NextIteration \/ Crash
  PROVE  Busy' \subseteq Busy
<1>0. OfJob /\ Data \subseteq Task
  BY DataAreTasks DEF Types, OfJob
<1>1. CASE StartFails \/ Abort \/ WriteAnswers \/ Crash
  BY <1>1 DEF StartFails, Abort, WriteAnswers, Crash, Busy, Data
<1>2. CASE StartJob
  BY <1>0, <1>2 DEF StartJob, Launch, Busy, Data
<1>3. CASE EndBatch \/ NextIteration
  BY <1>0, <1>3 DEF EndBatch, NextIteration, Busy, Data
<1> QED BY <1>1, <1>2, <1>3

(* Only Start lets another problem in, and it only does so if there is a   *)
(* place.                                                                  *)
LEMMA BusySteps ==
  ASSUME Types, [Next]_vars
  PROVE  \/ Busy' \subseteq Busy
         \/ \E d \in Data : Start(d) /\ Busy' = Busy \union {d}
<1>0. OfJob /\ Data \subseteq Task
  BY DataAreTasks DEF Types, OfJob
<1>1. CASE UNCHANGED vars
  BY <1>1 DEF vars, Busy, Data
<1>2. CASE StartJob \/ StartFails \/ EndBatch \/ Abort \/ WriteAnswers \/ NextIteration
           \/ Crash
  BY <1>2, BusyStays
<1>5. ASSUME NEW d \in Data, Work(d)
      PROVE  Busy' \subseteq Busy \/ (Start(d) /\ Busy' = Busy \union {d})
  <2>0. d \in Task
    BY <1>0
  <2>1. CASE Start(d)
    <3>1. pc' = [pc EXCEPT ![d] = "search"] /\ opts' = opts
      BY <2>1 DEF Start
    <3>2. Data' = Data
      BY <3>1 DEF Data
    <3>3. \A e \in Data : pc'[e] = IF e = d THEN "search" ELSE pc[e]
      BY <1>0, <3>1 DEF OfJob
    <3> QED BY <2>1, <3>2, <3>3, <1>5 DEF Busy
  <2>2. CASE \/ Praise(d) \/ Judge(d) \/ PlayRound(d) \/ EndTournament(d)
             \/ Check(d) \/ ClientStep(d) \/ CheckReturns(d) \/ CheckFails(d)
    BY <2>2 DEF Praise, Judge, PlayRound, EndTournament, Check, ClientStep,
                CheckReturns, CheckFails, Others, Busy, Data
  <2>3. CASE Skip(d) \/ EndSearch(d) \/ Save(d) \/ Deliver(d) \/ Respond(d) \/ Raise(d)
    <3>1. opts' = opts /\ \E p \in Place : pc' = [pc EXCEPT ![d] = p]
      BY <2>3 DEF Skip, EndSearch, Save, Deliver, Respond, Raise, Place
    <3>2. pc'[d] \in {"search", "found", "saved"} => d \in Busy
      BY <1>0, <2>0, <2>3, <1>5
         DEF Skip, EndSearch, Save, Deliver, Respond, Raise, AtWork, Busy, OfJob
    <3>3. \A e \in Data : e # d => pc'[e] = pc[e]
      BY <1>0, <3>1 DEF OfJob
    <3> QED BY <3>1, <3>2, <3>3 DEF Busy, Data
  <2>4. CASE RaiseAll(d)
    BY <1>0, <2>4 DEF RaiseAll, Busy, Data, OfJob
  <2> QED BY <1>5, <2>1, <2>2, <2>3, <2>4 DEF Work
<1> QED BY <1>1, <1>2, <1>5 DEF Next, Progress

LEMMA CountedStep == Types /\ Types' /\ Counted /\ [Next]_vars => Counted'
<1> SUFFICES ASSUME Types, Types', Counted, [Next]_vars PROVE Counted'
  OBVIOUS
<1>0. /\ OfJob /\ opts \in Setups /\ opts' = opts /\ Data \subseteq Task
      /\ IsFiniteSet(Busy) /\ Cardinality(Busy) \in Nat
      /\ IsFiniteSet(Running) /\ Cardinality(Running) \in Nat
  <2>1. opts' = opts
    BY DEF Next, Progress, vars, StartJob, StartFails, EndBatch, Abort, WriteAnswers,
           NextIteration, Crash, Work, Skip, Start, Praise, Judge, PlayRound,
           EndTournament, Check, ClientStep, CheckReturns, CheckFails, EndSearch, Save,
           Deliver, Respond, Raise, RaiseAll, Others
  <2> QED BY <2>1, Finite, DataAreTasks DEF Types, OfJob
<1>1. Places' = Places /\ Places \in Nat \ {0}
  BY <1>0, PlacesType DEF Places
<1>2. Cardinality(Busy') <= Places
  <2>1. CASE Busy' \subseteq Busy
    <3>1. Cardinality(Busy') \in Nat /\ Cardinality(Busy') <= Cardinality(Busy)
      BY <1>0, <2>1, FS_Subset, FS_CardinalityType
    <3> QED BY <1>0, <1>1, <3>1 DEF Counted
  <2>2. ASSUME NEW d \in Data, Start(d), Busy' = Busy \union {d}
        PROVE  Cardinality(Busy') <= Places
    <3>1. Cardinality(Busy') \in {Cardinality(Busy), Cardinality(Busy) + 1}
      BY <1>0, <2>2, FS_AddElement
    <3>2. CASE opts.async
      <4>1. Cardinality(Busy) < Places
        BY <1>0, <2>2, <3>2, PlacesType DEF Start, Free
      <4> QED BY <1>0, <1>1, <3>1, <4>1
    <3>3. CASE ~opts.async
      <4>1. Busy = {}
        BY <2>2, <3>3 DEF Start, Free, InTurn
      <4>2. Cardinality(Busy) = 0
        BY <4>1, FS_EmptySet
      <4> QED BY <1>1, <3>1, <4>2
    <3> QED BY <3>2, <3>3
  <2> QED BY <2>1, <2>2, BusySteps
<1>3. Cardinality(Running') <= MaxWorkers
  <2>0. MaxWorkers \in Nat \ {0} /\ phase \in [Task -> Phase]
    BY TaskAssumption DEF Types, OfClient
  <2>1. CASE Running' \subseteq Running
    <3>1. Cardinality(Running') \in Nat /\ Cardinality(Running') <= Cardinality(Running)
      BY <1>0, <2>1, FS_Subset, FS_CardinalityType
    <3> QED BY <1>0, <2>0, <3>1 DEF Counted
  <2>2. CASE UNCHANGED isaVars \/ Constructed \/ NotConstructed \/ Crash
    BY <2>1, <2>2 DEF isaVars, Constructed, NotConstructed, Crash, Each, Running
  <2>3. ASSUME NEW d \in Data, ClientAction(d), ~Submit(d)
        PROVE  Running' \subseteq Running
    <3>1. d \in Task
      BY <1>0
    <3> QED BY <2>0, <2>3, <3>1
            DEF ClientAction, Call, ServerUp, ServerFails, SessionUp, SessionFails, Answer,
                Move, Running
  <2>4. ASSUME NEW d \in Data, Submit(d)
        PROVE  Cardinality(Running') <= MaxWorkers
    <3>1. d \in Task
      BY <1>0
    <3>2. Running' = Running \union {d}
      BY <2>0, <2>4, <3>1 DEF Submit, Move, Running
    <3>3. Cardinality(Running') \in {Cardinality(Running), Cardinality(Running) + 1}
      BY <1>0, <3>2, FS_AddElement
    <3>4. Cardinality(Running) < MaxWorkers
      BY <2>4 DEF Submit
    <3> QED BY <1>0, <2>0, <3>3, <3>4
  <2> QED BY <2>1, <2>2, <2>3, <2>4, ClientSteps
<1> QED BY <1>1, <1>2, <1>3 DEF Counted

-----------------------------------------------------------------------------
(* A run keeps its types, and the searches and the checks that are under   *)
(* way at a time stay within the semaphores (within one, for the           *)
(* synchronous sampler), through failures, crashes and restarts.           *)

TypeInv == Types /\ Counted

LEMMA InitTypes == Init => TypeInv
<1> SUFFICES ASSUME Init PROVE TypeInv
  OBVIOUS
<1>0. opts \in Setups /\ Data \subseteq Task /\ opts.crashes \in Nat
      /\ 1 \in 1..opts.iterations /\ 0 \in 0..opts.crashes
  BY DataAreTasks, Options DEF Init
<1>1. OfJob
  <2>1. Each(Untouched) \in [Task -> Entry(1)]
    BY DEF Each, Untouched, Entry
  <2> QED BY <1>0, <2>1 DEF Init, OfJob, Each, Place
<1>2. OfSearch
  <2>1. Unpraised \in [ProofState -> Nat]
    BY DEF Unpraised
  <2>2. 0 \in 0..MaxEvaluations
    BY JobAssumption
  <2> QED BY <2>1, <2>2 DEF Init, OfSearch, Each, Forgotten
<1>3. OfClient
  BY DEF Init, IsaInit, OfClient, Phase
<1>4. OfFiles
  BY DEF Init, OfFiles, Each
<1>5. Busy = {} /\ Running = {}
  BY <1>0 DEF Init, IsaInit, Each, Busy, Running
<1>6. Counted
  <2>1. Cardinality(Busy) = 0 /\ Cardinality(Running) = 0
    BY <1>5, FS_EmptySet
  <2> QED BY <1>0, <2>1, PlacesType, TaskAssumption DEF Counted
<1> QED BY <1>1, <1>2, <1>3, <1>4, <1>6 DEF Types, TypeInv

LEMMA NextTypes == TypeInv /\ [Next]_vars => TypeInv'
BY JobTypes, SearchTypes, ClientTypes, FileTypes, CountedStep DEF Types, TypeInv

LEMMA Typed == Spec => []TypeInv
BY InitTypes, NextTypes, PTL DEF Spec

(* TypeOK: the semaphores of the sampler and of the client are kept, and   *)
(* what is stored about a problem is of the right kind.                    *)
THEOREM TypeCorrect == Spec => []TypeOK
<1>1. TypeInv => TypeOK
  BY DEF TypeInv, Types, OfJob, OfSearch, OfClient, OfFiles, Counted, TypeOK, IsaTypeOK,
         Place, Entry
<1> QED BY <1>1, Typed, PTL

-----------------------------------------------------------------------------
(* One search at a time.                                                   *)

LEMMA OneAtATime ==
  ASSUME TypeInv, Places = 1, NEW d \in Busy, NEW e \in Busy
  PROVE  d = e
<1> SUFFICES ASSUME d # e PROVE FALSE
  OBVIOUS
<1>1. IsFiniteSet({d}) /\ Cardinality({d}) = 1
  BY FS_Singleton
<1>2. Cardinality({d} \union {e}) = 2
  BY <1>1, FS_AddElement
<1>3. IsFiniteSet(Busy) /\ {d} \union {e} \subseteq Busy
  BY Finite DEF TypeInv
<1>4. Cardinality({d} \union {e}) <= Cardinality(Busy)
  BY <1>3, FS_Subset
<1> QED BY <1>2, <1>4, Finite DEF TypeInv, Counted

LEMMA OptsStay == [Next]_vars => opts' = opts
BY DEF Next, Progress, vars, StartJob, StartFails, EndBatch, Abort, WriteAnswers,
       NextIteration, Crash, Work, Skip, Start, Praise, Judge, PlayRound, EndTournament,
       Check, ClientStep, CheckReturns, CheckFails, EndSearch, Save, Deliver, Respond,
       Raise, RaiseAll, Others

(* With one place a problem is taken up when no other one is in work.      *)
LEMMA StartsAlone ==
  ASSUME TypeInv, Places = 1, NEW d \in Data, Free(d)
  PROVE  Busy = {}
<1>1. CASE opts.async
  <2>1. Cardinality(Busy) < 1
    BY <1>1, PlacesType DEF Free, TypeInv, Types, OfJob
  <2> QED BY <2>1, Finite, FS_EmptySet DEF TypeInv
<1>2. CASE ~opts.async
  BY <1>2 DEF Free, InTurn
<1> QED BY <1>1, <1>2

-----------------------------------------------------------------------------
(* The novelty tracker.                                                    *)

(* A state that was praised in the search that is under way is one the     *)
(* tracker has seen in this tree.  So it does not matter that the root may *)
(* have the id of an earlier one: the search begins with no praise, and    *)
(* what it praises is remembered under that id.                            *)
Remembers ==
  Places = 1 =>
    \A d \in Busy : \A s \in ProofState :
      praised[d][s] > 0 => tracker.root = root[d] /\ s \in tracker.seen

LEMMA PraiseOnce ==
  ASSUME TypeInv, Remembers, NovelOnce, NEW d \in Data, Praise(d)
  PROVE  Remembers' /\ NovelOnce'
<1>1. /\ opts' = opts /\ pc' = pc /\ root' = root
      /\ d \in Task /\ d \in Busy
      /\ root \in [Task -> RootId \union {NoRoot}]
      /\ praised \in [Task -> [ProofState -> Nat]]
      /\ tracker \in [seen : SUBSET ProofState, root : RootId \union {NoRoot}]
  BY DataAreTasks DEF Praise, Calls, AtWork, Others, Busy, TypeInv, Types, OfJob, OfSearch
<1>2. Places' = Places /\ Busy' = Busy
  BY <1>1 DEF Places, Busy, Data
<1> SUFFICES ASSUME Places = 1
             PROVE  Remembers' /\ NovelOnce'
  BY <1>2 DEF Remembers, NovelOnce
<1>3. PICK n \in 1..2 : \E ss \in [1..n -> ProofState] :
        LET new == {ss[i] : i \in Novel(tracker, root[d], ss)} IN
        /\ tracker' = Seen(tracker, root[d], ss)
        /\ praised' = [praised EXCEPT ![d] =
                         [s \in ProofState |-> IF s \in new THEN @[s] + 1 ELSE @[s]]]
  BY DEF Praise
<1>4. PICK ss \in [1..n -> ProofState] :
        LET new == {ss[i] : i \in Novel(tracker, root[d], ss)} IN
        /\ tracker' = Seen(tracker, root[d], ss)
        /\ praised' = [praised EXCEPT ![d] =
                         [s \in ProofState |-> IF s \in new THEN @[s] + 1 ELSE @[s]]]
  BY <1>3
<1> DEFINE new == {ss[i] : i \in Novel(tracker, root[d], ss)}
<1>5. /\ \A e \in Task \ {d} : praised'[e] = praised[e]
      /\ \A s \in ProofState :
           praised'[d][s] = IF s \in new THEN praised[d][s] + 1 ELSE praised[d][s]
  <2> HIDE DEF new
  <2>1. praised' = [praised EXCEPT ![d] =
                      [s \in ProofState |-> IF s \in new THEN praised[d][s] + 1
                                            ELSE praised[d][s]]]
    BY <1>4 DEF new
  <2> QED BY <1>1, <2>1
<1>6. new \subseteq ToSet(ss) /\ \A s \in new : s \notin ForTree(tracker, root[d]).seen
  BY DEF Novel, ToSet
<1>7. /\ tracker'.root = root[d]
      /\ tracker'.seen = ForTree(tracker, root[d]).seen \union ToSet(ss)
  BY <1>1, <1>4 DEF Seen, ForTree
<1>8. \A s \in ProofState :
        praised[d][s] > 0 => s \in ForTree(tracker, root[d]).seen
  BY <1>1 DEF Remembers, ForTree
<1>9. \A s \in new : s \in ProofState => praised[d][s] = 0
  <2> HIDE DEF new
  <2>1. \A s \in ProofState : praised[d][s] \in Nat
    BY <1>1
  <2> QED BY <1>6, <1>8, <2>1
<1> HIDE DEF new
<1>10. NovelOnce'
  <2>1. \A s \in ProofState : praised'[d][s] <= 1
    <3>1. \A s \in ProofState : praised[d][s] \in Nat /\ praised[d][s] <= 1
      BY <1>1 DEF NovelOnce
    <3> QED BY <1>5, <1>9, <3>1
  <2> QED BY <1>5, <2>1 DEF NovelOnce
<1>11. Remembers'
  <2>1. \A e \in Busy : e = d
    BY <1>1, OneAtATime
  <2>2. \A s \in ProofState : praised'[d][s] > 0 => s \in tracker'.seen
    BY <1>5, <1>6, <1>7, <1>8
  <2> QED BY <1>1, <1>2, <1>7, <2>1, <2>2 DEF Remembers
<1> QED BY <1>10, <1>11

LEMMA NovelStep ==
  TypeInv /\ TypeInv' /\ Remembers /\ NovelOnce /\ [Next]_vars => Remembers' /\ NovelOnce'
<1> SUFFICES ASSUME TypeInv, TypeInv', Remembers, NovelOnce, [Next]_vars
             PROVE  Remembers' /\ NovelOnce'
  OBVIOUS
<1>0. /\ opts' = opts /\ Places' = Places
      /\ Data \subseteq Task /\ Busy \subseteq Task
      /\ pc \in [Task -> Place]
      /\ root \in [Task -> RootId \union {NoRoot}]
      /\ praised \in [Task -> [ProofState -> Nat]]
  BY OptsStay, DataAreTasks DEF TypeInv, Types, OfJob, OfSearch, Places, Busy
<1>1. ASSUME UNCHANGED <<praised, tracker, root>>, Busy' \subseteq Busy
      PROVE  Remembers' /\ NovelOnce'
  BY <1>0, <1>1 DEF Remembers, NovelOnce
<1>2. ASSUME UNCHANGED praised, Busy' = {}
      PROVE  Remembers' /\ NovelOnce'
  BY <1>0, <1>2 DEF Remembers, NovelOnce
<1>3. CASE UNCHANGED vars
  <2>1. Busy' = Busy
    BY <1>3 DEF vars, Busy, Data
  <2> QED BY <1>1, <1>3, <2>1 DEF vars, searchVars
<1>4. CASE StartJob \/ StartFails \/ EndBatch \/ Abort \/ WriteAnswers \/ NextIteration
  <2>1. Busy' \subseteq Busy
    BY <1>4, BusyStays DEF TypeInv
  <2>2. UNCHANGED <<praised, tracker, root>>
    BY <1>4 DEF StartJob, StartFails, EndBatch, Abort, WriteAnswers, NextIteration,
                searchVars
  <2> QED BY <1>1, <2>1, <2>2
<1>5. CASE Crash
  <2>1. \A d \in Task : \A s \in ProofState : praised'[d][s] = 0
    BY <1>5 DEF Crash, Each, Unpraised
  <2>2. Busy' \subseteq Task
    BY <1>0 DEF Busy, Data
  <2> QED BY <2>1, <2>2 DEF Remembers, NovelOnce
<1>6. ASSUME NEW d \in Data, Work(d)
      PROVE  Remembers' /\ NovelOnce'
  <2>0. d \in Task
    BY <1>0
  <2>1. CASE Start(d)
    <3>1. praised' = [praised EXCEPT ![d] = Unpraised]
      BY <2>1 DEF Start
    <3>2. \A s \in ProofState : praised'[d][s] = 0
      BY <1>0, <2>0, <3>1 DEF Unpraised
    <3>3. \A e \in Task \ {d} : praised'[e] = praised[e]
      BY <1>0, <3>1
    <3>4. NovelOnce'
      BY <1>0, <3>2, <3>3 DEF NovelOnce
    <3>5. Places = 1 => Busy' \subseteq {d}
      <4>1. Places = 1 => Busy = {}
        BY <2>1, StartsAlone DEF Start
      <4>2. Busy' \subseteq Busy \union {d}
        BY <1>0, <2>0, <2>1 DEF Start, Busy, Data
      <4> QED BY <4>1, <4>2
    <3>6. Remembers'
      BY <1>0, <3>2, <3>5 DEF Remembers
    <3> QED BY <3>4, <3>6
  <2>2. CASE Praise(d)
    BY <2>2, PraiseOnce
  <2>3. CASE \/ Judge(d) \/ PlayRound(d) \/ EndTournament(d) \/ Check(d) \/ ClientStep(d)
             \/ CheckReturns(d) \/ CheckFails(d)
    <3>1. UNCHANGED <<opts, pc, praised, tracker, root>>
      BY <2>3 DEF Judge, PlayRound, EndTournament, Check, ClientStep, CheckReturns,
                  CheckFails, Others
    <3>2. Busy' = Busy
      BY <3>1 DEF Busy, Data
    <3> QED BY <1>1, <3>1, <3>2
  <2>4. CASE Skip(d) \/ EndSearch(d) \/ Save(d)
    <3>1. UNCHANGED <<praised, tracker, root>>
      BY <2>4 DEF Skip, EndSearch, Save, searchVars
    <3>2. Busy' \subseteq Busy
      BY <1>0, <2>0, <2>4 DEF Skip, EndSearch, AtWork, Save, Busy, Data
    <3> QED BY <1>1, <3>1, <3>2
  <2>5. CASE Deliver(d) \/ Respond(d) \/ Raise(d) \/ RaiseAll(d)
    <3>1. UNCHANGED praised
      BY <2>5 DEF Deliver, Respond, Raise, RaiseAll
    <3>2. d \in Busy
      BY <2>5, <1>6 DEF Deliver, Respond, Raise, RaiseAll, AtWork, Returns, Busy
    <3>3. Busy' \subseteq Busy \ {d}
      BY <1>0, <2>0, <2>5 DEF Deliver, Respond, Raise, RaiseAll, Busy, Data
    <3>4. Places = 1 => Busy' = {}
      BY <3>2, <3>3, OneAtATime
    <3> QED BY <1>0, <1>2, <3>1, <3>4 DEF Remembers, NovelOnce
  <2> QED BY <1>6, <2>1, <2>2, <2>3, <2>4, <2>5 DEF Work
<1> QED BY <1>3, <1>4, <1>5, <1>6 DEF Next, Progress

LEMMA InitNovel == Init => Remembers /\ NovelOnce
<1> SUFFICES ASSUME Init PROVE Remembers /\ NovelOnce
  OBVIOUS
<1>1. \A d \in Task : \A s \in ProofState : praised[d][s] = 0
  BY DEF Init, Each, Unpraised
<1>2. Busy \subseteq Task
  BY DataAreTasks DEF Init, Busy
<1> QED BY <1>1, <1>2 DEF Remembers, NovelOnce

(* NovelOnce: while one search runs at a time, _RMaxNoveltyTracker rewards *)
(* a state once in a search, whatever ids Python gives to the roots.       *)
THEOREM PraisedOnce == Spec => []NovelOnce
<1>1. TypeInv /\ Remembers /\ NovelOnce /\ TypeInv' /\ [Next]_vars => Remembers' /\ NovelOnce'
  BY NovelStep
<1> QED BY <1>1, InitNovel, Typed, PTL DEF Spec

-----------------------------------------------------------------------------
(* The client.                                                             *)

(* A task waits for the client only inside a search of the running job.    *)
Attended ==
  \A t \in Task : phase[t] # "idle" =>
    t \in Data /\ pc[t] = "search" /\ job = "running"

(* Before the first crash, and with one search at a time, who starts the   *)
(* server finds no client, who waits in the queue has one, and a server    *)
(* that nobody is connected to was left behind by a failed constructor or  *)
(* has said something that was not understood.                             *)
FirstStart ==
  Places = 1 /\ crashes = 0 =>
    /\ job # "crashed"
    /\ job = "off" => ~connected
    /\ ~connected /\ job # "aborted" => ~server \/ "line" \in broken
    /\ \A t \in Task : /\ phase[t] = "starting" => ~connected
                       /\ phase[t] \in {"queued", "session"} => connected
    /\ SerialStart

ClientInv == Attended /\ NoHalfStart /\ FirstStart

LEMMA AttendedStep == TypeInv /\ Attended /\ [Next]_vars => Attended'
<1> SUFFICES ASSUME TypeInv, Attended, [Next]_vars PROVE Attended'
  OBVIOUS
<1>0. /\ opts' = opts /\ Data' = Data /\ Data \subseteq Task
      /\ pc \in [Task -> Place] /\ phase \in [Task -> Phase]
  BY OptsStay, DataAreTasks DEF TypeInv, Types, OfJob, OfClient, Data
<1>1. CASE UNCHANGED vars
  BY <1>0, <1>1 DEF Attended, vars, searchVars, isaVars
<1>2. ASSUME \A t \in Task : phase[t] = "idle", UNCHANGED phase
      PROVE  Attended'
  BY <1>2 DEF Attended
<1>3. CASE StartJob \/ StartFails
  <2>1. \A t \in Task : phase[t] = "idle"
    BY <1>3 DEF StartJob, StartFails, Attended
  <2>2. UNCHANGED phase
    BY <1>3 DEF StartJob, StartFails, Constructed, NotConstructed, isaVars
  <2> QED BY <1>2, <2>1, <2>2
<1>4. CASE Crash
  BY <1>4 DEF Crash, Each, Attended
<1>5. CASE Abort \/ WriteAnswers \/ NextIteration
  <2>1. \A t \in Task : phase[t] = "idle"
    BY <1>5 DEF Abort, NothingLeft, WriteAnswers, NextIteration, Attended
  <2>2. UNCHANGED phase
    BY <1>5 DEF Abort, WriteAnswers, NextIteration, searchVars, isaVars
  <2> QED BY <1>2, <2>1, <2>2
<1>6. CASE EndBatch
  <2>1. UNCHANGED <<phase, job>>
    BY <1>6 DEF EndBatch, searchVars, isaVars
  <2>2. \A t \in Task : pc[t] = "search" => pc'[t] = "search"
    BY <1>6 DEF EndBatch
  <2> QED BY <1>0, <2>1, <2>2 DEF Attended
<1>7. ASSUME NEW d \in Data, Work(d)
      PROVE  Attended'
  <2>0. d \in Task
    BY <1>0
  <2>1. CASE \/ Praise(d) \/ Judge(d) \/ PlayRound(d) \/ EndTournament(d)
    BY <1>0, <2>1 DEF Praise, Judge, PlayRound, EndTournament, Others, isaVars, Attended
  <2>2. CASE Check(d) \/ ClientStep(d) \/ CheckReturns(d) \/ CheckFails(d)
    <3>1. UNCHANGED <<job, pc>> /\ job = "running"
      BY <2>2 DEF Check, ClientStep, CheckReturns, CheckFails, Calls, AtWork, Others
    <3>2. ClientAction(d)
      BY <2>2 DEF Check, ClientStep, CheckReturns, CheckFails, Starting, CheckRaises,
                  ClientAction
    <3>3. \A t \in Task \ {d} : phase'[t] = phase[t]
      BY <1>0, <3>2 DEF ClientAction, Call, ServerUp, ServerFails, SessionUp, SessionFails,
                        Submit, Answer, Move
    <3>4. pc[d] = "search"
      <4>1. CASE Check(d)
        BY <4>1 DEF Check, Calls, AtWork
      <4>2. CASE phase[d] # "idle"
        BY <2>0, <4>2 DEF Attended
      <4> QED BY <2>2, <4>1, <4>2
              DEF ClientStep, CheckReturns, CheckFails, Starting, CheckRaises, ServerUp,
                  ServerFails, SessionUp, SessionFails, Submit, Answer
    <3> QED BY <1>0, <1>7, <3>1, <3>3, <3>4 DEF Attended
  <2>3. CASE Skip(d) \/ Start(d) \/ Save(d) \/ Deliver(d) \/ Respond(d) \/ EndSearch(d)
             \/ Raise(d)
    <3>1. UNCHANGED <<phase, job>>
      BY <2>3 DEF Skip, Start, Save, Deliver, Respond, EndSearch, Raise, searchVars, isaVars
    <3>2. \A t \in Task \ {d} : pc'[t] = pc[t]
      BY <1>0, <2>3 DEF Skip, Start, Save, Deliver, Respond, EndSearch, Raise
    <3>3. phase[d] = "idle"
      <4>1. pc[d] # "search" \/ phase[d] = "idle"
        BY <2>3 DEF Skip, Start, Save, Deliver, Respond, Returns, EndSearch, Raise, AtWork
      <4> QED BY <2>0, <4>1 DEF Attended
    <3> QED BY <1>0, <3>1, <3>2, <3>3 DEF Attended
  <2>4. CASE RaiseAll(d)
    <3>1. Places = 1 /\ UNCHANGED phase
      BY <2>4 DEF RaiseAll, Places, isaVars
    <3>2. d \in Busy /\ (pc[d] # "search" \/ phase[d] = "idle")
      BY <2>4, <1>7 DEF RaiseAll, AtWork, Busy
    <3>3. \A t \in Task : phase[t] = "idle"
      <4> SUFFICES ASSUME NEW t \in Task, phase[t] # "idle" PROVE FALSE
        OBVIOUS
      <4>1. t \in Busy /\ pc[t] = "search"
        BY DEF Attended, Busy
      <4>2. t = d
        BY <3>1, <3>2, <4>1, OneAtATime
      <4> QED BY <3>2, <4>1, <4>2
    <3> QED BY <1>2, <3>1, <3>3
  <2> QED BY <1>7, <2>1, <2>2, <2>3, <2>4 DEF Work
<1> QED BY <1>1, <1>3, <1>4, <1>5, <1>6, <1>7 DEF Next, Progress

LEMMA NoHalfStartStep == TypeInv /\ NoHalfStart /\ [Next]_vars => NoHalfStart'
<1> SUFFICES ASSUME TypeInv, NoHalfStart, [Next]_vars PROVE NoHalfStart'
  OBVIOUS
<1>0. phase \in [Task -> Phase] /\ Data \subseteq Task
  BY DataAreTasks DEF TypeInv, Types, OfJob, OfClient
<1>1. CASE UNCHANGED isaVars \/ Constructed \/ NotConstructed
  BY <1>1 DEF isaVars, Constructed, NotConstructed, NoHalfStart
<1>2. CASE Crash
  BY <1>2 DEF Crash, NoHalfStart
<1>3. ASSUME NEW d \in Data, ClientAction(d)
      PROVE  NoHalfStart'
  <2>0. d \in Task
    BY <1>0
  <2>1. CASE ServerUp(d)
    BY <1>0, <2>0, <2>1 DEF ServerUp, Move, NoHalfStart
  <2>2. CASE SessionUp(d) \/ SessionFails(d)
    BY <2>2 DEF SessionUp, SessionFails, NoHalfStart
  <2>3. CASE Call(d) \/ ServerFails(d) \/ Submit(d) \/ Answer(d)
    <3>1. /\ phase[d] # "session" /\ UNCHANGED <<connected, session>>
          /\ "session" \in broken => "session" \in broken'
      BY <2>3 DEF Call, ServerFails, Submit, Answer
    <3>2. \A t \in Task \ {d} : phase'[t] = phase[t]
      BY <1>0, <2>3 DEF Call, ServerFails, Submit, Answer, Move
    <3> QED BY <3>1, <3>2 DEF NoHalfStart
  <2> QED BY <1>3, <2>1, <2>2, <2>3 DEF ClientAction
<1> QED BY <1>1, <1>2, <1>3, ClientSteps

LEMMA FirstStartStep ==
  TypeInv /\ TypeInv' /\ ClientInv /\ Attended' /\ [Next]_vars => FirstStart'
<1> SUFFICES ASSUME TypeInv, TypeInv', ClientInv, Attended', [Next]_vars,
                    Places' = 1, crashes' = 0
             PROVE  FirstStart'
  BY DEF FirstStart
<1>0. /\ opts' = opts /\ Places = 1 /\ Data \subseteq Task
      /\ phase \in [Task -> Phase] /\ crashes \in Nat
      /\ connected \in BOOLEAN /\ session \in BOOLEAN /\ server \in BOOLEAN
  BY OptsStay, DataAreTasks, Options DEF TypeInv, Types, OfJob, OfClient, Places
<1>1. ~Crash
  <2>1. crashes' # crashes + 1
    BY <1>0
  <2> QED BY <2>1 DEF Crash
<1>2. crashes = 0
  BY <1>1 DEF Next, Progress, vars, StartJob, StartFails, EndBatch, Abort, WriteAnswers,
         NextIteration, Work, Skip, Start, Praise, Judge, PlayRound, EndTournament,
         Check, ClientStep, CheckReturns, CheckFails, EndSearch, Save, Deliver, Respond,
         Raise, RaiseAll, Others
<1>3. /\ job # "crashed"
      /\ job = "off" => ~connected
      /\ ~connected /\ job # "aborted" => ~server \/ "line" \in broken
      /\ \A t \in Task : /\ phase[t] = "starting" => ~connected
                         /\ phase[t] \in {"queued", "session"} => connected
      /\ SerialStart
  BY <1>0, <1>2 DEF ClientInv, FirstStart
<1>4. job' # "crashed" /\ (job' = "off" => job = "off")
      /\ (job = "aborted" => job' = "aborted")
  BY <1>1, <1>3 DEF Next, Progress, vars, StartJob, StartFails, EndBatch, Abort,
         WriteAnswers, NextIteration, Work, Skip, Start, Praise, Judge, PlayRound,
         EndTournament, Check, ClientStep, CheckReturns, CheckFails, EndSearch, Save,
         Deliver, Respond, Raise, RaiseAll, Others, Calls, AtWork
<1>5. CASE UNCHANGED isaVars
  BY <1>3, <1>4, <1>5 DEF isaVars, FirstStart, SerialStart
<1>6. CASE StartJob /\ Constructed
  <2>1. job = "off" /\ job' = "running"
    BY <1>3, <1>6 DEF StartJob
  <2>2. \A t \in Task : phase[t] = "idle"
    BY <2>1 DEF ClientInv, Attended
  <2>3. ~server \/ "line" \in broken
    BY <1>3, <2>1
  <2> QED BY <1>6, <2>1, <2>2, <2>3 DEF Constructed, FirstStart, SerialStart
<1>7. CASE StartFails /\ NotConstructed
  BY <1>3, <1>7 DEF StartFails, NotConstructed, FirstStart, SerialStart
<1>8. ASSUME NEW d \in Data, ClientAction(d), job = "running",
             UNCHANGED <<opts, job, crashes, pc>>, Call(d) => pc[d] = "search"
      PROVE  FirstStart'
  <2>0. d \in Task
    BY <1>0
  <2>1. pc[d] = "search"
    BY <1>8, <2>0 DEF ClientAction, ServerUp, ServerFails, SessionUp, SessionFails,
                      Submit, Answer, ClientInv, Attended
  <2>2. \A t \in Task \ {d} : phase[t] = "idle"
    <3> SUFFICES ASSUME NEW t \in Task \ {d}, phase[t] # "idle" PROVE FALSE
      OBVIOUS
    <3>1. t \in Busy /\ d \in Busy
      BY <2>1, <1>8 DEF ClientInv, Attended, Busy
    <3> QED BY <1>0, <3>1, OneAtATime
  <2>3. \A t \in Task \ {d} : phase'[t] = "idle"
    BY <1>0, <1>8, <2>2 DEF ClientAction, Call, ServerUp, ServerFails, SessionUp,
                            SessionFails, Submit, Answer, Move
  <2>4. CASE Call(d)
    <3>1. phase'[d] = IF connected THEN "queued" ELSE "starting"
      BY <1>0, <2>0, <2>4 DEF Call, Move
    <3> QED BY <1>3, <1>8, <2>3, <2>4, <3>1 DEF Call, FirstStart, SerialStart
  <2>5. CASE ServerUp(d)
    <3>1. (~server \/ "line" \in broken) /\ phase'[d] = "session"
      BY <1>0, <1>3, <1>8, <2>0, <2>5 DEF ServerUp, Move
    <3> QED BY <1>3, <1>8, <2>3, <2>5, <3>1 DEF ServerUp, FirstStart, SerialStart
  <2>6. CASE SessionFails(d) \/ Answer(d)
    <3>1. phase'[d] = "idle"
      BY <1>0, <2>0, <2>6 DEF SessionFails, Answer, Move
    <3> QED BY <1>3, <1>8, <2>3, <2>6, <3>1
            DEF SessionFails, Answer, FirstStart, SerialStart
  <2>9. CASE ServerFails(d)
    <3>1. phase'[d] = "idle" /\ phase[d] = "starting" /\ connected' = connected
      BY <1>0, <2>0, <2>9 DEF ServerFails, Move
    <3>2. ~connected' /\ \A t \in Task : phase'[t] = "idle"
      BY <1>3, <2>0, <2>3, <3>1
    <3>3. ~server' \/ "line" \in broken'
      BY <1>3, <1>8, <2>9, <3>1, <3>2 DEF ServerFails
    <3> QED BY <1>4, <3>2, <3>3, <1>8 DEF FirstStart, SerialStart
  <2>7. CASE SessionUp(d)
    <3>1. phase'[d] = "queued" /\ phase[d] = "session"
      BY <1>0, <2>0, <2>7 DEF SessionUp, Move
    <3>2. connected
      BY <1>3, <2>0, <3>1
    <3> QED BY <1>3, <1>8, <2>3, <2>7, <3>1, <3>2 DEF SessionUp, FirstStart, SerialStart
  <2>8. CASE Submit(d)
    <3>1. phase'[d] = IF session THEN "running" ELSE "blind"
      BY <1>0, <2>0, <2>8 DEF Submit, Move
    <3>2. ~session => "session" \in broken
      <4>1. connected /\ \A t \in Task : phase[t] # "session"
        BY <1>3, <2>0, <2>2, <2>8 DEF Submit
      <4> QED BY <4>1 DEF ClientInv, NoHalfStart
    <3> QED BY <1>3, <1>8, <2>3, <2>8, <3>1, <3>2 DEF Submit, FirstStart, SerialStart
  <2> QED BY <1>8, <2>4, <2>5, <2>6, <2>7, <2>8, <2>9 DEF ClientAction
<1> QED BY <1>1, <1>5, <1>6, <1>7, <1>8, ClientSteps

LEMMA InitClient == Init => ClientInv
<1> SUFFICES ASSUME Init PROVE ClientInv
  OBVIOUS
<1>1. \A t \in Task : phase[t] = "idle"
  BY DEF Init, IsaInit
<1> QED BY <1>1 DEF Init, IsaInit, ClientInv, Attended, NoHalfStart, FirstStart, SerialStart

(* SessionBeforeCheck: AsyncIsabelleClient has a session, or is starting   *)
(* one, or has failed to; and as long as searches come one at a time no    *)
(* proof is sent without a session that could be had, and no server gets   *)
(* out of hand.                                                            *)
THEOREM ClientsStartUp == Spec => []SessionBeforeCheck
<1>1. TypeInv /\ TypeInv' /\ ClientInv /\ [Next]_vars => ClientInv'
  BY AttendedStep, NoHalfStartStep, FirstStartStep DEF ClientInv
<1>2. ClientInv => SessionBeforeCheck
  BY DEF ClientInv, FirstStart, SessionBeforeCheck
<1> QED BY <1>1, <1>2, InitClient, Typed, PTL DEF Spec

-----------------------------------------------------------------------------
(* The answers.                                                            *)

(* The places in which nothing has been done for a problem, and when there *)
(* can be tree files of it nevertheless.                                   *)
NothingSaved ==
  /\ job = "off" => crashes = 0 /\ \A d \in Task : trees[d] = 0
  /\ job = "crashed" => crashes > 0
  /\ opts.graphs = "output" /\ job = "running" /\ (iter > 1 \/ crashes = 0) =>
       \A d \in Data : pc[d] = "waiting" => trees[d] = 0

Unsolved ==
  iter = 1 => \A d \in Task : pc[d] = "waiting" => entry[d].output = 0

(* What EntriesAreFresh says of an entry of a report, here of one that may *)
(* still get into one.                                                     *)
Fresh(e, i) ==
  /\ e.output # i =>
       /\ e.skipped /\ opts.async /\ opts.skip
       /\ opts.graphs = "output" /\ opts.alike = "none" =>
            i = 1 /\ e.output = 0 /\ crashes > 0
  /\ ~Failed(e) => {e.true, e.stats} \subseteq {0, e.output}

Truthful ==
  \A d \in Task :
    ~Failed(entry[d]) => {entry[d].true, entry[d].stats} \subseteq {0, entry[d].output}

DoneIsFresh == \A d \in Data : pc[d] = "done" => Fresh(entry[d], iter)

AnswersInv ==
  NothingSaved /\ Unsolved /\ Truthful /\ DoneIsFresh /\ EntriesAreFresh

(* A result is of this iteration.                                          *)
LEMMA ResultIsFresh ==
  ASSUME OfJob, NEW d \in Task
  PROVE  Fresh(Result(d), iter)
<1>1. entry[d] \in Entry(iter)
  BY DEF OfJob
<1>2. /\ Result(d).output = iter /\ Result(d).stats = iter
      /\ Result(d).true \in {0, iter}
  BY <1>1 DEF Result, Entry
<1> QED BY <1>2 DEF Fresh

(* Crashes are only ever added.                                            *)
LEMMA CrashesGrow ==
  ASSUME TypeInv, [Next]_vars
  PROVE  crashes' = crashes \/ (Crash /\ crashes' = crashes + 1 /\ crashes' > 0)
<1>1. CASE Crash
  <2>1. crashes \in Nat
    BY Options DEF TypeInv, Types, OfJob
  <2> QED BY <1>1, <2>1 DEF Crash
<1>2. CASE ~Crash
  BY <1>2 DEF Next, Progress, vars, StartJob, StartFails, EndBatch, Abort, WriteAnswers,
         NextIteration, Work, Skip, Start, Praise, Judge, PlayRound, EndTournament,
         Check, ClientStep, CheckReturns, CheckFails, EndSearch, Save, Deliver, Respond,
         Raise, RaiseAll, Others
<1> QED BY <1>1, <1>2

LEMMA NothingSavedStep == TypeInv /\ NothingSaved /\ [Next]_vars => NothingSaved'
<1> SUFFICES ASSUME TypeInv, NothingSaved, [Next]_vars PROVE NothingSaved'
  OBVIOUS
<1>0. /\ opts' = opts /\ Data' = Data /\ Data \subseteq Task
      /\ pc \in [Task -> Place] /\ trees \in [Task -> Nat] /\ crashes \in Nat
      /\ iter \in 1..opts.iterations /\ opts.iterations \in Nat
  BY OptsStay, DataAreTasks, Options DEF TypeInv, Types, OfJob, OfFiles, Data
<1>1. ASSUME UNCHANGED <<job, iter, crashes, trees>>,
             \A d \in Data : pc'[d] = "waiting" => pc[d] = "waiting"
      PROVE  NothingSaved'
  BY <1>0, <1>1 DEF NothingSaved
<1>2. CASE UNCHANGED vars
  BY <1>1, <1>2 DEF vars, fileVars
<1>3. CASE StartJob
  <2>1. UNCHANGED <<crashes, trees>> /\ iter' = 1 /\ job' = "running"
    BY <1>3 DEF StartJob, Launch, fileVars
  <2>2. crashes = 0 => \A d \in Task : trees[d] = 0
    BY <1>0, <1>3 DEF StartJob, NothingSaved
  <2> QED BY <1>0, <2>1, <2>2 DEF NothingSaved
<1>4. CASE StartFails \/ Abort \/ WriteAnswers
  BY <1>4 DEF StartFails, Abort, WriteAnswers, NothingSaved
<1>5. CASE Crash
  <2>1. crashes' > 0
    BY <1>0, <1>5 DEF Crash
  <2> QED BY <1>5, <2>1 DEF Crash, NothingSaved
<1>6. CASE EndBatch
  <2>1. \A d \in Data : pc'[d] = "waiting" => pc[d] = "waiting"
    BY <1>0, <1>6 DEF EndBatch
  <2> QED BY <1>1, <1>6, <2>1 DEF EndBatch, fileVars
<1>7. CASE NextIteration
  <2>1. CASE iter = opts.iterations
    BY <1>7, <2>1 DEF NextIteration, NothingSaved
  <2>2. CASE iter # opts.iterations
    <3>1. opts.iterations > 1
      BY <1>0, <2>2
    <3>2. opts.graphs = "output" => trees' = Each(0)
      BY <1>7, <3>1 DEF NextIteration, MovesTrees
    <3> QED BY <1>0, <1>7, <2>2, <3>2 DEF NextIteration, Each, NothingSaved
  <2> QED BY <2>1, <2>2
<1>8. ASSUME NEW d \in Data, Work(d)
      PROVE  NothingSaved'
  <2>0. d \in Task
    BY <1>0
  <2>1. CASE Skip(d) \/ Start(d) \/ EndSearch(d) \/ Deliver(d) \/ Respond(d)
    <3>1. \A e \in Data : pc'[e] = "waiting" => pc[e] = "waiting"
      BY <1>0, <2>0, <2>1 DEF Skip, Start, EndSearch, Deliver, Respond
    <3> QED BY <1>1, <2>1, <3>1 DEF Skip, Start, EndSearch, Deliver, Respond, fileVars
  <2>2. CASE \/ Praise(d) \/ Judge(d) \/ PlayRound(d) \/ EndTournament(d)
             \/ Check(d) \/ ClientStep(d) \/ CheckReturns(d) \/ CheckFails(d)
    BY <1>1, <2>2 DEF Praise, Judge, PlayRound, EndTournament, Check, ClientStep,
                      CheckReturns, CheckFails, Others, fileVars
  <2>3. CASE Save(d) \/ Raise(d) \/ RaiseAll(d)
    <3>1. UNCHANGED <<job, iter, crashes>> /\ job = "running"
      BY <2>3 DEF Save, Raise, RaiseAll, AtWork
    <3>2. UNCHANGED trees \/ \E D : PartlySaved(D) /\ D \subseteq {e \in Data : pc[e] = "found"}
      BY <1>8, <2>3 DEF Save, Raise, RaiseAll, Saving
    <3>3. \A e \in Data : pc[e] = "waiting" => trees'[e] = trees[e]
      BY <1>0, <3>2 DEF PartlySaved
    <3>4. \A e \in Data : pc'[e] = "waiting" => pc[e] = "waiting"
      BY <1>0, <2>0, <2>3 DEF Save, Raise, RaiseAll
    <3> QED BY <1>0, <3>1, <3>3, <3>4 DEF NothingSaved
  <2> QED BY <1>8, <2>1, <2>2, <2>3 DEF Work
<1> QED BY <1>2, <1>3, <1>4, <1>5, <1>6, <1>7, <1>8 DEF Next, Progress

LEMMA EntriesStep ==
  TypeInv /\ AnswersInv /\ [Next]_vars => Unsolved' /\ Truthful' /\ DoneIsFresh'
<1> SUFFICES ASSUME TypeInv, AnswersInv, [Next]_vars
             PROVE  Unsolved' /\ Truthful' /\ DoneIsFresh'
  OBVIOUS
<1>0. /\ opts' = opts /\ Data' = Data /\ Data \subseteq Task
      /\ pc \in [Task -> Place] /\ entry \in [Task -> Entry(iter)]
      /\ iter \in 1..opts.iterations /\ opts.iterations \in Nat /\ crashes \in Nat
      /\ OfJob
  BY OptsStay, DataAreTasks, Options DEF TypeInv, Types, OfJob, Data
<1>a. Unsolved /\ Truthful /\ DoneIsFresh
  BY DEF AnswersInv
<1>1. ASSUME UNCHANGED <<iter, crashes, entry, pc>>
      PROVE  Unsolved' /\ Truthful' /\ DoneIsFresh'
  BY <1>0, <1>a, <1>1 DEF Unsolved, Truthful, DoneIsFresh, Fresh
<1>2. CASE UNCHANGED vars \/ StartFails \/ Abort \/ WriteAnswers
  BY <1>1, <1>2 DEF vars, StartFails, Abort, WriteAnswers
<1>3. CASE StartJob
  <2>1. \A d \in Task : entry'[d] = Untouched /\ pc'[d] # "done"
    BY <1>3 DEF StartJob, Launch, Each
  <2> QED BY <1>0, <2>1 DEF Unsolved, Truthful, DoneIsFresh, Untouched
<1>4. CASE Crash
  <2>1. crashes' > 0 /\ UNCHANGED <<iter, entry, pc>>
    BY <1>0, <1>4 DEF Crash
  <2> QED BY <1>0, <1>a, <2>1 DEF Unsolved, Truthful, DoneIsFresh, Fresh
<1>5. CASE NextIteration
  <2>1. CASE iter = opts.iterations
    BY <1>1, <1>5, <2>1 DEF NextIteration
  <2>2. CASE iter # opts.iterations
    <3>1. iter' # 1 /\ entry' = entry /\ \A d \in Task : pc'[d] # "done"
      BY <1>0, <1>5, <2>2 DEF NextIteration
    <3> QED BY <1>0, <1>a, <3>1 DEF Unsolved, Truthful, DoneIsFresh
  <2> QED BY <2>1, <2>2
<1>6. ASSUME NEW S \in SUBSET Task, UNCHANGED <<iter, crashes>>,
             \A e \in Task \ S : entry'[e] = entry[e] /\ pc'[e] = pc[e],
             \A e \in S : pc'[e] # "waiting" /\ Fresh(entry'[e], iter)
      PROVE  Unsolved' /\ Truthful' /\ DoneIsFresh'
  <2>1. Unsolved'
    BY <1>a, <1>6 DEF Unsolved
  <2>2. Truthful'
    BY <1>a, <1>6 DEF Truthful, Fresh
  <2>3. DoneIsFresh'
    BY <1>0, <1>a, <1>6 DEF DoneIsFresh, Fresh
  <2> QED BY <2>1, <2>2, <2>3
<1>7. CASE EndBatch
  <2> DEFINE S == {d \in Data : pc[d] = "answered"}
  <2>1. \A e \in S : pc'[e] = "done" /\ entry'[e] = Result(e)
    BY <1>0, <1>7 DEF EndBatch
  <2>2. \A e \in Task \ S : entry'[e] = entry[e] /\ pc'[e] = pc[e]
    BY <1>7 DEF EndBatch
  <2>3. S \subseteq Task /\ UNCHANGED <<iter, crashes>>
    BY <1>0, <1>7 DEF EndBatch
  <2> QED BY <1>0, <1>6, <2>1, <2>2, <2>3, ResultIsFresh
<1>8. ASSUME NEW d \in Data, Work(d)
      PROVE  Unsolved' /\ Truthful' /\ DoneIsFresh'
  <2>0. d \in Task /\ entry[d] \in Entry(iter)
    BY <1>0
  <2>1. CASE Skip(d)
    <3>1. /\ entry' = [entry EXCEPT ![d] = [entry[d] EXCEPT !.skipped = TRUE]]
          /\ pc' = [pc EXCEPT ![d] = "done"] /\ UNCHANGED <<iter, crashes>>
          /\ pc[d] = "waiting" /\ job = "running" /\ Skips(d)
      BY <2>1 DEF Skip
    <3>2. /\ entry'[d].output = entry[d].output /\ entry'[d].true = entry[d].true
          /\ entry'[d].stats = entry[d].stats /\ entry'[d].error = entry[d].error
          /\ entry'[d].skipped = TRUE
      BY <1>0, <2>0, <3>1 DEF Entry
    <3>3. opts.graphs = "output" /\ opts.alike = "none" =>
            iter = 1 /\ entry[d].output = 0 /\ crashes > 0
      <4> SUFFICES ASSUME opts.graphs = "output", opts.alike = "none"
                   PROVE  iter = 1 /\ entry[d].output = 0 /\ crashes > 0
        OBVIOUS
      <4>1. trees[d] > 0
        BY <3>1 DEF Skips, IsProcessed, Fits
      <4>2. ~(iter > 1 \/ crashes = 0)
        BY <3>1, <4>1, <1>8 DEF AnswersInv, NothingSaved
      <4>3. iter = 1 /\ crashes > 0
        BY <1>0, <4>2
      <4> QED BY <1>a, <2>0, <3>1, <4>3 DEF Unsolved
    <3>4. Fresh(entry'[d], iter)
      BY <1>a, <2>0, <3>1, <3>2, <3>3 DEF Fresh, Failed, Truthful, Skips
    <3>5. \A e \in Task \ {d} : entry'[e] = entry[e] /\ pc'[e] = pc[e]
      BY <1>0, <3>1
    <3>6. \A e \in {d} : pc'[e] # "waiting" /\ Fresh(entry'[e], iter)
      BY <1>0, <2>0, <3>1, <3>4
    <3>7. {d} \in SUBSET Task
      BY <2>0
    <3> QED BY <1>6, <3>1, <3>5, <3>6, <3>7
  <2>2. CASE Deliver(d)
    <3>1. \A e \in Task \ {d} : entry'[e] = entry[e] /\ pc'[e] = pc[e]
      BY <1>0, <2>2 DEF Deliver
    <3>2. pc'[d] = "done" /\ entry'[d] = Result(d) /\ UNCHANGED <<iter, crashes>>
      BY <1>0, <2>0, <2>2 DEF Deliver
    <3>3. {d} \in SUBSET Task /\ Fresh(entry'[d], iter)
      BY <1>0, <2>0, <3>2, ResultIsFresh
    <3> QED BY <1>6, <3>1, <3>2, <3>3
  <2>3. CASE Raise(d)
    <3>1. \A e \in Task \ {d} : entry'[e] = entry[e] /\ pc'[e] = pc[e]
      BY <1>0, <2>3 DEF Raise
    <3>2. pc'[d] = "done" /\ UNCHANGED <<iter, crashes>>
      BY <1>0, <2>0, <2>3 DEF Raise
    <3>3. entry'[d] = [entry[d] EXCEPT !.output = iter, !.error = iter]
      BY <1>0, <2>0, <2>3 DEF Raise
    <3>4. Fresh(entry'[d], iter)
      <4>1. entry'[d].output = iter /\ entry'[d].error = iter /\ iter > 0
        BY <1>0, <2>0, <3>3 DEF Entry
      <4> QED BY <4>1 DEF Fresh, Failed
    <3>5. {d} \in SUBSET Task
      BY <2>0
    <3> QED BY <1>6, <3>1, <3>2, <3>4, <3>5
  <2>4. CASE \/ Praise(d) \/ Judge(d) \/ PlayRound(d) \/ EndTournament(d)
             \/ Check(d) \/ ClientStep(d) \/ CheckReturns(d) \/ CheckFails(d)
    BY <1>1, <2>4 DEF Praise, Judge, PlayRound, EndTournament, Check, ClientStep,
                      CheckReturns, CheckFails, Others
  <2>5. CASE Start(d) \/ EndSearch(d) \/ Save(d) \/ Respond(d) \/ RaiseAll(d)
    <3>1. UNCHANGED <<iter, crashes, entry>>
      BY <2>5 DEF Start, EndSearch, Save, Respond, RaiseAll
    <3>2. \A e \in Task : pc'[e] = pc[e] \/ pc'[e] \notin {"waiting", "done"}
      BY <1>0, <2>0, <2>5 DEF Start, EndSearch, Save, Respond, RaiseAll
    <3> QED BY <1>0, <1>a, <3>1, <3>2 DEF Unsolved, Truthful, DoneIsFresh, Fresh
  <2> QED BY <1>8, <2>1, <2>2, <2>3, <2>4, <2>5 DEF Work
<1> QED BY <1>2, <1>3, <1>4, <1>5, <1>7, <1>8 DEF Next, Progress

LEMMA ReportStep == TypeInv /\ AnswersInv /\ [Next]_vars => EntriesAreFresh'
<1> SUFFICES ASSUME TypeInv, AnswersInv, [Next]_vars PROVE EntriesAreFresh'
  OBVIOUS
<1>0. opts' = opts /\ crashes \in Nat
  BY OptsStay, Options DEF TypeInv, Types, OfJob
<1>1. CASE WriteAnswers
  <2>1. /\ report' = [iter |-> iter, entry |-> [d \in Listed |-> entry[d]]]
        /\ crashes' = crashes
    BY <1>1 DEF WriteAnswers
  <2>2. /\ report'.iter = iter /\ DOMAIN report'.entry = Listed
        /\ \A d \in Listed : report'.entry[d] = entry[d]
    BY <2>1
  <2>3. \A d \in Listed : Fresh(entry[d], iter)
    BY DEF Listed, AnswersInv, DoneIsFresh
  <2> QED BY <1>0, <2>1, <2>2, <2>3 DEF Fresh, EntriesAreFresh
<1>2. CASE ~WriteAnswers
  <2>1. report' = report
    BY <1>2 DEF Next, Progress, vars, fileVars, StartJob, StartFails, EndBatch, Abort, Crash,
           NextIteration, Work, Skip, Start, Praise, Judge, PlayRound, EndTournament,
           Check, ClientStep, CheckReturns, CheckFails, EndSearch, Save, Deliver, Respond,
           Raise, RaiseAll, Others
  <2>2. crashes > 0 => crashes' > 0
    BY <1>0, CrashesGrow
  <2> QED BY <1>0, <2>1, <2>2 DEF AnswersInv, EntriesAreFresh
<1> QED BY <1>1, <1>2

LEMMA InitAnswers == Init => AnswersInv
<1> SUFFICES ASSUME Init PROVE AnswersInv
  OBVIOUS
<1>1. \A d \in Task : entry[d] = Untouched /\ pc[d] = "waiting" /\ trees[d] = 0
  BY DEF Init, Each
<1>2. Data \subseteq Task
  BY DataAreTasks DEF Init
<1>3. report.entry = <<>>
  BY DEF Init
<1>4. EntriesAreFresh
  BY <1>3 DEF EntriesAreFresh
<1> QED BY <1>1, <1>2, <1>4 DEF Init, AnswersInv, NothingSaved, Unsolved, Truthful,
                               DoneIsFresh, Untouched

(* EntriesAreFresh: an answers file of run_async_iterations holds outputs  *)
(* of its own iteration, and tells those apart that are older; what says   *)
(* checked_and_true says it of the output next to it.                      *)
THEOREM AnswersAreFresh == Spec => []EntriesAreFresh
<1>1. TypeInv /\ AnswersInv /\ [Next]_vars => AnswersInv'
  BY NothingSavedStep, EntriesStep, ReportStep DEF AnswersInv
<1>2. AnswersInv => EntriesAreFresh
  BY DEF AnswersInv
<1> QED BY <1>1, <1>2, InitAnswers, Typed, PTL DEF Spec

-----------------------------------------------------------------------------
(* Induction on a number, and what it says of the tree files.              *)

Smaller == {p \in Nat \X Nat : p[1] < p[2]}

LEMMA SetInduction ==
  ASSUME NEW S, 0 \in S, \A n \in Nat : n \in S => n + 1 \in S
  PROVE  \A n \in Nat : n \in S
<1> SUFFICES ASSUME NEW m \in Nat, m \notin S PROVE FALSE
  OBVIOUS
<1> DEFINE T == {n \in Nat : n \notin S}
<1>1. T \subseteq Nat /\ T # {}
  OBVIOUS
<1>2. IsWellFoundedOn(Smaller, Nat)
  BY NatLessThanWellFounded DEF Smaller, OpToRel
<1>3. PICK k \in T : \A n \in T : <<n, k>> \notin Smaller
  BY <1>1, <1>2, WFMin
<1>4. k \in Nat /\ k \notin S /\ k # 0
  OBVIOUS
<1>5. k - 1 \in Nat /\ (k - 1) + 1 = k /\ <<k - 1, k>> \in Smaller
  BY <1>4 DEF Smaller
<1>6. k - 1 \in S
  BY <1>3, <1>5
<1> QED BY <1>4, <1>5, <1>6

(* The number of files up to a problem is the number up to the one before, *)
(* and its own.                                                            *)
LEMMA FilesUpToIs ==
  ASSUME NEW files \in [Task -> Nat]
  PROVE  /\ FilesUpTo(files)[0] = 0
         /\ \A n \in Nat : n + 1 <= DataSize =>
              FilesUpTo(files)[n + 1] = FilesUpTo(files)[n] + files[n + 1]
<1> DEFINE Walk(g, n) == g = [d \in 0..n |-> IF d = 0 THEN 0 ELSE g[d - 1] + files[d]]
           S == {n \in Nat : \E g : Walk(g, n)}
<1>1. 0 \in S
  <2>1. Walk([d \in 0..0 |-> 0], 0)
    OBVIOUS
  <2> QED BY <2>1
<1>2. ASSUME NEW n \in Nat, n \in S PROVE n + 1 \in S
  <2>1. PICK g : Walk(g, n)
    BY <1>2
  <2> DEFINE h == [d \in 0..(n + 1) |-> IF d <= n THEN g[d] ELSE g[n] + files[n + 1]]
  <2>2. \A d \in 0..(n + 1) : h[d] = IF d = 0 THEN 0 ELSE h[d - 1] + files[d]
    BY <2>1
  <2>3. Walk(h, n + 1)
    BY <2>2
  <2> HIDE DEF Walk, h
  <2>4. \E g2 : Walk(g2, n + 1)
    BY <2>3
  <2> QED BY <2>4
<1>3. \E g : Walk(g, DataSize)
  <2> HIDE DEF S
  <2>1. DataSize \in S
    BY <1>1, <1>2, SetInduction, JobAssumption
  <2> QED BY <2>1 DEF S
<1>4. FilesUpTo(files) = CHOOSE g : Walk(g, DataSize)
  BY DEF FilesUpTo
<1>5. Walk(FilesUpTo(files), DataSize)
  <2> HIDE DEF Walk
  <2> QED BY <1>3, <1>4
<1>6. \A n \in Nat : n + 1 <= DataSize =>
        n + 1 \in 0..DataSize /\ n + 1 # 0 /\ (n + 1) - 1 = n
  BY JobAssumption
<1>7. 0 \in 0..DataSize
  BY JobAssumption
<1> HIDE DEF S
<1> QED BY <1>5, <1>6, <1>7

(* The files of the first problems are counted, and there are none if none *)
(* of the problems has any.                                                *)
LEMMA FilesCount ==
  ASSUME NEW files \in [Task -> Nat], NEW n \in 0..DataSize
  PROVE  /\ FilesUpTo(files)[n] \in Nat
         /\ files = Each(0) => FilesUpTo(files)[n] = 0
<1> DEFINE S == {k \in Nat : k <= DataSize =>
                   /\ FilesUpTo(files)[k] \in Nat
                   /\ files = Each(0) => FilesUpTo(files)[k] = 0}
<1>1. 0 \in S
  BY FilesUpToIs
<1>2. ASSUME NEW k \in Nat, k \in S PROVE k + 1 \in S
  <2> SUFFICES ASSUME k + 1 <= DataSize
               PROVE  /\ FilesUpTo(files)[k + 1] \in Nat
                      /\ files = Each(0) => FilesUpTo(files)[k + 1] = 0
    BY <1>2
  <2>1. k + 1 \in Task /\ k <= DataSize
    BY JobAssumption
  <2>2. FilesUpTo(files)[k + 1] = FilesUpTo(files)[k] + files[k + 1]
    BY FilesUpToIs
  <2>3. files[k + 1] \in Nat /\ (files = Each(0) => files[k + 1] = 0)
    BY <2>1 DEF Each
  <2> QED BY <1>2, <2>1, <2>2, <2>3
<1>3. \A k \in Nat : k \in S
  <2> HIDE DEF S
  <2> QED BY <1>1, <1>2, SetInduction
<1> QED BY <1>3, JobAssumption

(* One more file counts once.                                              *)
LEMMA OneMoreFile ==
  ASSUME NEW files \in [Task -> Nat], NEW more \in [Task -> Nat], NEW d \in Task,
         \A e \in Task : more[e] = IF e = d THEN files[e] + 1 ELSE files[e],
         NEW n \in 0..DataSize
  PROVE  FilesUpTo(more)[n] = FilesUpTo(files)[n] + IF d <= n THEN 1 ELSE 0
<1> DEFINE S == {k \in Nat : k <= DataSize =>
                   FilesUpTo(more)[k] = FilesUpTo(files)[k] + IF d <= k THEN 1 ELSE 0}
<1>0. d \in Nat /\ d >= 1
  BY JobAssumption
<1>1. 0 \in S
  BY <1>0, FilesUpToIs
<1>2. ASSUME NEW k \in Nat, k \in S PROVE k + 1 \in S
  <2> SUFFICES ASSUME k + 1 <= DataSize
               PROVE  FilesUpTo(more)[k + 1] =
                        FilesUpTo(files)[k + 1] + IF d <= k + 1 THEN 1 ELSE 0
    BY <1>2
  <2>1. k + 1 \in Task /\ k <= DataSize /\ k \in 0..DataSize
    BY JobAssumption
  <2>2. /\ FilesUpTo(more)[k + 1] = FilesUpTo(more)[k] + more[k + 1]
        /\ FilesUpTo(files)[k + 1] = FilesUpTo(files)[k] + files[k + 1]
    BY FilesUpToIs
  <2>3. /\ more[k + 1] = IF k + 1 = d THEN files[k + 1] + 1 ELSE files[k + 1]
        /\ files[k + 1] \in Nat
    BY <2>1
  <2>4. FilesUpTo(more)[k] = FilesUpTo(files)[k] + IF d <= k THEN 1 ELSE 0
    BY <1>2, <2>1
  <2>5. FilesUpTo(files)[k] \in Nat
    BY <2>1, FilesCount
  <2> QED BY <1>0, <2>2, <2>3, <2>4, <2>5
<1>3. \A k \in Nat : k \in S
  <2> HIDE DEF S
  <2> QED BY <1>1, <1>2, SetInduction
<1> QED BY <1>3, JobAssumption

-----------------------------------------------------------------------------
(* The work.                                                               *)

(* A problem with a tree, one that has left a trace, and one with a new    *)
(* output.                                                                 *)
Kept(d)     == trees[d] > 0 \/ d \in moved
HasTrace(d) == Kept(d) \/ d \in raised
IsNew(d)    == entry[d].output = iter /\ ~Failed(entry[d])

(* An error of this iteration is the end of it for the problem.            *)
ErrorsAreOld == \A d \in Task : entry[d].error = iter => pc[d] = "done"

LEMMA ErrorsStep == TypeInv /\ ErrorsAreOld /\ [Next]_vars => ErrorsAreOld'
<1> SUFFICES ASSUME TypeInv, ErrorsAreOld, [Next]_vars PROVE ErrorsAreOld'
  OBVIOUS
<1>0. /\ Data \subseteq Task /\ iter \in Nat /\ iter > 0
      /\ pc \in [Task -> Place] /\ entry \in [Task -> Entry(iter)] /\ OfJob
  BY DataAreTasks DEF TypeInv, Types, OfJob
<1>1. CASE UNCHANGED <<iter, entry, pc>>
  BY <1>1 DEF ErrorsAreOld
<1>2. CASE UNCHANGED vars \/ StartFails \/ Crash \/ Abort \/ WriteAnswers
  BY <1>1, <1>2 DEF vars, StartFails, Crash, Abort, WriteAnswers
<1>3. CASE StartJob
  <2>1. iter' = 1 /\ \A d \in Task : entry'[d].error = 0
    BY <1>3 DEF StartJob, Launch, Each, Untouched
  <2> QED BY <2>1 DEF ErrorsAreOld
<1>4. CASE NextIteration
  <2>1. CASE iter = opts.iterations
    BY <1>1, <1>4, <2>1 DEF NextIteration
  <2>2. CASE iter # opts.iterations
    <3>1. iter' = iter + 1 /\ entry' = entry
      BY <1>4, <2>2 DEF NextIteration
    <3>2. \A d \in Task : entry[d].error <= iter /\ entry[d].error \in Nat
      BY <1>0 DEF Entry
    <3> QED BY <1>0, <3>1, <3>2 DEF ErrorsAreOld
  <2> QED BY <2>1, <2>2
<1>5. ASSUME NEW d \in Task PROVE Result(d).error = entry[d].error
  BY <1>0, <1>5 DEF Result, Entry
<1>6. CASE EndBatch
  <2>1. UNCHANGED iter /\ \A d \in Task : entry'[d] \in {entry[d], Result(d)}
                                        /\ pc'[d] \in {pc[d], "done"}
    BY <1>0, <1>6 DEF EndBatch
  <2> QED BY <1>5, <2>1 DEF ErrorsAreOld
<1>7. ASSUME NEW d \in Data, Work(d)
      PROVE  ErrorsAreOld'
  <2>0. d \in Task
    BY <1>0
  <2>1. CASE Skip(d) \/ Deliver(d) \/ Raise(d)
    <3>1. /\ UNCHANGED iter /\ pc'[d] = "done"
          /\ \A e \in Task \ {d} : entry'[e] = entry[e] /\ pc'[e] = pc[e]
      BY <1>0, <2>0, <2>1 DEF Skip, Deliver, Raise
    <3> QED BY <3>1 DEF ErrorsAreOld
  <2>2. CASE \/ Praise(d) \/ Judge(d) \/ PlayRound(d) \/ EndTournament(d)
             \/ Check(d) \/ ClientStep(d) \/ CheckReturns(d) \/ CheckFails(d)
    BY <1>1, <2>2 DEF Praise, Judge, PlayRound, EndTournament, Check, ClientStep,
                      CheckReturns, CheckFails, Others
  <2>3. CASE Start(d) \/ EndSearch(d) \/ Save(d) \/ Respond(d) \/ RaiseAll(d)
    <3>1. /\ UNCHANGED <<iter, entry>>
          /\ \A e \in Task : pc[e] = "done" => pc'[e] = "done"
      BY <1>0, <2>0, <2>3
         DEF Start, EndSearch, AtWork, Save, Respond, Returns, RaiseAll
    <3> QED BY <3>1 DEF ErrorsAreOld
  <2> QED BY <1>7, <2>1, <2>2, <2>3 DEF Work
<1> QED BY <1>2, <1>3, <1>4, <1>6, <1>7 DEF Next, Progress

(* With --continue-from-prev the synchronous sampler relies on its order:  *)
(* the problems that as many files stand for, and those that it is done    *)
(* with, have a tree; those before the one at work are none that it has    *)
(* yet to do, and the files do not reach up to it.                         *)
Undone == {"waiting", "search", "found"}
Treed  == {"saved", "answered", "done", "dropped"}

Prefix ==
  /\ \A d \in Data : d <= TreeFiles \/ pc[d] \in Treed => Kept(d)
  /\ job = "running" => \A d \in Data : pc[d] \in Undone =>
       /\ TreeFiles < d
       /\ \A e \in Data : e < d => pc[e] # "lost" /\ (pc[e] \in Undone => pc[d] = "waiting")
  /\ job \in {"written", "ended"} => \A d \in Data : pc[d] \in {"done", "lost", "dropped"}

Resumes == opts.resume /\ ~opts.async /\ opts.graphs = "output" /\ opts.alike = "none"

LEMMA TreeFilesType ==
  ASSUME Types
  PROVE  /\ TreeFiles \in Nat
         /\ opts' = opts /\ trees' = trees => TreeFiles' = TreeFiles
<1>1. trees \in [Task -> Nat] /\ opts.size \in 0..DataSize
  BY Options, JobAssumption DEF Types, OfJob, OfFiles
<1>2. FilesUpTo(trees)[opts.size] \in Nat
  BY <1>1, FilesCount
<1> QED BY <1>2 DEF TreeFiles

(* Saving the tree of the problem at work, or a part of it.                *)
LEMMA SavedInOrder ==
  ASSUME Types, Prefix, job = "running", opts.graphs = "output", opts' = opts,
         NEW d \in Data, pc[d] = "found", moved' = moved, PartlySaved({d})
  PROVE  \A e \in Data :
           /\ e <= TreeFiles' \/ pc[e] \in Treed \/ e = d => Kept(e)'
           /\ pc[e] = "waiting" /\ e > d => TreeFiles' < e
<1>1. /\ trees \in [Task -> Nat] /\ opts.size \in 0..DataSize /\ Data = 1..opts.size
      /\ Data \subseteq Task /\ d \in Task
  BY Options, DataAreTasks, JobAssumption DEF Types, OfJob, OfFiles, Data
<1>2. trees' \in [Task -> Nat] /\ \A e \in Task :
        trees'[e] = IF e = d THEN trees[e] + 1 ELSE trees[e]
  BY <1>1 DEF PartlySaved
<1>3. TreeFiles \in Nat /\ TreeFiles' = TreeFiles + 1
  <2>1. FilesUpTo(trees')[opts.size] =
          FilesUpTo(trees)[opts.size] + IF d <= opts.size THEN 1 ELSE 0
    BY <1>1, <1>2, OneMoreFile
  <2>2. d <= opts.size
    BY <1>1
  <2> QED BY <2>1, <2>2, TreeFilesType DEF TreeFiles
<1>4. d \in Nat /\ TreeFiles < d
  BY <1>1 DEF Prefix, Undone
<1>5. \A e \in Data : Kept(e) => Kept(e)'
  BY <1>1, <1>2 DEF Kept
<1>6. Kept(d)'
  BY <1>1, <1>2 DEF Kept
<1>7. ASSUME NEW e \in Data, e < d PROVE Kept(e)'
  <2>1. pc[e] # "lost" /\ pc[e] \notin Undone
    BY <1>7 DEF Prefix, Undone
  <2>2. pc[e] \in Treed
    <3>1. pc[e] \in Place
      BY <1>1 DEF Types, OfJob
    <3> QED BY <2>1, <3>1 DEF Undone, Treed, Place
  <2> QED BY <1>5, <2>2 DEF Prefix
<1>8. \A e \in Data : e \in Nat
  BY <1>1
<1>9. ASSUME NEW e \in Data, e <= TreeFiles' PROVE Kept(e)'
  BY <1>3, <1>4, <1>6, <1>7, <1>8, <1>9
<1>10. \A e \in Data : pc[e] \in Treed => Kept(e)'
  BY <1>5 DEF Prefix
<1>11. \A e \in Data : e > d => TreeFiles' < e
  BY <1>3, <1>4, <1>8
<1> QED BY <1>6, <1>9, <1>10, <1>11

LEMMA PrefixStep == TypeInv /\ (Resumes => Prefix) /\ [Next]_vars => (Resumes => Prefix)'
<1> SUFFICES ASSUME TypeInv, [Next]_vars, Prefix, Resumes PROVE Prefix'
  BY OptsStay DEF Resumes
<1>0. /\ opts' = opts /\ Data' = Data /\ Data \subseteq Task /\ Data = 1..opts.size
      /\ pc \in [Task -> Place] /\ trees \in [Task -> Nat] /\ Types
      /\ \A d \in Data : d \in Nat
  BY OptsStay, DataAreTasks DEF TypeInv, Types, OfJob, OfFiles, Data
<1>a. /\ opts.resume /\ ~opts.async /\ opts.graphs = "output" /\ opts.alike = "none"
  BY DEF Resumes
<1>b. TreeFiles \in Nat /\ (trees' = trees => TreeFiles' = TreeFiles)
  BY <1>0, TreeFilesType
<1>c. /\ \A d \in Data : d <= TreeFiles \/ pc[d] \in Treed => Kept(d)
      /\ job = "running" => \A d \in Data : pc[d] \in Undone =>
           /\ TreeFiles < d
           /\ \A e \in Data : e < d => pc[e] # "lost" /\ (pc[e] \in Undone => pc[d] = "waiting")
      /\ job \in {"written", "ended"} => \A d \in Data : pc[d] \in {"done", "lost", "dropped"}
  BY DEF Prefix
<1> DEFINE Same == \A d \in Data :
             /\ pc[d] \in Undone <=> pc'[d] \in Undone
             /\ pc[d] \in Treed <=> pc'[d] \in Treed
             /\ pc[d] = "waiting" <=> pc'[d] = "waiting"
             /\ pc[d] = "lost" <=> pc'[d] = "lost"
(* Nothing that matters to the order has changed.                          *)
<1>1. ASSUME UNCHANGED <<moved, trees>>, Same,
             \/ job' = job /\ (pc' = pc \/ job = "running")
             \/ job' \notin {"running", "written", "ended"}
      PROVE  Prefix'
  BY <1>0, <1>b, <1>c, <1>1 DEF Prefix, Kept
<1>2. CASE UNCHANGED vars \/ StartFails \/ Abort
  BY <1>1, <1>2 DEF vars, StartFails, Abort, fileVars
<1>3. CASE StartJob
  <2>1. /\ UNCHANGED <<moved, trees>> /\ job' = "running" /\ Dropped = TreeFiles
        /\ \A d \in Data : pc'[d] = IF d <= TreeFiles THEN "dropped" ELSE "waiting"
    BY <1>0, <1>3, <1>a DEF StartJob, Launch, Dropped, fileVars
  <2> QED BY <1>0, <1>b, <1>c, <2>1 DEF Prefix, Kept, Undone, Treed
<1>4. ASSUME NEW D, D \subseteq Saving, PartlySaved(D), moved' = moved, job = "running"
      PROVE  \A e \in Data : e <= TreeFiles' \/ pc[e] \in Treed => Kept(e)'
  <2>1. CASE D = {}
    <3>1. trees' = trees
      BY <1>0, <1>4, <2>1 DEF PartlySaved
    <3> QED BY <1>0, <1>b, <1>c, <1>4, <3>1 DEF Kept
  <2>2. ASSUME NEW d \in D PROVE D = {d} /\ d \in Data /\ pc[d] = "found"
    <3>1. \A e \in D : e \in Data /\ pc[e] = "found"
      BY <1>4 DEF Saving
    <3>2. \A e \in D : ~(e < d) /\ ~(d < e)
      BY <1>c, <1>4, <2>2, <3>1 DEF Undone
    <3>3. \A e \in D : e = d
      BY <1>0, <2>2, <3>1, <3>2
    <3> QED BY <2>2, <3>1, <3>3
  <2> QED BY <1>0, <1>a, <1>4, <2>1, <2>2, SavedInOrder
<1>5. CASE Crash
  <2>1. job' = "crashed" /\ UNCHANGED <<pc, moved>> /\ job \in {"running", "written"}
    BY <1>5 DEF Crash
  <2>2. PICK D \in SUBSET Saving : PartlySaved(D)
    BY <1>5 DEF Crash
  <2>3. CASE job = "running"
    BY <1>0, <1>4, <2>1, <2>2, <2>3 DEF Prefix
  <2>4. CASE job = "written"
    <3>1. D = {}
      BY <1>c, <2>4 DEF Saving
    <3>2. trees' = trees
      BY <1>0, <2>2, <3>1 DEF PartlySaved
    <3> QED BY <1>1, <2>1, <3>2
  <2> QED BY <2>1, <2>3, <2>4
<1>6. CASE WriteAnswers
  <2>1. /\ UNCHANGED <<pc, moved, trees>> /\ job' = "written"
        /\ \A d \in Data : pc[d] \in {"done", "lost", "dropped"}
    BY <1>6 DEF WriteAnswers
  <2> QED BY <1>0, <1>b, <1>c, <2>1 DEF Prefix, Kept
<1>7. CASE NextIteration
  <2>1. \A d \in Data : Kept(d) => Kept(d)'
    BY <1>0, <1>7 DEF NextIteration, Kept
  <2>2. job = "written" /\ \A d \in Data : pc[d] \in {"done", "lost", "dropped"}
    BY <1>7, <1>c DEF NextIteration
  <2>3. /\ MovesTrees => trees' = Each(0)
        /\ ~MovesTrees => trees' = trees
    BY <1>7 DEF NextIteration
  <2>4. TreeFiles' = 0 \/ TreeFiles' = TreeFiles
    <3>1. CASE MovesTrees
      <4>1. Each(0) \in [Task -> Nat] /\ opts.size \in 0..DataSize
        BY <1>0, Options, JobAssumption DEF Each, Types, OfJob
      <4>2. FilesUpTo(Each(0))[opts.size] = 0
        BY <4>1, FilesCount
      <4> QED BY <1>0, <2>3, <3>1, <4>2 DEF TreeFiles
    <3> QED BY <1>b, <2>3, <3>1
  <2>5. \A d \in Data : d <= TreeFiles' => Kept(d)'
    BY <1>0, <1>b, <1>c, <2>1, <2>4
  <2>6. CASE iter = opts.iterations
    BY <1>0, <1>7, <1>c, <2>1, <2>2, <2>5, <2>6 DEF NextIteration, Prefix
  <2>7. CASE iter # opts.iterations
    <3>1. MovesTrees
      <4>1. iter \in 1..opts.iterations /\ opts.iterations \in Nat
        BY <1>0, Options DEF Types, OfJob
      <4> QED BY <1>a, <2>7, <4>1 DEF MovesTrees
    <3>2. TreeFiles' = 0
      <4>1. Each(0) \in [Task -> Nat] /\ opts.size \in 0..DataSize
        BY <1>0, Options, JobAssumption DEF Each, Types, OfJob
      <4>2. FilesUpTo(Each(0))[opts.size] = 0
        BY <4>1, FilesCount
      <4> QED BY <1>0, <2>3, <3>1, <4>2 DEF TreeFiles
    <3>3. /\ job' = "running"
          /\ \A d \in Data : pc'[d] = IF pc[d] = "dropped" THEN "dropped" ELSE "waiting"
      BY <1>0, <1>7, <2>7 DEF NextIteration
    <3>4. \A d \in Data : 0 < d
      BY <1>0
    <3> QED BY <1>0, <1>c, <2>1, <2>5, <3>2, <3>3, <3>4 DEF Prefix, Undone, Treed
  <2> QED BY <2>6, <2>7
<1>8. CASE EndBatch
  <2>1. /\ UNCHANGED <<job, moved, trees>> /\ job = "running"
        /\ \A d \in Data : pc'[d] = IF pc[d] = "answered" THEN "done" ELSE pc[d]
    BY <1>0, <1>8 DEF EndBatch, fileVars
  <2>2. Same
    BY <2>1 DEF Undone, Treed
  <2> QED BY <1>1, <2>1, <2>2
<1>9. ASSUME NEW d \in Data, Work(d) PROVE Prefix'
  <2>0. d \in Task
    BY <1>0
  <2>1. CASE \/ Praise(d) \/ Judge(d) \/ PlayRound(d) \/ EndTournament(d)
             \/ Check(d) \/ ClientStep(d) \/ CheckReturns(d) \/ CheckFails(d)
    BY <1>1, <2>1 DEF Praise, Judge, PlayRound, EndTournament, Check, ClientStep,
                      CheckReturns, CheckFails, Others, fileVars
  <2>2. CASE EndSearch(d) \/ Respond(d)
    <3>1. /\ UNCHANGED <<job, moved, trees>> /\ job = "running"
          /\ \A e \in Data \ {d} : pc'[e] = pc[e]
          /\ \/ pc[d] = "search" /\ pc'[d] = "found"
             \/ pc[d] = "saved" /\ pc'[d] = "answered"
      BY <1>0, <1>a, <2>0, <2>2 DEF EndSearch, AtWork, Respond, Returns, fileVars
    <3>2. Same
      BY <3>1 DEF Undone, Treed
    <3> QED BY <1>1, <3>1, <3>2
  <2>3. CASE Start(d)
    <3>1. /\ UNCHANGED <<job, moved, trees>> /\ job = "running"
          /\ \A e \in Data \ {d} : pc'[e] = pc[e]
          /\ pc[d] = "waiting" /\ pc'[d] = "search"
      BY <1>0, <2>0, <2>3 DEF Start, fileVars
    <3>2. /\ \A e \in Data : pc[e] \notin {"search", "found"}
          /\ \A e \in Data : e < d => pc[e] # "waiting"
      BY <1>a, <2>3 DEF Start, Free, InTurn, Busy
    <3> QED BY <1>0, <1>b, <1>c, <3>1, <3>2 DEF Prefix, Kept, Undone, Treed
  <2>4. CASE Save(d)
    <3>1. /\ UNCHANGED <<job, moved>> /\ job = "running" /\ PartlySaved({d})
          /\ \A e \in Data \ {d} : pc'[e] = pc[e]
          /\ pc[d] = "found" /\ pc'[d] = "saved"
      BY <1>0, <1>a, <2>0, <2>4 DEF Save
    <3>2. \A e \in Data :
            /\ e <= TreeFiles' \/ pc[e] \in Treed \/ e = d => Kept(e)'
            /\ pc[e] = "waiting" /\ e > d => TreeFiles' < e
      BY <1>0, <1>a, <3>1, SavedInOrder
    <3>3. \A e \in Data : pc'[e] \in Undone => pc[e] = "waiting" /\ e > d
      <4>1. \A e \in Data : pc[e] \in Undone /\ e > d => pc[e] = "waiting"
        BY <1>c, <3>1 DEF Undone
      <4>2. \A e \in Data : e < d => pc[e] \notin Undone
        BY <1>c, <3>1 DEF Undone
      <4>3. \A e \in Data : e = d \/ e < d \/ e > d
        BY <1>0
      <4> QED BY <3>1, <4>1, <4>2, <4>3 DEF Undone
    <3>4. \A e \in Data : pc'[e] \in Treed => pc[e] \in Treed \/ e = d
      BY <3>1
    <3>5. \A e \in Data : \A k \in Data : pc'[e] \in Undone /\ k < e =>
            pc'[k] # "lost" /\ (pc'[k] \in Undone => pc'[e] = "waiting")
      BY <1>c, <3>1, <3>3 DEF Undone
    <3> QED BY <1>0, <3>1, <3>2, <3>3, <3>4, <3>5 DEF Prefix
  <2>5. CASE RaiseAll(d)
    <3>1. /\ UNCHANGED <<job, moved>> /\ job = "running"
          /\ \A e \in Data : \/ pc'[e] = "lost"
                             \/ pc'[e] = pc[e] /\ pc[e] \in {"done", "dropped"}
      BY <1>0, <2>5 DEF RaiseAll, AtWork
    <3>2. PICK D \in SUBSET (Saving \intersect {d}) : PartlySaved(D)
      BY <2>5 DEF RaiseAll
    <3>3. \A e \in Data : e <= TreeFiles' \/ pc[e] \in Treed => Kept(e)'
      BY <1>4, <3>1, <3>2
    <3> QED BY <1>0, <3>1, <3>3 DEF Prefix, Undone, Treed
  <2>6. ~Skip(d) /\ ~Deliver(d) /\ ~Raise(d)
    BY <1>a DEF Skip, Skips, Deliver, Raise
  <2> QED BY <1>9, <2>1, <2>2, <2>3, <2>4, <2>5, <2>6 DEF Work
<1> QED BY <1>2, <1>3, <1>5, <1>6, <1>7, <1>8, <1>9 DEF Next, Progress

LEMMA InitPrefix == Init => (Resumes => Prefix)
<1> SUFFICES ASSUME Init, Resumes PROVE Prefix
  OBVIOUS
<1>1. /\ Data \subseteq Task /\ trees = Each(0) /\ job = "off"
      /\ \A d \in Task : pc[d] = "waiting"
  BY DataAreTasks DEF Init, Each
<1>2. trees \in [Task -> Nat] /\ opts.size \in 0..DataSize /\ Data = 1..opts.size
  BY <1>1, Options, JobAssumption DEF Each, Init, Data
<1>3. TreeFiles = 0
  BY <1>1, <1>2, FilesCount DEF TreeFiles
<1> QED BY <1>1, <1>2, <1>3 DEF Prefix, Treed

(* No problem is done without a trace, an output to deliver, or an output  *)
(* that was delivered when the iteration ended; none is given up but for   *)
(* one that raised; and none is dropped without a tree.                    *)
NothingOwed ==
  /\ \A d \in Data : pc[d] = "dropped" => Kept(d)
  /\ \A d \in Data : pc[d] = "lost" => raised # {}
  /\ \A d \in Data : pc[d] = "done" => HasTrace(d) \/ IsNew(d)
  /\ job \in {"written", "ended"} =>
       \A d \in Data : /\ pc[d] \in {"done", "lost", "dropped"}
                       /\ pc[d] = "done" => HasTrace(d) \/ d \in delivered

WorkInv == opts.alike = "none" /\ (opts.resume => ~opts.async) => NothingOwed

LEMMA WorkStep ==
  TypeInv /\ ErrorsAreOld /\ (Resumes => Prefix) /\ WorkInv /\ [Next]_vars => WorkInv'
<1> SUFFICES ASSUME TypeInv, ErrorsAreOld, Resumes => Prefix, [Next]_vars, NothingOwed,
                    opts.alike = "none", opts.resume => ~opts.async
             PROVE  NothingOwed'
  BY OptsStay DEF WorkInv
<1>0. /\ opts' = opts /\ Data' = Data /\ Data \subseteq Task
      /\ pc \in [Task -> Place] /\ entry \in [Task -> Entry(iter)]
      /\ trees \in [Task -> Nat] /\ OfJob
  BY OptsStay, DataAreTasks DEF TypeInv, Types, OfJob, OfFiles, Data
<1>a. /\ \A d \in Data : pc[d] = "dropped" => Kept(d)
      /\ \A d \in Data : pc[d] = "lost" => raised # {}
      /\ \A d \in Data : pc[d] = "done" => HasTrace(d) \/ IsNew(d)
      /\ job \in {"written", "ended"} =>
           \A d \in Data : /\ pc[d] \in {"done", "lost", "dropped"}
                           /\ pc[d] = "done" => HasTrace(d) \/ d \in delivered
  BY DEF NothingOwed
<1>1. ASSUME UNCHANGED <<iter, entry, pc, raised, moved, trees, delivered>>,
             job' = job \/ job' \notin {"written", "ended"}
      PROVE  NothingOwed'
  BY <1>0, <1>a, <1>1 DEF NothingOwed, HasTrace, Kept, IsNew
<1>2. CASE UNCHANGED vars \/ StartFails \/ Abort
  BY <1>1, <1>2 DEF vars, StartFails, Abort, fileVars
<1>3. CASE StartJob
  <2>1. \A d \in Data : d <= Dropped => Kept(d)
    <3>1. CASE Dropped = 0
      BY <1>0, <3>1, JobAssumption
    <3>2. CASE Dropped # 0
      BY <3>2 DEF Dropped, TreeFiles, Resumes, Prefix
    <3> QED BY <3>1, <3>2
  <2>2. /\ \A d \in Data : pc'[d] = IF d <= Dropped THEN "dropped" ELSE "waiting"
        /\ UNCHANGED <<trees, moved>> /\ job' = "running"
    BY <1>0, <1>3 DEF StartJob, Launch, fileVars
  <2> QED BY <1>0, <2>1, <2>2 DEF NothingOwed, Kept
<1>4. ASSUME NEW D, PartlySaved(D)
      PROVE  \A d \in Data : trees[d] > 0 => trees'[d] > 0
  BY <1>0, <1>4 DEF PartlySaved
<1>5. CASE Crash
  <2>1. \A d \in Data : trees[d] > 0 => trees'[d] > 0
    BY <1>4, <1>5 DEF Crash
  <2> QED BY <1>0, <1>a, <1>5, <2>1 DEF Crash, NothingOwed, HasTrace, Kept, IsNew
<1>6. CASE WriteAnswers
  <2>1. \A d \in Data : pc[d] = "done" => HasTrace(d) \/ d \in delivered'
    BY <1>a, <1>6 DEF WriteAnswers, Listed, IsNew
  <2> QED BY <1>0, <1>a, <1>6, <2>1 DEF WriteAnswers, NothingOwed, HasTrace, Kept, IsNew
<1>7. CASE NextIteration
  <2>1. \A d \in Data : Kept(d) => Kept(d)'
    BY <1>0, <1>7 DEF NextIteration, Kept
  <2>2. \A d \in Data : HasTrace(d) => HasTrace(d)'
    BY <2>1, <1>7 DEF NextIteration, HasTrace
  <2>3. job = "written" /\ UNCHANGED <<raised, entry, delivered>>
    BY <1>7 DEF NextIteration
  <2>4. CASE iter = opts.iterations
    <3>1. UNCHANGED <<iter, pc>>
      BY <1>7, <2>4 DEF NextIteration
    <3> QED BY <1>0, <1>a, <2>1, <2>2, <2>3, <3>1 DEF NothingOwed, IsNew
  <2>5. CASE iter # opts.iterations
    <3>1. /\ job' = "running"
          /\ \A d \in Data : pc'[d] = IF pc[d] = "dropped" THEN "dropped" ELSE "waiting"
      BY <1>0, <1>7, <2>5 DEF NextIteration
    <3> QED BY <1>0, <1>a, <2>1, <3>1 DEF NothingOwed
  <2> QED BY <2>4, <2>5
<1>8. CASE EndBatch
  <2>1. \A d \in Data : pc[d] = "answered" => IsNew(d)'
    <3> SUFFICES ASSUME NEW d \in Data, pc[d] = "answered" PROVE IsNew(d)'
      OBVIOUS
    <3>1. entry'[d] = Result(d) /\ iter' = iter
      BY <1>0, <1>8 DEF EndBatch
    <3>2. entry[d].error # iter
      BY <1>0 DEF ErrorsAreOld
    <3> QED BY <1>0, <3>1, <3>2 DEF Result, Entry, Failed, IsNew
  <2> QED BY <1>0, <1>a, <1>8, <2>1 DEF EndBatch, NothingOwed, HasTrace, Kept, IsNew, fileVars
<1>9. ASSUME NEW d \in Data, Work(d)
      PROVE  NothingOwed'
  <2>0. d \in Task /\ entry[d] \in Entry(iter)
    BY <1>0
  <2>1. CASE Skip(d)
    <3>1. /\ \A e \in Task \ {d} : entry'[e] = entry[e] /\ pc'[e] = pc[e]
          /\ pc'[d] = "done" /\ job = "running"
          /\ UNCHANGED <<job, iter, raised, moved, trees>>
      BY <1>0, <2>0, <2>1 DEF Skip, fileVars
    <3>2. trees[d] > 0
      BY <2>1 DEF Skip, Skips, IsProcessed, Fits
    <3> QED BY <1>0, <1>a, <3>1, <3>2 DEF NothingOwed, HasTrace, Kept, IsNew
  <2>2. CASE Deliver(d)
    <3>1. /\ \A e \in Task \ {d} : entry'[e] = entry[e] /\ pc'[e] = pc[e]
          /\ pc'[d] = "done" /\ entry'[d] = Result(d) /\ job = "running"
          /\ UNCHANGED <<job, iter, raised, moved, trees>>
      BY <1>0, <2>0, <2>2 DEF Deliver, fileVars
    <3>2. IsNew(d)'
      <4>1. entry[d].error # iter
        BY <2>0, <2>2 DEF Deliver, Returns, ErrorsAreOld
      <4> QED BY <2>0, <3>1, <4>1 DEF IsNew, Failed, Result, Entry
    <3> QED BY <1>0, <1>a, <3>1, <3>2 DEF NothingOwed, HasTrace, Kept, IsNew
  <2>3. CASE Raise(d) \/ RaiseAll(d)
    <3>1. /\ raised' = raised \union {d} /\ job = "running"
          /\ UNCHANGED <<job, iter, moved>>
      BY <2>3 DEF Raise, RaiseAll, AtWork
    <3>2. \A e \in Data : trees[e] > 0 => trees'[e] > 0
      BY <1>4, <2>3 DEF Raise, RaiseAll
    <3>3. \A e \in Data : pc'[e] = pc[e] \/ pc'[e] = "lost" \/ (e = d /\ pc'[e] = "done")
      BY <1>0, <2>0, <2>3 DEF Raise, RaiseAll
    <3>4. \A e \in Task \ {d} : entry'[e] = entry[e]
      BY <1>0, <2>3 DEF Raise, RaiseAll
    <3> QED BY <1>0, <1>a, <3>1, <3>2, <3>3, <3>4 DEF NothingOwed, HasTrace, Kept, IsNew
  <2>4. CASE \/ Praise(d) \/ Judge(d) \/ PlayRound(d) \/ EndTournament(d)
             \/ Check(d) \/ ClientStep(d) \/ CheckReturns(d) \/ CheckFails(d)
    BY <1>1, <2>4 DEF Praise, Judge, PlayRound, EndTournament, Check, ClientStep,
                      CheckReturns, CheckFails, Others, fileVars
  <2>5. CASE Start(d) \/ EndSearch(d) \/ Save(d) \/ Respond(d)
    <3>1. UNCHANGED <<job, iter, entry, raised, moved>> /\ job = "running"
      BY <2>5 DEF Start, EndSearch, AtWork, Save, Respond, fileVars
    <3>2. \A e \in Data : pc'[e] = pc[e] \/ pc'[e] \in {"search", "found", "saved", "answered"}
      BY <1>0, <2>0, <2>5 DEF Start, EndSearch, Save, Respond
    <3>3. \A e \in Data : trees[e] > 0 => trees'[e] > 0
      BY <1>4, <2>5 DEF Start, EndSearch, Save, Respond, fileVars
    <3> QED BY <1>0, <1>a, <3>1, <3>2, <3>3 DEF NothingOwed, HasTrace, Kept, IsNew
  <2> QED BY <1>9, <2>1, <2>2, <2>3, <2>4, <2>5 DEF Work
<1> QED BY <1>2, <1>3, <1>5, <1>6, <1>7, <1>8, <1>9 DEF Next, Progress

LEMMA InitWork == Init => WorkInv
<1> SUFFICES ASSUME Init PROVE NothingOwed
  BY DEF WorkInv
<1>1. Data \subseteq Task /\ \A d \in Task : pc[d] = "waiting"
  BY DataAreTasks DEF Init, Each
<1> QED BY <1>1 DEF Init, NothingOwed

(* Whatever raises, and however often the process dies, the job that has   *)
(* ended has an answer, a tree or an error for every problem, unless the   *)
(* synchronous sampler has given up after an error.  What                  *)
(* --continue-from-prev leaves out has a tree.                             *)
THEOREM NoWorkIsLost == Spec => []WorkIsKept
<1>1. TypeInv /\ ErrorsAreOld /\ (Resumes => Prefix) /\ WorkInv /\ [Next]_vars =>
        ErrorsAreOld' /\ (Resumes => Prefix)' /\ WorkInv'
  BY ErrorsStep, PrefixStep, WorkStep
<1>2. WorkInv => WorkIsKept
  BY DEF WorkInv, NothingOwed, HasTrace, Kept, WorkIsKept
<1>3. Init => ErrorsAreOld
  BY DEF Init, Each, Untouched, ErrorsAreOld
<1> QED BY <1>1, <1>2, <1>3, InitPrefix, InitWork, Typed, PTL DEF Spec

-----------------------------------------------------------------------------
(* Induction on the number of rounds.                                      *)

(* A function on the numbers is defined by its first value and by the step *)
(* from a value to the next.                                               *)
LEMMA Iterated ==
  ASSUME NEW f \in [Nat -> Nat], NEW a \in Nat
  PROVE  \E g \in [Nat -> Nat] : g = [i \in Nat |-> IF i = 0 THEN a ELSE f[g[i - 1]]]
<1> DEFINE Walk(g, n) == g = [i \in 0..n |-> IF i = 0 THEN a ELSE f[g[i - 1]]]
           S == {n \in Nat : \E g : Walk(g, n)}
<1>1. 0 \in S
  <2>1. Walk([i \in 0..0 |-> a], 0)
    OBVIOUS
  <2> QED BY <2>1
<1>2. ASSUME NEW n \in Nat, n \in S PROVE n + 1 \in S
  <2>1. PICK g : Walk(g, n)
    BY <1>2
  <2> DEFINE h == [i \in 0..(n + 1) |-> IF i <= n THEN g[i] ELSE f[g[n]]]
  <2>2. ASSUME NEW i \in 0..(n + 1) PROVE h[i] = IF i = 0 THEN a ELSE f[h[i - 1]]
    <3>1. CASE i = 0
      BY <2>1, <3>1
    <3>2. CASE i # 0 /\ i <= n
      <4>1. i \in 0..n /\ i - 1 \in 0..n /\ i - 1 \in 0..(n + 1) /\ i - 1 <= n
        BY <3>2
      <4>2. h[i] = g[i] /\ h[i - 1] = g[i - 1]
        BY <3>2, <4>1
      <4>3. g[i] = f[g[i - 1]]
        BY <2>1, <3>2, <4>1
      <4> QED BY <3>2, <4>2, <4>3
    <3>3. CASE i = n + 1
      <4>1. h[n + 1] = f[g[n]] /\ h[n] = g[n] /\ n + 1 # 0 /\ (n + 1) - 1 = n
        OBVIOUS
      <4> QED BY <3>3, <4>1
    <3> QED BY <3>1, <3>2, <3>3
  <2>3. Walk(h, n + 1)
    BY <2>2
  <2> HIDE DEF Walk, h
  <2>4. \E v : Walk(v, n + 1)
    BY <2>3
  <2> QED BY <2>4
<1>3. \A n \in Nat : n \in S
  <2> HIDE DEF S
  <2> QED BY <1>1, <1>2, SetInduction
<1>4. \A n \in Nat : \A g : Walk(g, n) =>
        g[0] = a /\ \A i \in Nat : i + 1 <= n => g[i + 1] = f[g[i]]
  <2> TAKE n \in Nat
  <2> TAKE g
  <2> HAVE Walk(g, n)
  <2>1. 0 \in 0..n /\ \A i \in Nat : i + 1 <= n =>
          i + 1 \in 0..n /\ i + 1 # 0 /\ (i + 1) - 1 = i
    OBVIOUS
  <2> QED BY <2>1
<1> HIDE DEF Walk
<1> DEFINE Agree == {i \in Nat : \A n, m \in Nat : \A g, h :
                       Walk(g, n) /\ Walk(h, m) /\ i <= n /\ i <= m => g[i] = h[i]}
<1>5. 0 \in Agree
  BY <1>4
<1>6. ASSUME NEW i \in Nat, i \in Agree PROVE i + 1 \in Agree
  <2>1. ASSUME NEW n \in Nat, NEW m \in Nat, NEW g, NEW h,
               Walk(g, n), Walk(h, m), i + 1 <= n, i + 1 <= m
        PROVE  g[i + 1] = h[i + 1]
    <3>1. i <= n /\ i <= m
      BY <2>1
    <3>2. g[i + 1] = f[g[i]] /\ h[i + 1] = f[h[i]]
      BY <1>4, <2>1
    <3>3. g[i] = h[i]
      BY <1>6, <2>1, <3>1
    <3> QED BY <3>2, <3>3
  <2> QED BY <2>1
<1>7. \A i \in Nat : i \in Agree
  <2> HIDE DEF Agree
  <2> QED BY <1>5, <1>6, SetInduction
<1> DEFINE w(n) == CHOOSE g : Walk(g, n)
<1>8. \A n \in Nat : Walk(w(n), n)
  BY <1>3
<1> HIDE DEF w
<1> DEFINE G == [i \in Nat |-> w(i)[i]]
<1>9. G[0] = a
  <2>1. w(0)[0] = a
    BY <1>4, <1>8
  <2> QED BY <2>1
<1>10. ASSUME NEW i \in Nat PROVE G[i + 1] = f[G[i]]
  <2>1. i + 1 \in Nat /\ i <= i /\ i <= i + 1 /\ i + 1 <= i + 1
    OBVIOUS
  <2>2. Walk(w(i), i) /\ Walk(w(i + 1), i + 1)
    BY <1>8, <2>1
  <2>3. w(i + 1)[i + 1] = f[w(i + 1)[i]]
    BY <1>4, <2>1, <2>2
  <2>4. w(i + 1)[i] = w(i)[i]
    BY <1>7, <2>1, <2>2
  <2> QED BY <2>1, <2>3, <2>4
<1>11. G = [i \in Nat |-> G[i]]
  OBVIOUS
<1> HIDE DEF G
<1> DEFINE U == {i \in Nat : G[i] \in Nat}
<1>12. 0 \in U /\ \A i \in Nat : i \in U => i + 1 \in U
  BY <1>9, <1>10
<1>13. \A i \in Nat : G[i] \in Nat
  <2> HIDE DEF U
  <2>1. \A i \in Nat : i \in U
    BY <1>12, SetInduction
  <2> QED BY <2>1 DEF U
<1>14. ASSUME NEW i \in Nat PROVE G[i] = IF i = 0 THEN a ELSE f[G[i - 1]]
  <2>1. i # 0 => i - 1 \in Nat /\ (i - 1) + 1 = i
    OBVIOUS
  <2> QED BY <1>9, <1>10, <2>1
<1>15. G \in [Nat -> Nat]
  BY <1>11, <1>13
<1>16. G = [i \in Nat |-> IF i = 0 THEN a ELSE f[G[i - 1]]]
  BY <1>14, <1>15
<1> QED BY <1>15, <1>16

LEMMA Pow2Is ==
  /\ Pow2[0] = 1
  /\ \A r \in Nat : Pow2[r] \in Nat \ {0} /\ Pow2[r + 1] = 2 * Pow2[r]
<1> DEFINE f == [x \in Nat |-> 2 * x]
           Eq(g) == g = [i \in Nat |-> IF i = 0 THEN 1 ELSE 2 * g[i - 1]]
<1>1. PICK g \in [Nat -> Nat] : g = [i \in Nat |-> IF i = 0 THEN 1 ELSE f[g[i - 1]]]
  <2>1. f \in [Nat -> Nat] /\ 1 \in Nat
    OBVIOUS
  <2> HIDE DEF f
  <2> QED BY <2>1, Iterated
<1>2. Eq(g)
  <2>1. \A i \in Nat : i # 0 => i - 1 \in Nat /\ g[i - 1] \in Nat
    OBVIOUS
  <2>2. \A i \in Nat : i # 0 => f[g[i - 1]] = 2 * g[i - 1]
    BY <2>1
  <2> HIDE DEF f
  <2> QED BY <1>1, <2>2
<1>3. Pow2 = CHOOSE h : Eq(h)
  BY DEF Pow2
<1>4. Eq(Pow2)
  <2> HIDE DEF Eq
  <2> QED BY <1>2, <1>3
<1>5. Pow2[0] = 1 /\ \A r \in Nat : Pow2[r + 1] = 2 * Pow2[r]
  <2>1. \A r \in Nat : r + 1 \in Nat /\ r + 1 # 0 /\ (r + 1) - 1 = r
    OBVIOUS
  <2> QED BY <1>4, <2>1
<1> DEFINE S == {r \in Nat : Pow2[r] \in Nat \ {0}}
<1>6. 0 \in S /\ \A r \in Nat : r \in S => r + 1 \in S
  BY <1>5
<1>7. \A r \in Nat : r \in S
  <2> HIDE DEF S
  <2> QED BY <1>6, SetInduction
<1> QED BY <1>5, <1>7

LEMMA LeftIs ==
  ASSUME NEW n \in Nat
  PROVE  /\ Left(n, 0) = n
         /\ \A r \in Nat : Left(n, r) \in Nat /\ Left(n, r + 1) = (Left(n, r) + 1) \div 2
<1> DEFINE f == [x \in Nat |-> (x + 1) \div 2]
           Eq(g) == g = [i \in Nat |-> IF i = 0 THEN n ELSE (g[i - 1] + 1) \div 2]
<1>1. PICK g \in [Nat -> Nat] : g = [i \in Nat |-> IF i = 0 THEN n ELSE f[g[i - 1]]]
  <2>1. f \in [Nat -> Nat]
    OBVIOUS
  <2> HIDE DEF f
  <2> QED BY <2>1, Iterated
<1>2. Eq(g)
  <2>1. \A i \in Nat : i # 0 => i - 1 \in Nat /\ g[i - 1] \in Nat
    OBVIOUS
  <2>2. \A i \in Nat : i # 0 => f[g[i - 1]] = (g[i - 1] + 1) \div 2
    BY <2>1
  <2> HIDE DEF f
  <2> QED BY <1>1, <2>2
<1> DEFINE L == CHOOSE h : Eq(h)
<1>3. \A r : Left(n, r) = L[r]
  BY DEF Left
<1>4. Eq(L)
  <2> HIDE DEF Eq
  <2> QED BY <1>2
<1> HIDE DEF L
<1>5. L[0] = n /\ \A r \in Nat : L[r + 1] = (L[r] + 1) \div 2
  <2>1. \A r \in Nat : r + 1 \in Nat /\ r + 1 # 0 /\ (r + 1) - 1 = r
    OBVIOUS
  <2> QED BY <1>4, <2>1
<1> DEFINE S == {r \in Nat : L[r] \in Nat}
<1>6. 0 \in S /\ \A r \in Nat : r \in S => r + 1 \in S
  BY <1>5
<1>7. \A r \in Nat : r \in S
  <2> HIDE DEF S
  <2> QED BY <1>6, SetInduction
<1> QED BY <1>3, <1>5, <1>7

(* 2^r is larger than r, and grows with r.                                 *)
LEMMA Pow2Grows ==
  /\ \A r \in Nat : r < Pow2[r]
  /\ \A q, r \in Nat : q <= r => Pow2[q] <= Pow2[r]
<1>1. \A r \in Nat : r < Pow2[r]
  <2> DEFINE S == {r \in Nat : r < Pow2[r]}
  <2>1. 0 \in S /\ \A r \in Nat : r \in S => r + 1 \in S
    BY Pow2Is
  <2>2. \A r \in Nat : r \in S
    <3> HIDE DEF S
    <3> QED BY <2>1, SetInduction
  <2> QED BY <2>2
<1>2. \A q, r \in Nat : q <= r => Pow2[q] <= Pow2[r]
  <2> SUFFICES ASSUME NEW q \in Nat PROVE \A r \in Nat : q <= r => Pow2[q] <= Pow2[r]
    OBVIOUS
  <2> DEFINE S == {r \in Nat : q <= r => Pow2[q] <= Pow2[r]}
  <2>1. 0 \in S
    BY Pow2Is
  <2>2. ASSUME NEW r \in Nat, r \in S PROVE r + 1 \in S
    <3>1. Pow2[r + 1] = 2 * Pow2[r] /\ Pow2[r] \in Nat /\ Pow2[q] \in Nat /\ Pow2[r + 1] \in Nat
      BY Pow2Is
    <3>2. q <= r + 1 => q <= r \/ q = r + 1
      OBVIOUS
    <3>3. q <= r => Pow2[q] <= Pow2[r]
      BY <2>2
    <3>4. q <= r => Pow2[q] <= Pow2[r + 1]
      BY <3>1, <3>3
    <3>5. q = r + 1 => Pow2[q] <= Pow2[r + 1]
      BY <3>1
    <3> QED BY <3>2, <3>4, <3>5
  <2>3. \A r \in Nat : r \in S
    <3> HIDE DEF S
    <3> QED BY <2>1, <2>2, SetInduction
  <2> QED BY <2>3
<1> QED BY <1>1, <1>2

(* There is a slot for every player.                                       *)
LEMMA EnoughSlots ==
  ASSUME NEW n \in Nat \ {0}
  PROVE  Rounds(n) \in Nat /\ n <= Padded(n)
<1> DEFINE B == {r \in 0..n : Pow2[r] < n}
           C == {r \in Nat : n <= Pow2[r]}
<1>1. C \subseteq Nat /\ C # {}
  <2>1. n <= Pow2[n] 
    BY Pow2Is, Pow2Grows
  <2> QED BY <2>1
<1>2. IsWellFoundedOn(Smaller, Nat)
  BY NatLessThanWellFounded DEF Smaller, OpToRel
<1>3. PICK k \in C : \A r \in C : <<r, k>> \notin Smaller
  BY <1>1, <1>2, WFMin
<1>4. k \in Nat /\ n <= Pow2[k] /\ \A r \in Nat : r < k => Pow2[r] < n
  <2>1. \A r \in C : ~(r < k)
    BY <1>3 DEF Smaller
  <2>2. \A r \in Nat : Pow2[r] \in Nat
    BY Pow2Is
  <2> QED BY <2>1, <2>2
<1>5. \A r \in Nat : r >= k => ~(Pow2[r] < n)
  <2>1. \A r \in Nat : r >= k => Pow2[k] <= Pow2[r] /\ Pow2[r] \in Nat /\ Pow2[k] \in Nat
    BY <1>4, Pow2Grows, Pow2Is
  <2> QED BY <1>4, <2>1
<1>6. \A r \in Nat : Pow2[r] < n => r <= n
  BY Pow2Grows, Pow2Is
<1>7. B = 0..(k - 1)
  BY <1>4, <1>5, <1>6
<1>8. Cardinality(0..(k - 1)) = k
  <2>1. 0 \in Int /\ k - 1 \in Int
    BY <1>4
  <2>2. Cardinality(0..(k - 1)) = IF 0 > k - 1 THEN 0 ELSE (k - 1) - 0 + 1
    BY <2>1, FS_Interval
  <2> QED BY <1>4, <2>2
<1>9. Rounds(n) = k
  BY <1>7, <1>8 DEF Rounds
<1> QED BY <1>4, <1>9 DEF Padded

-----------------------------------------------------------------------------
(* The slots of a bracket: the l players that are left sit in the first of *)
(* m slots, in one each, and byes fill the others.                         *)

Seated(s, n, m, l) ==
  /\ s \in [1..m -> 0..n] /\ l \in 1..m
  /\ \A k \in 1..m : s[k] = Bye <=> k > l
  /\ \A j, k \in 1..l : s[j] = s[k] => j = k

Sitting(s, l) == {s[k] : k \in 1..l}

LEMMA CountSitting ==
  ASSUME NEW s, NEW l \in Nat, \A j, k \in 1..l : s[j] = s[k] => j = k
  PROVE  IsFiniteSet(Sitting(s, l)) /\ Cardinality(Sitting(s, l)) = l
<1> DEFINE g == [k \in 1..l |-> s[k]]
<1>1. g \in [1..l -> Sitting(s, l)]
  BY DEF Sitting
<1>2. g \in Bijection(1..l, Sitting(s, l))
  <2>1. \A p \in Sitting(s, l) : \E k \in 1..l : g[k] = p
    BY DEF Sitting
  <2>2. \A j, k \in 1..l : g[j] = g[k] => j = k
    OBVIOUS
  <2> HIDE DEF g
  <2> QED BY <1>1, <2>1, <2>2 DEF Bijection, Injection, Surjection, IsInjective
<1>3. IsFiniteSet(1..l) /\ Cardinality(1..l) = l
  <2>1. 1 \in Int /\ l \in Int
    OBVIOUS
  <2>2. IsFiniteSet(1..l) /\ Cardinality(1..l) = IF 1 > l THEN 0 ELSE l - 1 + 1
    BY <2>1, FS_Interval
  <2> QED BY <2>2
<1> HIDE DEF g
<1>4. ExistsBijection(1..l, Sitting(s, l))
  BY <1>2 DEF ExistsBijection
<1> QED BY <1>3, <1>4, FS_Bijection

(* The winners sit as the players did, one where two were.                 *)
LEMMA WinnersSeated ==
  ASSUME NEW n \in Nat, NEW m \in Nat \ {0}, NEW l \in Nat, NEW s,
         Seated(s, n, 2 * m, l),
         NEW w, w \in [1..m -> 0..n],
         \A k \in 1..m :
           w[k] \in (IF {s[2 * k - 1], s[2 * k]} = {Bye} THEN {Bye}
                     ELSE {s[2 * k - 1], s[2 * k]} \ {Bye})
  PROVE  LET h == (l + 1) \div 2 IN
         /\ Seated(w, n, m, h) /\ h \in Nat /\ h <= l
         /\ Sitting(w, h) \subseteq Sitting(s, l)
<1> DEFINE h == (l + 1) \div 2
<1>1. h \in 1..m /\ h \in Nat /\ h <= l /\ (l = 2 * h \/ l = 2 * h - 1)
  <2>1. l \in 1..(2 * m)
    BY DEF Seated
  <2> QED BY <2>1
<1> HIDE DEF h
<1>2. \A k \in 1..m : /\ 2 * k - 1 \in 1..(2 * m) /\ 2 * k \in 1..(2 * m)
                      /\ (k <= h <=> 2 * k - 1 <= l) /\ (k > h => 2 * k > l)
  BY <1>1
<1>3. \A k \in 1..m : w[k] = s[2 * k - 1] \/ w[k] = s[2 * k]
  BY <1>2
<1> DEFINE o(k) == IF w[k] = s[2 * k - 1] THEN 2 * k - 1 ELSE 2 * k
<1>4. \A k \in 1..m : w[k] = Bye <=> k > h
  <2> TAKE k \in 1..m
  <2>1. /\ s[2 * k - 1] = Bye <=> 2 * k - 1 > l
        /\ s[2 * k] = Bye <=> 2 * k > l
    BY <1>2 DEF Seated
  <2>2. CASE k > h
    <3>1. 2 * k - 1 > l /\ 2 * k > l
      BY <1>1, <2>2
    <3>2. s[2 * k - 1] = Bye /\ s[2 * k] = Bye
      BY <2>1, <3>1
    <3> QED BY <2>2, <3>2
  <2>3. CASE k <= h
    <3>1. s[2 * k - 1] # Bye
      BY <1>1, <1>2, <2>1, <2>3
    <3>2. w[k] # Bye
      BY <3>1
    <3> QED BY <1>1, <2>3, <3>2
  <2> QED BY <1>1, <2>2, <2>3
<1>5. ASSUME NEW k \in 1..h
      PROVE  /\ k \in 1..m /\ o(k) \in 1..l /\ w[k] = s[o(k)]
             /\ (o(k) = 2 * k - 1 \/ o(k) = 2 * k)
  <2>1. k \in 1..m /\ ~(k > h)
    BY <1>1
  <2>2. w[k] # Bye /\ w[k] = s[o(k)] /\ (o(k) = 2 * k - 1 \/ o(k) = 2 * k)
    BY <1>3, <1>4, <2>1
  <2> HIDE DEF o
  <2>3. o(k) \in 1..(2 * m)
    BY <1>2, <2>1, <2>2
  <2>4. ~(o(k) > l)
    BY <2>2, <2>3 DEF Seated
  <2>5. o(k) \in 1..l
    BY <2>3, <2>4
  <2> QED BY <2>1, <2>2, <2>5
<1> HIDE DEF o
<1>6. \A j, k \in 1..h : w[j] = w[k] => j = k
  <2> TAKE j, k \in 1..h
  <2> HAVE w[j] = w[k]
  <2>1. s[o(j)] = s[o(k)] /\ o(j) \in 1..l /\ o(k) \in 1..l
    BY <1>5
  <2>2. o(j) = o(k)
    BY <2>1 DEF Seated
  <2>3. /\ o(j) = 2 * j - 1 \/ o(j) = 2 * j
        /\ o(k) = 2 * k - 1 \/ o(k) = 2 * k
    BY <1>5
  <2> QED BY <1>1, <2>2, <2>3
<1>7. Seated(w, n, m, h)
  BY <1>1, <1>4, <1>6 DEF Seated
<1>8. Sitting(w, h) \subseteq Sitting(s, l)
  BY <1>5 DEF Sitting
<1> QED BY <1>1, <1>7, <1>8 DEF h

-----------------------------------------------------------------------------
(* A bracket between two rounds.                                           *)

Slots(b) == Pow2[Rounds(Len(b.score)) + 1 - b.round]

Orderly(b) ==
  LET n == Len(b.score) IN
  /\ n \in Nat \ {0} /\ b.round \in 1..(Rounds(n) + 1)
  /\ b.score \in [1..n -> 0..(b.round - 1)]
  /\ Seated(b.slots, n, Slots(b), Left(n, b.round - 1))
  /\ {i \in 1..n : b.score[i] = 0} = Sitting(b.slots, Left(n, b.round - 1))
  /\ \A r \in 1..(b.round - 1) :
       Cardinality({i \in 1..n : b.score[i] = r}) = Left(n, r - 1) - Left(n, r)

LEMMA StartInOrder ==
  ASSUME NEW n \in Nat \ {0}, NEW shuffle, NEW b \in Starts(n, shuffle)
  PROVE  Orderly(b)
<1>1. PICK o \in Orders(n, shuffle) :
        b = [slots |-> [k \in 1..Padded(n) |-> IF k <= n THEN o[k] ELSE Bye],
             round |-> 1, score |-> [i \in 1..n |-> 0]]
  BY DEF Starts
<1> DEFINE m == Padded(n)
<1>2. Rounds(n) \in Nat /\ n <= m /\ m \in Nat /\ m = Pow2[Rounds(n)]
  BY EnoughSlots, Pow2Is DEF Padded
<1>3. o \in [1..n -> 1..n] /\ \A j, k \in 1..n : o[j] = o[k] => j = k
  BY DEF Orders
<1> HIDE DEF m
<1>4. /\ b.slots = [k \in 1..m |-> IF k <= n THEN o[k] ELSE Bye]
      /\ b.round = 1 /\ b.score = [i \in 1..n |-> 0] /\ Len(b.score) = n
  BY <1>1 DEF m
<1>5. Left(n, b.round - 1) = n /\ Slots(b) = m
  <2>1. b.round - 1 = 0 /\ Rounds(n) + 1 - b.round = Rounds(n)
    BY <1>2, <1>4
  <2> QED BY <1>2, <1>4, <2>1, LeftIs DEF Slots
<1>6. Seated(b.slots, n, m, n)
  <2>1. \A k \in 1..n : k \in 1..m /\ b.slots[k] = o[k] /\ o[k] \in 1..n
    BY <1>2, <1>3, <1>4
  <2>2. \A k \in 1..m : k > n => b.slots[k] = Bye
    BY <1>4
  <2>3. \A k \in 1..m : k > n \/ k \in 1..n
    BY <1>2
  <2>4. n \in 1..m /\ 0 \in 0..n /\ \A i \in 1..n : i \in 0..n /\ i # 0
    BY <1>2
  <2>5. b.slots \in [1..m -> 0..n]
    <3>1. \A k \in 1..m : b.slots[k] \in 0..n
      BY <2>1, <2>2, <2>3, <2>4 DEF Bye
    <3>2. b.slots = [k \in 1..m |-> b.slots[k]]
      BY <1>4
    <3> QED BY <3>1, <3>2
  <2>6. \A k \in 1..m : b.slots[k] = Bye <=> k > n
    BY <2>1, <2>2, <2>3, <2>4 DEF Bye
  <2> QED BY <1>3, <2>1, <2>4, <2>5, <2>6 DEF Seated
<1>7. {i \in 1..n : b.score[i] = 0} = Sitting(b.slots, n)
  <2> DEFINE P == Sitting(b.slots, n)
  <2>1. IsFiniteSet(P) /\ Cardinality(P) = n
    BY <1>6, CountSitting DEF Seated
  <2>2. P \subseteq 1..n
    <3>1. \A k \in 1..n : b.slots[k] = o[k]
      BY <1>2, <1>4
    <3> QED BY <1>3, <3>1 DEF Sitting
  <2>3. IsFiniteSet(1..n) /\ Cardinality(1..n) = n
    <3>1. 1 \in Int /\ n \in Int
      OBVIOUS
    <3>2. IsFiniteSet(1..n) /\ Cardinality(1..n) = IF 1 > n THEN 0 ELSE n - 1 + 1
      BY <3>1, FS_Interval
    <3> QED BY <3>2
  <2> HIDE DEF P
  <2>4. 1..n = P
    BY <2>1, <2>2, <2>3, FS_Subset
  <2>5. {i \in 1..n : b.score[i] = 0} = 1..n
    BY <1>4
  <2> QED BY <2>4, <2>5 DEF P
<1>8. b.score \in [1..n -> 0..(b.round - 1)] /\ 1..(b.round - 1) = {}
  BY <1>4
<1>9. b.round \in 1..(Rounds(n) + 1)
  BY <1>2, <1>4
<1> QED BY <1>4, <1>5, <1>6, <1>7, <1>8, <1>9 DEF Orderly

LEMMA RoundInOrder ==
  ASSUME NEW b, Orderly(b), ~IsOver(b), NEW c \in Played(b)
  PROVE  Orderly(c)
<1> DEFINE n == Len(b.score)
           r == b.round
           l == Left(n, r - 1)
           h == (l + 1) \div 2
           R == Rounds(n)
           m == Pow2[R - r]
<1>1. /\ n \in Nat \ {0} /\ r \in 1..(R + 1) /\ R \in Nat
      /\ b.score \in [1..n -> 0..(r - 1)]
      /\ Seated(b.slots, n, Pow2[R + 1 - r], l)
      /\ {i \in 1..n : b.score[i] = 0} = Sitting(b.slots, l)
      /\ \A q \in 1..(r - 1) :
           Cardinality({i \in 1..n : b.score[i] = q}) = Left(n, q - 1) - Left(n, q)
  BY EnoughSlots DEF Orderly, Slots
<1>2. b.slots \in [1..Pow2[R + 1 - r] -> 0..n] /\ Len(b.slots) = Pow2[R + 1 - r]
  <2>1. b.slots \in [1..Pow2[R + 1 - r] -> 0..n]
    BY <1>1 DEF Seated
  <2>2. R + 1 - r \in Nat
    BY <1>1
  <2>3. Pow2[R + 1 - r] \in Nat
    BY <2>2, Pow2Is
  <2> QED BY <2>1, <2>3
<1>3. r <= R /\ R - r \in Nat /\ r \in Nat /\ r - 1 \in Nat /\ (r - 1) + 1 = r
  <2>1. r = R + 1 => R + 1 - r = 0
    BY <1>1
  <2>2. r # R + 1
    BY <1>2, <2>1, Pow2Is DEF IsOver
  <2> QED BY <1>1, <2>2
<1>4. m \in Nat \ {0} /\ Pow2[R + 1 - r] = 2 * m
  <2>1. R + 1 - r = (R - r) + 1
    BY <1>1
  <2> QED BY <1>3, <2>1, Pow2Is
<1>5. Left(n, r) = h /\ l \in Nat
  BY <1>1, <1>3, LeftIs
<1> HIDE DEF n, r, l, h, R, m
<1>6. Games(b) = 1..m
  BY <1>2, <1>4 DEF Games
<1>7. PICK w \in [1..m -> UNION {Winners(b, k) : k \in 1..m}] :
        c = AfterRound(b, w) /\ \A k \in 1..m : w[k] \in Winners(b, k)
  BY <1>6 DEF Played
<1>8. w \in [1..m -> 0..n]
  <2>1. ASSUME NEW k \in 1..m PROVE w[k] \in 0..n
    <3>1. 2 * k - 1 \in 1..(2 * m) /\ 2 * k \in 1..(2 * m) /\ 0 \in 0..n
      BY <1>1, <1>4
    <3>2. b.slots[2 * k - 1] \in 0..n /\ b.slots[2 * k] \in 0..n
      BY <1>2, <1>4, <3>1
    <3>3. Winners(b, k) \subseteq 0..n
      BY <3>1, <3>2 DEF Winners, Sides, Bye
    <3> QED BY <1>7, <3>3
  <2> QED BY <1>7, <2>1
<1>9. /\ Seated(w, n, m, h) /\ h \in Nat /\ h <= l
      /\ Sitting(w, h) \subseteq Sitting(b.slots, l)
  <2>1. Seated(b.slots, n, 2 * m, l)
    BY <1>1, <1>4
  <2>2. \A k \in 1..m :
          w[k] \in (IF {b.slots[2 * k - 1], b.slots[2 * k]} = {Bye} THEN {Bye}
                    ELSE {b.slots[2 * k - 1], b.slots[2 * k]} \ {Bye})
    BY <1>7 DEF Winners, Sides
  <2> QED BY <1>1, <1>4, <1>5, <1>8, <2>1, <2>2, WinnersSeated DEF h
<1> DEFINE P == Sitting(b.slots, l)
           W == Sitting(w, h)
<1>10. Losers(b, w) = P \ W
  <2>1. \A k \in 1..m : 2 * k - 1 \in 1..(2 * m) /\ 2 * k \in 1..(2 * m)
    BY <1>4
  <2>2. \A k \in 1..(2 * m) : b.slots[k] # Bye <=> k \in 1..l
    <3>1. l \in 1..(2 * m) /\ \A k \in 1..(2 * m) : b.slots[k] = Bye <=> k > l
      BY <1>1, <1>4 DEF Seated
    <3> QED BY <3>1
  <2>3. \A j, k \in 1..l : b.slots[j] = b.slots[k] => j = k
    BY <1>1 DEF Seated
  <2>4. \A k \in 1..m : w[k] = Bye <=> k > h
    BY <1>9 DEF Seated
  <2>5. ASSUME NEW x, NEW k \in 1..m, x \in Sides(b, k), x # w[k], x # Bye
        PROVE  x \in P /\ x \notin W
    <3>1. PICK j \in 1..l : (j = 2 * k - 1 \/ j = 2 * k) /\ x = b.slots[j]
      BY <2>1, <2>2, <2>5 DEF Sides
    <3>2. ASSUME NEW q \in 1..h, w[q] = x PROVE FALSE
      <4>0. h \in 1..m
        BY <1>9 DEF Seated
      <4>1. q \in 1..m
        BY <1>4, <4>0
      <4>2. w[q] \in Sides(b, q)
        BY <1>7, <2>5, <3>2, <4>1 DEF Winners
      <4>3. PICK i \in 1..l : (i = 2 * q - 1 \/ i = 2 * q) /\ x = b.slots[i]
        BY <2>1, <2>2, <2>5, <3>2, <4>1, <4>2 DEF Sides
      <4>4. i = j
        BY <2>3, <3>1, <4>3
      <4>5. q = k
        BY <3>1, <4>1, <4>3, <4>4
      <4> QED BY <2>5, <3>2, <4>5
    <3> QED BY <3>1, <3>2 DEF Sitting
  <2>6. ASSUME NEW j \in 1..l, b.slots[j] \notin W
        PROVE  b.slots[j] \in Losers(b, w)
    <3>1. j \in 1..(2 * m)
      BY <1>1, <1>4 DEF Seated
    <3>2. PICK k \in 1..m : j = 2 * k - 1 \/ j = 2 * k
      <4> DEFINE k == (j + 1) \div 2
      <4>1. k \in 1..m /\ (j = 2 * k - 1 \/ j = 2 * k)
        BY <1>4, <3>1
      <4> HIDE DEF k
      <4> QED BY <4>1
    <3>3. b.slots[j] \in Sides(b, k) /\ b.slots[j] # Bye
      BY <2>2, <3>1, <3>2 DEF Sides
    <3>4. w[k] # b.slots[j]
      <4>1. w[k] = b.slots[j] => k \in 1..h
        BY <1>9, <2>4, <3>3
      <4> QED BY <2>6, <4>1 DEF Sitting
    <3> QED BY <1>6, <3>3, <3>4 DEF Losers
  <2>7. Losers(b, w) \subseteq P \ W
    BY <1>6, <2>5 DEF Losers
  <2>8. P \ W \subseteq Losers(b, w)
    BY <2>6 DEF Sitting
  <2> QED BY <2>7, <2>8
<1>11. Cardinality(Losers(b, w)) = l - h
  <2>1. IsFiniteSet(P) /\ Cardinality(P) = l
    BY <1>1, <1>5, CountSitting DEF Seated
  <2>2. IsFiniteSet(W) /\ Cardinality(W) = h
    BY <1>9, CountSitting DEF Seated
  <2>3. W \subseteq P
    BY <1>9
  <2> HIDE DEF P, W
  <2>4. IsFiniteSet(P \ W) /\ Cardinality(P \ W) \in Nat
    BY <2>1, FS_Subset, FS_CardinalityType
  <2>5. (P \ W) \union W = P /\ (P \ W) \intersect W = {}
    BY <2>3
  <2>6. Cardinality(P) = Cardinality(P \ W) + Cardinality(W) - 0
    BY <2>2, <2>4, <2>5, FS_Union, FS_EmptySet
  <2> QED BY <1>5, <1>9, <1>10, <2>1, <2>2, <2>4, <2>6
<1>12. /\ c.slots = w /\ c.round = r + 1 /\ Len(c.score) = n
       /\ c.score = [i \in 1..n |-> IF i \in Losers(b, w) THEN r ELSE b.score[i]]
  <2>1. DOMAIN b.score = 1..n /\ b.round = r
    BY <1>1 DEF r
  <2> QED BY <1>1, <1>7, <2>1 DEF AfterRound
<1>13. c.score \in [1..n -> 0..r]
  <2>1. \A i \in 1..n : b.score[i] \in 0..r
    BY <1>1, <1>3
  <2>2. r \in 0..r
    BY <1>3
  <2> QED BY <1>12, <2>1, <2>2
<1>14. {i \in 1..n : c.score[i] = 0} = W
  <2>1. \A i \in 1..n : c.score[i] = 0 <=> b.score[i] = 0 /\ i \notin Losers(b, w)
    BY <1>1, <1>3, <1>12
  <2>2. {i \in 1..n : c.score[i] = 0} = {i \in 1..n : b.score[i] = 0} \ Losers(b, w)
    BY <2>1
  <2>3. W \subseteq P
    BY <1>9
  <2> HIDE DEF W, P
  <2>4. {i \in 1..n : b.score[i] = 0} = P
    BY <1>1 DEF P
  <2> QED BY <1>10, <2>2, <2>3, <2>4
<1>15. ASSUME NEW q \in 1..r
       PROVE  Cardinality({i \in 1..n : c.score[i] = q}) = Left(n, q - 1) - Left(n, q)
  <2>0. \A i \in Losers(b, w) : i \in 1..n /\ b.score[i] = 0
    BY <1>1, <1>10
  <2>1. CASE q = r
    <3>0. \A i \in 1..n : b.score[i] # r
      BY <1>1, <1>3
    <3>1. \A i \in 1..n : c.score[i] = r <=> i \in Losers(b, w)
      BY <1>12, <3>0
    <3>2. {i \in 1..n : c.score[i] = r} = Losers(b, w)
      BY <2>0, <3>1
    <3> QED BY <1>5, <1>11, <2>1, <3>2 DEF l
  <2>2. CASE q # r
    <3>1. q \in 1..(r - 1)
      BY <1>3, <2>2
    <3>2. \A i \in 1..n : c.score[i] = q <=> b.score[i] = q
      BY <1>12, <2>0, <2>2, <3>1
    <3>3. {i \in 1..n : c.score[i] = q} = {i \in 1..n : b.score[i] = q}
      BY <3>2
    <3> QED BY <1>1, <3>1, <3>3
  <2> QED BY <2>1, <2>2
<1>16. c.round - 1 = r /\ Slots(c) = m /\ c.round \in 1..(R + 1)
  <2>1. c.round - 1 = r /\ R + 1 - c.round = R - r /\ c.round \in 1..(R + 1)
    BY <1>1, <1>3, <1>12
  <2> QED BY <1>12, <2>1 DEF Slots, R, m
<1> QED BY <1>1, <1>5, <1>9, <1>12, <1>13, <1>14, <1>15, <1>16 DEF Orderly, R, W

(* What TournamentRanks says of a bracket in order.                        *)
LEMMA OrderlyIsConsistent ==
  ASSUME NEW b, Orderly(b) PROVE Consistent(b)
<1> DEFINE n == Len(b.score)
           r == b.round
           l == Left(n, r - 1)
           R == Rounds(n)
           m == Pow2[R + 1 - r]
<1>1. /\ n \in Nat \ {0} /\ r \in 1..(R + 1) /\ R \in Nat
      /\ b.score \in [1..n -> 0..(r - 1)]
      /\ Seated(b.slots, n, m, l)
      /\ {i \in 1..n : b.score[i] = 0} = Sitting(b.slots, l)
      /\ \A q \in 1..(r - 1) :
           Cardinality({i \in 1..n : b.score[i] = q}) = Left(n, q - 1) - Left(n, q)
  BY EnoughSlots DEF Orderly, Slots
<1>2. m \in Nat \ {0} /\ (R + 1 - r = 0 \/ m > 1)
  <2>1. R + 1 - r \in Nat
    BY <1>1
  <2>2. m \in Nat \ {0} /\ R + 1 - r < m
    BY <2>1, Pow2Is, Pow2Grows
  <2> QED BY <2>1, <2>2
<1> HIDE DEF n, r, l, R, m
<1>3. /\ b.slots \in [1..m -> 0..n] /\ l \in 1..m
      /\ \A k \in 1..m : b.slots[k] = Bye <=> k > l
      /\ \A j, k \in 1..l : b.slots[j] = b.slots[k] => j = k
  BY <1>1 DEF Seated
<1>4. DOMAIN b.slots = 1..m /\ Len(b.slots) = m
  BY <1>2, <1>3
<1>5. \A k \in 1..m : b.slots[k] # Bye <=> k \in 1..l
  BY <1>2, <1>3
<1>6. \A i, j \in DOMAIN b.slots :
        i # j /\ b.slots[i] # Bye => b.slots[i] # b.slots[j]
  BY <1>3, <1>4, <1>5
<1>7. \A i \in 1..n : b.score[i] = 0 <=> i \in ToSet(b.slots)
  <2>1. \A i \in 1..n : i \in ToSet(b.slots) <=> i \in Sitting(b.slots, l)
    <3>1. \A k \in 1..l : k \in 1..m
      BY <1>2, <1>3
    <3> QED BY <1>4, <1>5, <3>1 DEF ToSet, Sitting, Bye
  <2> QED BY <1>1, <2>1
<1>8. r - 1 \in Nat /\ \A q \in DOMAIN b.score : b.score[q] < r
  BY <1>1
<1>9. ASSUME IsOver(b) PROVE Final(b) \in Ranking(n)
  <2>1. m = 1 /\ r = R + 1 /\ l = 1 /\ 1 \in 1..m
    BY <1>1, <1>2, <1>3, <1>4, <1>9 DEF IsOver
  <2> DEFINE x == b.slots[1]
             F == Final(b)
  <2>2. x # Bye /\ x \in 1..n /\ Sitting(b.slots, l) = {x}
    <3>1. x # Bye /\ x \in 0..n
      BY <1>3, <1>5, <2>1
    <3>2. 1..l = {1}
      BY <2>1
    <3> QED BY <3>1, <3>2 DEF Sitting, Bye
  <2>3. F = [i \in 1..n |-> IF i = x THEN r ELSE b.score[i]]
    BY <1>1 DEF Final, r
  <2> HIDE DEF x, F
  <2>4. \A i \in 1..n : b.score[i] = 0 <=> i = x
    BY <1>1, <2>2
  <2>5. F \in [1..n -> 1..(R + 1)]
    <3>1. \A i \in 1..n : i # x => b.score[i] \in 1..(R + 1)
      BY <1>1, <2>1, <2>4
    <3>2. r \in 1..(R + 1)
      BY <1>1
    <3> QED BY <2>3, <3>1, <3>2
  <2>6. Cardinality({i \in 1..n : F[i] = R + 1}) = 1
    <3>1. \A i \in 1..n : F[i] = R + 1 <=> i = x
      BY <1>1, <2>1, <2>3
    <3>2. {i \in 1..n : F[i] = R + 1} = {x}
      BY <2>2, <3>1
    <3> QED BY <3>2, FS_Singleton
  <2>7. ASSUME NEW q \in 1..R
        PROVE  Cardinality({i \in 1..n : F[i] = q}) = Left(n, q - 1) - Left(n, q)
    <3>1. q \in 1..(r - 1) /\ q # r /\ q # 0
      BY <1>1, <2>1
    <3>2. \A i \in 1..n : F[i] = q <=> b.score[i] = q
      BY <2>3, <2>4, <3>1
    <3>3. {i \in 1..n : F[i] = q} = {i \in 1..n : b.score[i] = q}
      BY <3>2
    <3> QED BY <1>1, <3>1, <3>3
  <2> QED BY <2>5, <2>6, <2>7 DEF Ranking, R, F
<1> QED BY <1>1, <1>6, <1>7, <1>8, <1>9 DEF Consistent, n, r

-----------------------------------------------------------------------------
(* The tournaments of a run.                                               *)

Brackets ==
  /\ bracket = [d \in Task |-> bracket[d]]
  /\ \A d \in Task : bracket[d] # NoBracket => Orderly(bracket[d])

LEMMA InitBrackets == Init => Brackets
BY DEF Init, Each, Brackets

LEMMA OpenedInOrder ==
  ASSUME Brackets, NEW d \in Task, Opened(d)
  PROVE  Brackets'
<1>1. CASE bracket' = bracket
  BY <1>1 DEF Brackets
<1>2. ASSUME NEW n \in 1..MaxPlayers, NEW b \in Starts(n, opts.shuffle),
             bracket' = [bracket EXCEPT ![d] = b]
      PROVE  Brackets'
  <2>1. n \in Nat \ {0}
    BY JobAssumption
  <2>2. Orderly(b)
    BY <2>1, StartInOrder
  <2> QED BY <1>2, <2>2 DEF Brackets
<1> QED BY <1>1, <1>2 DEF Opened

LEMMA BracketsStep == TypeInv /\ Brackets /\ [Next]_vars => Brackets'
<1> SUFFICES ASSUME TypeInv, Brackets, [Next]_vars PROVE Brackets'
  OBVIOUS
<1>0. Data \subseteq Task
  BY DataAreTasks DEF TypeInv, Types, OfJob
<1>1. CASE UNCHANGED bracket
  BY <1>1 DEF Brackets
<1>2. CASE UNCHANGED vars \/ StartJob \/ StartFails \/ Abort \/ WriteAnswers
           \/ NextIteration \/ EndBatch
  BY <1>1, <1>2 DEF vars, searchVars, StartJob, StartFails, Abort, WriteAnswers,
                    NextIteration, EndBatch
<1>3. CASE Crash
  BY <1>3 DEF Crash, Each, Brackets
<1>4. ASSUME NEW d \in Data, Work(d)
      PROVE  Brackets'
  <2>0. d \in Task
    BY <1>0
  <2>1. CASE \/ Skip(d) \/ Start(d) \/ Praise(d) \/ Check(d) \/ ClientStep(d)
             \/ EndSearch(d) \/ Save(d) \/ Deliver(d) \/ Respond(d)
             \/ Raise(d) \/ RaiseAll(d)
    BY <1>1, <2>1 DEF Skip, Start, Praise, Check, ClientStep, EndSearch, Save, Deliver,
                      Respond, Raise, RaiseAll, searchVars
  <2>2. CASE Judge(d) \/ CheckReturns(d) \/ CheckFails(d)
    BY <1>1, <2>0, <2>2, OpenedInOrder DEF Judge, CheckReturns, CheckFails
  <2>3. CASE PlayRound(d)
    <3>1. PICK c \in Played(bracket[d]) : bracket' = [bracket EXCEPT ![d] = c]
      BY <2>3 DEF PlayRound
    <3>2. Orderly(c)
      BY <2>0, <2>3, RoundInOrder DEF PlayRound, Brackets
    <3> QED BY <3>1, <3>2 DEF Brackets
  <2>4. CASE EndTournament(d)
    BY <2>0, <2>4 DEF EndTournament, Brackets
  <2> QED BY <1>4, <2>1, <2>2, <2>3, <2>4 DEF Work
<1> QED BY <1>2, <1>3, <1>4 DEF Next, Progress

(* Every tournament, whatever the number of players and whoever wins each  *)
(* game, stays in order: a player sits in one slot, those without a score  *)
(* are those who still play, each round is lost by as many as a ranking    *)
(* says, and what the last round leaves is a ranking (TournamentEvaluator  *)
(* and its asynchronous twin).                                             *)
THEOREM TournamentsAreRankings == Spec => []TournamentRanks
<1>1. TypeInv /\ Brackets /\ [Next]_vars => Brackets'
  BY BracketsStep
<1>2. Brackets => TournamentRanks
  BY OrderlyIsConsistent DEF Brackets, TournamentRanks
<1> QED BY <1>1, <1>2, InitBrackets, Typed, PTL DEF Spec

-----------------------------------------------------------------------------
(* Sequences that are made step by step.                                   *)

(* g begins with a and takes the steps F; g and h take the same steps.     *)
Steps(g, A, a, n, F) ==
  g \in [0..n -> A] /\ g[0] = a /\ \A i \in 1..n : g[i] = F[i][g[i - 1]]

Alike(g, h, n) ==
  g[0] = h[0] /\ \A i \in 1..n : g[i - 1] = h[i - 1] => g[i] = h[i]

(* A function on 0..n is defined by its first value and by the step from   *)
(* a value to the next.                                                    *)
LEMMA Stepwise ==
  ASSUME NEW A, NEW a \in A, NEW n \in Nat, NEW F \in [1..n -> [A -> A]]
  PROVE  \E g : Steps(g, A, a, n, F)
<1> DEFINE Walk(g, m) == /\ g \in [0..m -> A] /\ g[0] = a
                         /\ \A i \in 1..m : g[i] = F[i][g[i - 1]]
           S == {m \in Nat : m <= n => \E g : Walk(g, m)}
<1>1. 0 \in S
  <2>1. Walk([i \in 0..0 |-> a], 0)
    OBVIOUS
  <2> QED BY <2>1
<1>2. ASSUME NEW m \in Nat, m \in S PROVE m + 1 \in S
  <2> SUFFICES ASSUME m + 1 <= n PROVE \E g : Walk(g, m + 1)
    OBVIOUS
  <2>1. PICK g : Walk(g, m)
    BY <1>2
  <2> DEFINE x == F[m + 1][g[m]]
             h == [i \in 0..(m + 1) |-> IF i <= m THEN g[i] ELSE x]
  <2>2. m + 1 \in 1..n /\ m \in 0..m /\ g[m] \in A
    BY <2>1
  <2>3. x \in A
    BY <2>2
  <2>4. \A i \in 0..m : h[i] = g[i] /\ g[i] \in A
    BY <2>1
  <2>5. h[m + 1] = x
    OBVIOUS
  <2>6. h \in [0..(m + 1) -> A]
    <3>1. \A i \in 0..(m + 1) : i \in 0..m \/ i = m + 1
      OBVIOUS
    <3>2. \A i \in 0..(m + 1) : h[i] \in A
      BY <2>3, <2>4, <2>5, <3>1
    <3> QED BY <3>2
  <2>7. ASSUME NEW i \in 1..(m + 1) PROVE h[i] = F[i][h[i - 1]]
    <3>1. CASE i = m + 1
      <4>1. (m + 1) - 1 = m /\ m \in 0..m
        OBVIOUS
      <4>2. h[m + 1] = F[m + 1][h[m]]
        BY <2>4, <2>5, <4>1
      <4> QED BY <3>1, <4>1, <4>2
    <3>2. CASE i \in 1..m
      <4>1. i - 1 \in 0..m /\ i \in 0..m
        BY <3>2
      <4> QED BY <2>1, <2>4, <3>2, <4>1
    <3> QED BY <3>1, <3>2
  <2>8. h[0] = a
    BY <2>1, <2>4
  <2>9. Walk(h, m + 1)
    BY <2>6, <2>7, <2>8
  <2> HIDE DEF h, Walk
  <2> QED BY <2>9
<1>3. n \in S
  <2> HIDE DEF S
  <2> QED BY <1>1, <1>2, SetInduction
<1> QED BY <1>3 DEF Steps

(* Two functions with the same first value agree as far as they take the   *)
(* same steps.                                                             *)
LEMMA SameSteps ==
  ASSUME NEW n \in Nat, NEW g, NEW h, Alike(g, h, n)
  PROVE  \A i \in 0..n : g[i] = h[i]
<1> DEFINE S == {i \in Nat : i <= n => g[i] = h[i]}
<1>1. 0 \in S
  BY DEF Alike
<1>2. ASSUME NEW i \in Nat, i \in S PROVE i + 1 \in S
  <2>1. i + 1 <= n => i + 1 \in 1..n /\ (i + 1) - 1 = i
    OBVIOUS
  <2> QED BY <1>2, <2>1 DEF Alike
<1>3. \A i \in Nat : i \in S
  <2> HIDE DEF S
  <2> QED BY <1>1, <1>2, SetInduction
<1> QED BY <1>3

(* What holds of the empty sequence, and of a sequence with one more       *)
(* element, holds of all.                                                  *)
LEMMA SeqInduction ==
  ASSUME NEW S, NEW T, <<>> \in T,
         \A s \in Seq(S) : \A c \in S : s \in T => Append(s, c) \in T
  PROVE  \A s \in Seq(S) : s \in T
<1> DEFINE N == {n \in Nat : \A s \in Seq(S) : Len(s) = n => s \in T}
<1>1. 0 \in N
  <2>1. \A s \in Seq(S) : Len(s) = 0 => s = <<>>
    OBVIOUS
  <2> QED BY <2>1
<1>2. ASSUME NEW n \in Nat, n \in N PROVE n + 1 \in N
  <2>1. ASSUME NEW s \in Seq(S), Len(s) = n + 1 PROVE s \in T
    <3>1. s # <<>>
      BY <2>1
    <3>2. PICK r \in Seq(S), c \in S : s = Append(r, c)
      BY <3>1, SequenceEmptyOrAppend
    <3>3. Len(r) = n
      BY <2>1, <3>2
    <3> QED BY <1>2, <3>2, <3>3
  <2> QED BY <2>1
<1>3. \A n \in Nat : n \in N
  <2> HIDE DEF N
  <2> QED BY <1>1, <1>2, SetInduction
<1> QED BY <1>3

(* Sequences of sequences, joined one after the other.                     *)
LEMMA FlattenIs ==
  ASSUME NEW S, NEW ss \in Seq(Seq(S))
  PROVE  \E g \in [0..Len(ss) -> Seq(S)] :
           /\ g[0] = <<>> /\ \A i \in 1..Len(ss) : g[i] = g[i - 1] \o ss[i]
           /\ FlattenSeq(ss) = g[Len(ss)]
<1> DEFINE A == Seq(S)
<1>1. PICK n \in Nat : n = Len(ss)
  OBVIOUS
<1>2. \A i \in 1..n : ss[i] \in A
  BY <1>1
<1>5. <<>> \in A
  BY EmptySeq
<1> DEFINE F == [i \in 1..n |-> [x \in A |-> x \o ss[i]]]
<1>3. F \in [1..n -> [A -> A]]
  BY <1>2
<1>4. \A i \in 1..n : \A x \in A : F[i][x] = x \o ss[i]
  OBVIOUS
<1>10. ss \in Seq(A)
  OBVIOUS
<1> HIDE DEF A, F
<1>12. PICK g : Steps(g, A, <<>>, n, F)
  BY <1>3, <1>5, Stepwise
<1>6. g \in [0..n -> A] /\ g[0] = <<>> /\ \A i \in 1..n : g[i] = F[i][g[i - 1]]
  BY <1>12 DEF Steps
<1>7. \A i \in 1..n : g[i - 1] \in A /\ g[i] = g[i - 1] \o ss[i]
  <2>1. \A i \in 1..n : i - 1 \in 0..n
    OBVIOUS
  <2> QED BY <1>4, <1>6, <2>1
<1>8. CASE n = 0
  <2>2. ss = <<>>
    BY <1>1, <1>8, <1>10, EmptySeq
  <2>1. FlattenSeq(ss) = <<>>
    BY <2>2 DEF FlattenSeq
  <2> QED BY <1>1, <1>6, <1>7, <1>8, <2>1 DEF A
<1>9. CASE n # 0
  <2> DEFINE Eq(f) == f = [i \in 1..n |-> IF i = 1 THEN ss[i] ELSE f[i - 1] \o ss[i]]
             w == [i \in 1..n |-> g[i]]
             v == CHOOSE f : Eq(f)
  <2>1. \A i \in 1..n : w[i] = IF i = 1 THEN ss[i] ELSE w[i - 1] \o ss[i]
    <3>1. \A i \in 1..n : i # 1 => i - 1 \in 1..n
      OBVIOUS
    <3>4. 1 \in 1..n /\ 1 - 1 = 0
      BY <1>9
    <3>2. 1 \in 1..n /\ g[1] = <<>> \o ss[1]
      BY <1>6, <1>7, <3>4
    <3>3. <<>> \o ss[1] = ss[1]
      BY <1>2, <3>2 DEF A
    <3> QED BY <1>7, <3>1, <3>2, <3>3
  <2>2. Eq(w)
    BY <2>1
  <2>3. FlattenSeq(ss) = v[n]
    BY <1>1, <1>9 DEF FlattenSeq
  <2>4. Eq(v)
    <3> HIDE DEF w, Eq
    <3> QED BY <2>2
  <2> HIDE DEF v
  <2> DEFINE u == [i \in 0..n |-> IF i = 0 THEN <<>> ELSE v[i]]
  <2>5. \A i \in 1..n : v[i] = IF i = 1 THEN ss[i] ELSE v[i - 1] \o ss[i]
    BY <2>4
  <2>6. ASSUME NEW i \in 1..n, u[i - 1] = g[i - 1] PROVE u[i] = g[i]
    <3>1. u[i] = v[i] /\ i - 1 \in 0..n
      OBVIOUS
    <3>2. CASE i = 1
      <4>1. v[i] = ss[1] /\ ss[1] \in Seq(S)
        BY <1>2, <2>5, <3>2 DEF A
      <4>2. i - 1 = 0 /\ g[i] = g[i - 1] \o ss[i]
        <5>1. i - 1 = 0
          BY <3>2
        <5> QED BY <1>7, <5>1
      <4>3. g[i] = <<>> \o ss[1]
        BY <1>6, <3>2, <4>2
      <4> QED BY <3>1, <4>1, <4>3
    <3>3. CASE i # 1
      <4>1. u[i - 1] = v[i - 1]
        BY <3>1, <3>3
      <4> QED BY <1>7, <2>5, <2>6, <3>1, <3>3, <4>1
    <3> QED BY <3>2, <3>3
  <2>7. u[0] = g[0]
    BY <1>6
  <2>8. \A i \in 0..n : u[i] = g[i]
    <3>1. Alike(u, g, n)
      BY <2>6, <2>7 DEF Alike
    <3> HIDE DEF u
    <3> QED BY <3>1, SameSteps
  <2>9. n \in 0..n /\ u[n] = v[n]
    BY <1>9
  <2>10. FlattenSeq(ss) = g[n]
    BY <2>3, <2>8, <2>9
  <2> QED BY <1>1, <1>6, <1>7, <2>10 DEF A
<1> QED BY <1>8, <1>9

LEMMA FlattenType ==
  ASSUME NEW S, NEW ss \in Seq(Seq(S))
  PROVE  FlattenSeq(ss) \in Seq(S)
<1>1. PICK g \in [0..Len(ss) -> Seq(S)] : FlattenSeq(ss) = g[Len(ss)]
  BY FlattenIs
<1>2. Len(ss) \in 0..Len(ss)
  OBVIOUS
<1> QED BY <1>1, <1>2

LEMMA FlattenNone == FlattenSeq(<<>>) = <<>>
BY DEF FlattenSeq

(* One more sequence is put at the end.                                    *)
LEMMA FlattenMore ==
  ASSUME NEW S, NEW n \in Nat, NEW f \in [1..(n + 1) -> Seq(S)]
  PROVE  /\ FlattenSeq([i \in 1..n |-> f[i]]) \in Seq(S)
         /\ FlattenSeq(f) = FlattenSeq([i \in 1..n |-> f[i]]) \o f[n + 1]
<1> DEFINE e == [i \in 1..n |-> f[i]]
<1>1. f \in Seq(Seq(S)) /\ Len(f) = n + 1
  OBVIOUS
<1>2. e \in Seq(Seq(S)) /\ Len(e) = n
  OBVIOUS
<1>3. \A i \in 1..n : e[i] = f[i]
  OBVIOUS
<1> HIDE DEF e
<1>4. PICK g \in [0..(n + 1) -> Seq(S)] :
        /\ g[0] = <<>> /\ \A i \in 1..(n + 1) : g[i] = g[i - 1] \o f[i]
        /\ FlattenSeq(f) = g[n + 1]
  BY <1>1, FlattenIs
<1>5. PICK h \in [0..n -> Seq(S)] :
        /\ h[0] = <<>> /\ \A i \in 1..n : h[i] = h[i - 1] \o e[i]
        /\ FlattenSeq(e) = h[n]
  BY <1>2, FlattenIs
<1>6. \A i \in 1..n : g[i - 1] = h[i - 1] => g[i] = h[i]
  <2>1. \A i \in 1..n : i \in 1..(n + 1)
    OBVIOUS
  <2> QED BY <1>3, <1>4, <1>5, <2>1
<1>7. \A i \in 0..n : g[i] = h[i]
  <2>1. Alike(g, h, n)
    BY <1>4, <1>5, <1>6 DEF Alike
  <2>2. \A p, q : Alike(p, q, n) => \A i \in 0..n : p[i] = q[i]
    BY SameSteps
  <2> QED BY <2>1, <2>2, Zenon
<1>8. n \in 0..n /\ n + 1 \in 1..(n + 1) /\ (n + 1) - 1 = n
  OBVIOUS
<1>9. FlattenSeq(f) = h[n] \o f[n + 1]
  BY <1>4, <1>7, <1>8
<1> QED BY <1>5, <1>8, <1>9 DEF e

-----------------------------------------------------------------------------
(* Labels.                                                                 *)

LEMMA FrontAndLast ==
  ASSUME NEW S, NEW s \in Seq(S), NEW c \in S
  PROVE  /\ Front(Append(s, c)) = s /\ Last(Append(s, c)) = c
         /\ s # <<>> => Front(s) \in Seq(S) /\ Last(s) \in S
         /\ s # <<>> => s = Append(Front(s), Last(s))
         /\ s # <<>> => Len(s) # 0 /\ Len(Front(s)) = Len(s) - 1
<1>1. ASSUME NEW r \in Seq(S), NEW e \in S
      PROVE  Front(Append(r, e)) = r /\ Last(Append(r, e)) = e
  <2>1. Len(Append(r, e)) = Len(r) + 1 /\ Append(r, e)[Len(r) + 1] = e
    BY AppendProperties
  <2>2. Last(Append(r, e)) = e
    BY <2>1 DEF Last
  <2>3. Front(Append(r, e)) = SubSeq(Append(r, e), 1, Len(r))
    BY <2>1 DEF Front
  <2>4. SubSeq(Append(r, e), 1, Len(r)) = r
    OBVIOUS
  <2> QED BY <2>2, <2>3, <2>4
<1>2. ASSUME s # <<>>
      PROVE  /\ Front(s) \in Seq(S) /\ Last(s) \in S /\ s = Append(Front(s), Last(s))
             /\ Len(s) # 0 /\ Len(Front(s)) = Len(s) - 1
  <2>1. PICK r \in Seq(S), e \in S : s = Append(r, e)
    BY <1>2, SequenceEmptyOrAppend
  <2>2. Len(s) = Len(r) + 1 /\ Len(r) \in Nat
    BY <2>1, AppendProperties
  <2> QED BY <1>1, <2>1, <2>2
<1> QED BY <1>1, <1>2

LEMMA UnescapeType ==
  ASSUME NEW S, NL \in S, NEW s \in Seq(S), NEW c \in S
  PROVE  Unescape(s, c) \in Seq(S)
<1>1. s # <<>> => Front(s) \in Seq(S)
  BY FrontAndLast
<1>2. Append(s, c) \in Seq(S) /\ \A r \in Seq(S) : Append(r, c) \in Seq(S) /\ Append(r, NL) \in Seq(S)
  BY AppendProperties
<1> QED BY <1>1, <1>2 DEF Unescape, EndsWith

LEMMA ReplacedIs ==
  ASSUME NEW S, NL \in S, NEW t \in Seq(S)
  PROVE  \E u \in [0..Len(t) -> Seq(S)] :
           /\ u[0] = <<>> /\ \A i \in 1..Len(t) : u[i] = Unescape(u[i - 1], t[i])
           /\ Replaced(t) = u[Len(t)]
<1> DEFINE A == Seq(S)
<1>1. PICK n \in Nat : n = Len(t)
  OBVIOUS
<1>2. \A i \in 1..n : t[i] \in S
  BY <1>1
<1> DEFINE F == [i \in 1..n |-> [x \in A |-> Unescape(x, t[i])]]
<1>3. F \in [1..n -> [A -> A]]
  BY <1>2, UnescapeType
<1>4. \A i \in 1..n : \A x \in A : F[i][x] = Unescape(x, t[i])
  OBVIOUS
<1>5. <<>> \in A
  BY EmptySeq
<1> HIDE DEF A, F
<1>6. PICK g : Steps(g, A, <<>>, n, F)
  BY <1>3, <1>5, Stepwise
<1>7. /\ g \in [0..n -> A] /\ g[0] = <<>>
      /\ \A i \in 1..n : g[i] = Unescape(g[i - 1], t[i])
  <2>1. g \in [0..n -> A] /\ g[0] = <<>> /\ \A i \in 1..n : g[i] = F[i][g[i - 1]]
    BY <1>6 DEF Steps
  <2>2. \A i \in 1..n : i - 1 \in 0..n
    OBVIOUS
  <2> QED BY <1>4, <2>1, <2>2
<1> DEFINE Eq(f) == f = [i \in 0..n |-> IF i = 0 THEN <<>> ELSE Unescape(f[i - 1], t[i])]
           v == CHOOSE f : Eq(f)
<1>8. Replaced(t) = v[n]
  BY <1>1 DEF Replaced, Folded
<1>9. Eq(g)
  BY <1>7
<1>10. Eq(v)
  <2> HIDE DEF Eq
  <2> QED BY <1>9
<1> HIDE DEF v
<1>11. Alike(v, g, n)
  BY <1>7, <1>10 DEF Alike
<1>12. \A p, q : Alike(p, q, n) => \A i \in 0..n : p[i] = q[i]
  BY SameSteps
<1>13. v[n] = g[n]
  BY <1>11, <1>12
<1> QED BY <1>1, <1>7, <1>8, <1>13 DEF A

(* What was replaced stays when more of the label comes.                   *)
LEMMA ReplacedMore ==
  ASSUME NEW S, NL \in S, NEW t \in Seq(S), NEW c \in S
  PROVE  /\ Replaced(t) \in Seq(S)
         /\ Replaced(Append(t, c)) = Unescape(Replaced(t), c)
<1> DEFINE r == Append(t, c)
<1>1. PICK n \in Nat : n = Len(t)
  OBVIOUS
<1>2. r \in Seq(S) /\ Len(r) = n + 1 /\ r[n + 1] = c /\ \A i \in 1..n : r[i] = t[i]
  BY <1>1, AppendProperties
<1> HIDE DEF r
<1>11. PICK g \in [0..Len(r) -> Seq(S)] :
        /\ g[0] = <<>> /\ \A i \in 1..Len(r) : g[i] = Unescape(g[i - 1], r[i])
        /\ Replaced(r) = g[Len(r)]
  BY <1>2, ReplacedIs
<1>3. /\ g \in [0..(n + 1) -> Seq(S)]
      /\ g[0] = <<>> /\ \A i \in 1..(n + 1) : g[i] = Unescape(g[i - 1], r[i])
      /\ Replaced(r) = g[n + 1]
  BY <1>2, <1>11
<1>4. PICK h \in [0..n -> Seq(S)] :
        /\ h[0] = <<>> /\ \A i \in 1..n : h[i] = Unescape(h[i - 1], t[i])
        /\ Replaced(t) = h[n]
  BY <1>1, ReplacedIs
<1>5. Alike(g, h, n)
  <2>1. \A i \in 1..n : i \in 1..(n + 1)
    OBVIOUS
  <2> QED BY <1>2, <1>3, <1>4, <2>1 DEF Alike
<1>6. \A p, q : Alike(p, q, n) => \A i \in 0..n : p[i] = q[i]
  BY SameSteps
<1>7. \A i \in 0..n : g[i] = h[i]
  BY <1>5, <1>6, Zenon
<1>8. n \in 0..n /\ n + 1 \in 1..(n + 1) /\ (n + 1) - 1 = n
  OBVIOUS
<1>9. g[n + 1] = Unescape(h[n], c)
  BY <1>2, <1>3, <1>7, <1>8
<1>10. h[n] \in Seq(S)
  BY <1>8
<1> QED BY <1>3, <1>4, <1>9, <1>10 DEF r

LEMMA ReplacedNone == Replaced(<<>>) = <<>>
<1>1. <<>> \in Seq({NL}) /\ Len(<<>>) = 0
  BY EmptySeq
<1>2. PICK u : u[0] = <<>> /\ Replaced(<<>>) = u[Len(<<>>)]
  <2>1. \E u \in [0..Len(<<>>) -> Seq({NL})] :
          u[0] = <<>> /\ Replaced(<<>>) = u[Len(<<>>)]
    BY <1>1, ReplacedIs
  <2> QED BY <2>1
<1> QED BY <1>1, <1>2

Begin == [text |-> <<>>, at |-> "text"]

States(S) == [text : Seq(S), at : {"text", "escape", "error"}]

LEMMA DecodeType ==
  ASSUME NEW S, {BS, TAB, UNI} \subseteq S, NEW s \in States(S), NEW c \in S
  PROVE  Decode(s, c) \in States(S)
<1>1. PICK t \in Seq(S), a \in {"text", "escape", "error"} : s = [text |-> t, at |-> a]
  BY DEF States
<1>2. Append(t, c) \in Seq(S)
  BY AppendProperties
<1>3. t \o Meaning(c) \in Seq(S)
  <2>1. Meaning(c) \in Seq(S)
    BY DEF Meaning
  <2> QED BY <2>1, ConcatProperties
<1>4. CASE a = "escape" /\ c = LetterU
  BY <1>1, <1>4 DEF Decode, States
<1>5. CASE a = "escape" /\ c # LetterU
  BY <1>1, <1>3, <1>5 DEF Decode, States
<1>6. CASE a = "text" /\ c = BS
  BY <1>1, <1>6 DEF Decode, States
<1>7. CASE a = "text" /\ c # BS
  BY <1>1, <1>2, <1>7 DEF Decode, States
<1>8. CASE a = "error"
  BY <1>1, <1>8 DEF Decode, States
<1> QED BY <1>4, <1>5, <1>6, <1>7, <1>8

LEMMA DecodedIs ==
  ASSUME NEW S, {BS, TAB, UNI} \subseteq S, NEW t \in Seq(S)
  PROVE  \E u \in [0..Len(t) -> States(S)] :
           /\ u[0] = Begin /\ \A i \in 1..Len(t) : u[i] = Decode(u[i - 1], t[i])
           /\ Decoded(t) = u[Len(t)]
<1> DEFINE A == States(S)
<1>1. PICK n \in Nat : n = Len(t)
  OBVIOUS
<1>2. \A i \in 1..n : t[i] \in S
  BY <1>1
<1> DEFINE F == [i \in 1..n |-> [x \in A |-> Decode(x, t[i])]]
<1>3. F \in [1..n -> [A -> A]]
  BY <1>2, DecodeType
<1>4. \A i \in 1..n : \A x \in A : F[i][x] = Decode(x, t[i])
  OBVIOUS
<1>5. Begin \in A
  BY EmptySeq DEF Begin, States
<1> HIDE DEF A, F
<1>6. PICK g : Steps(g, A, Begin, n, F)
  BY <1>3, <1>5, Stepwise
<1>7. /\ g \in [0..n -> A] /\ g[0] = Begin
      /\ \A i \in 1..n : g[i] = Decode(g[i - 1], t[i])
  <2>1. g \in [0..n -> A] /\ g[0] = Begin /\ \A i \in 1..n : g[i] = F[i][g[i - 1]]
    BY <1>6 DEF Steps
  <2>2. \A i \in 1..n : i - 1 \in 0..n
    OBVIOUS
  <2> QED BY <1>4, <2>1, <2>2
<1> DEFINE Eq(f) == f = [i \in 0..n |-> IF i = 0 THEN Begin ELSE Decode(f[i - 1], t[i])]
           v == CHOOSE f : Eq(f)
<1>8. Decoded(t) = v[n]
  BY <1>1 DEF Decoded, Folded, Begin
<1>9. Eq(g)
  BY <1>7
<1>10. Eq(v)
  <2> HIDE DEF Eq
  <2> QED BY <1>9
<1> HIDE DEF v
<1>11. Alike(v, g, n)
  BY <1>7, <1>10 DEF Alike
<1>12. \A p, q : Alike(p, q, n) => \A i \in 0..n : p[i] = q[i]
  BY SameSteps
<1>13. v[n] = g[n]
  BY <1>11, <1>12
<1> QED BY <1>1, <1>7, <1>8, <1>13 DEF A

(* Decoding goes on from where it is.                                      *)
LEMMA DecodedMore ==
  ASSUME NEW S, {BS, TAB, UNI} \subseteq S, NEW t \in Seq(S), NEW c \in S
  PROVE  /\ Decoded(t) \in States(S)
         /\ Decoded(Append(t, c)) = Decode(Decoded(t), c)
<1> DEFINE r == Append(t, c)
<1>1. PICK n \in Nat : n = Len(t)
  OBVIOUS
<1>2. r \in Seq(S) /\ Len(r) = n + 1 /\ r[n + 1] = c /\ \A i \in 1..n : r[i] = t[i]
  BY <1>1, AppendProperties
<1> HIDE DEF r
<1>11. PICK g \in [0..Len(r) -> States(S)] :
        /\ g[0] = Begin /\ \A i \in 1..Len(r) : g[i] = Decode(g[i - 1], r[i])
        /\ Decoded(r) = g[Len(r)]
  BY <1>2, DecodedIs
<1>3. /\ g \in [0..(n + 1) -> States(S)]
      /\ g[0] = Begin /\ \A i \in 1..(n + 1) : g[i] = Decode(g[i - 1], r[i])
      /\ Decoded(r) = g[n + 1]
  BY <1>2, <1>11
<1>4. PICK h \in [0..n -> States(S)] :
        /\ h[0] = Begin /\ \A i \in 1..n : h[i] = Decode(h[i - 1], t[i])
        /\ Decoded(t) = h[n]
  BY <1>1, DecodedIs
<1>5. Alike(g, h, n)
  <2>1. \A i \in 1..n : i \in 1..(n + 1)
    OBVIOUS
  <2> QED BY <1>2, <1>3, <1>4, <2>1 DEF Alike
<1>6. \A p, q : Alike(p, q, n) => \A i \in 0..n : p[i] = q[i]
  BY SameSteps
<1>7. \A i \in 0..n : g[i] = h[i]
  BY <1>5, <1>6, Zenon
<1>8. n \in 0..n /\ n + 1 \in 1..(n + 1) /\ (n + 1) - 1 = n
  OBVIOUS
<1>9. g[n + 1] = Decode(h[n], c)
  BY <1>2, <1>3, <1>7, <1>8
<1>10. h[n] \in States(S)
  BY <1>8
<1> QED BY <1>3, <1>4, <1>9, <1>10 DEF r

LEMMA DecodedNone == Decoded(<<>>) = Begin
<1>1. <<>> \in Seq({BS, TAB, UNI}) /\ Len(<<>>) = 0
  BY EmptySeq
<1>2. PICK u : u[0] = Begin /\ Decoded(<<>>) = u[Len(<<>>)]
  <2>1. \E u \in [0..Len(<<>>) -> States({BS, TAB, UNI})] :
          u[0] = Begin /\ Decoded(<<>>) = u[Len(<<>>)]
    BY <1>1, DecodedIs
  <2> QED BY <2>1
<1> QED BY <1>1, <1>2

(* The label of a text, one symbol longer.                                 *)
Piece(c) ==
  CASE c = NL  -> <<BS, LetterN>>
    [] c = TAB -> <<BS, LetterT>>
    [] c = UNI -> <<BS, Code>>
    [] c = BS  -> <<BS, BS>>
    [] OTHER   -> <<c>>

(* What labels are made of besides the symbols of the text.                *)
Sign == {NL, TAB, UNI, BS, LetterN, LetterT, Code}

LEMMA EscapedMore ==
  ASSUME NEW S, Sign \subseteq S, NEW t \in Seq(S), NEW c \in S
  PROVE  /\ Escaped(t) \in Seq(S)
         /\ Escaped(Append(t, c)) = Escaped(t) \o Piece(c)
<1> DEFINE r == Append(t, c)
<1>1. PICK n \in Nat : n = Len(t)
  OBVIOUS
<1>2. /\ r \in Seq(S) /\ Len(r) = n + 1 /\ r[n + 1] = c /\ \A i \in 1..n : r[i] = t[i]
      /\ DOMAIN r = 1..(n + 1) /\ DOMAIN t = 1..n
  BY <1>1, AppendProperties
<1>3. \A d \in S : Piece(d) \in Seq(S)
  BY DEF Piece, Sign
<1> HIDE DEF r
<1> DEFINE f == [i \in 1..(n + 1) |-> Piece(r[i])]
<1>4. f \in [1..(n + 1) -> Seq(S)]
  BY <1>2, <1>3
<1>5. Escaped(r) = FlattenSeq(f)
  BY <1>2 DEF Escaped, Piece
<1>6. Escaped(t) = FlattenSeq([i \in 1..n |-> f[i]])
  <2>1. [i \in 1..n |-> f[i]] = [i \in 1..n |-> Piece(t[i])]
    BY <1>2
  <2>2. Escaped(t) = FlattenSeq([i \in 1..n |-> Piece(t[i])])
    BY <1>2 DEF Escaped, Piece
  <2> QED BY <2>1, <2>2
<1>7. f[n + 1] = Piece(c)
  BY <1>2
<1> HIDE DEF f
<1>8. /\ FlattenSeq([i \in 1..n |-> f[i]]) \in Seq(S)
      /\ FlattenSeq(f) = FlattenSeq([i \in 1..n |-> f[i]]) \o f[n + 1]
  BY <1>4, FlattenMore
<1> QED BY <1>5, <1>6, <1>7, <1>8 DEF r

LEMMA EscapedNone == Escaped(<<>>) = <<>>
<1>1. DOMAIN <<>> = {}
  OBVIOUS
<1>2. [i \in {} |-> Piece(<<>>[i])] = <<>>
  OBVIOUS
<1>3. Escaped(<<>>) = FlattenSeq([i \in {} |-> Piece(<<>>[i])])
  BY <1>1 DEF Escaped, Piece
<1> QED BY <1>2, <1>3, FlattenNone

(* What the replacements leave of it.                                      *)
Rest(c) ==
  CASE c = NL  -> <<NL>>
    [] c = TAB -> <<BS, LetterT>>
    [] c = UNI -> <<BS, Code>>
    [] OTHER   -> <<c>>

LEMMA AppendTwo ==
  ASSUME NEW S, NEW s \in Seq(S), NEW x \in S, NEW y \in S
  PROVE  s \o <<x, y>> = Append(Append(s, x), y)
OBVIOUS

LEMMA ReplacedPiece ==
  ASSUME NEW S, Sign \subseteq S, NEW e \in Seq(S), NEW c \in S, c # BS,
         ~EndsWith(Replaced(e), BS)
  PROVE  Replaced(e \o Piece(c)) = Replaced(e) \o Rest(c)
<1>1. PICK b \in Seq(S) : b = Replaced(e)
  BY ReplacedMore DEF Sign
<1>2. BS \in S /\ NL \in S
  BY DEF Sign
<1>3. Append(b, BS) \in Seq(S) /\ Append(b, BS) # <<>>
  BY <1>1, <1>2, AppendProperties
<1>4. Last(Append(b, BS)) = BS /\ Front(Append(b, BS)) = b
  BY <1>1, <1>2, FrontAndLast
<1>5. ~EndsWith(b, BS) /\ EndsWith(Append(b, BS), BS)
  BY <1>1, <1>3, <1>4 DEF EndsWith
<1>6. ASSUME NEW y \in S
      PROVE  Replaced(e \o <<BS, y>>) = Unescape(Append(b, BS), y)
  <2> DEFINE x == Append(e, BS)
  <2>1. x \in Seq(S)
    BY <1>2, AppendProperties
  <2>2. Replaced(x) = Unescape(b, BS)
    BY <1>1, <1>2, ReplacedMore
  <2>3. Unescape(b, BS) = Append(b, BS)
    BY DEF Unescape, BS, LetterN, LetterU, Code
  <2>4. e \o <<BS, y>> = Append(x, y)
    BY <1>2, AppendTwo
  <2> HIDE DEF x
  <2>5. Replaced(Append(x, y)) = Unescape(Replaced(x), y)
    BY <1>2, <2>1, ReplacedMore
  <2> QED BY <2>2, <2>3, <2>4, <2>5
<1>7. CASE c = NL
  <2>1. Piece(c) = <<BS, LetterN>> /\ Rest(c) = <<NL>>
    BY <1>7 DEF Piece, Rest, NL, TAB, UNI, BS
  <2>2. Unescape(Append(b, BS), LetterN) = Append(b, NL)
    BY <1>4, <1>5 DEF Unescape
  <2>3. LetterN \in S /\ b \o <<NL>> = Append(b, NL)
    BY <1>1, <1>2, AppendIsConcat DEF Sign
  <2> QED BY <1>1, <1>6, <2>1, <2>2, <2>3
<1>8. CASE c \in {TAB, UNI}
  <2>1. PICK y \in {LetterT, Code} : Piece(c) = <<BS, y>> /\ Rest(c) = <<BS, y>>
    BY <1>8 DEF Piece, Rest, NL, TAB, UNI
  <2>2. Unescape(Append(b, BS), y) = Append(Append(b, BS), y)
    BY <1>4, <1>5 DEF Unescape, LetterN, LetterT, LetterU, Code
  <2>3. y \in S /\ b \o <<BS, y>> = Append(Append(b, BS), y)
    BY <1>1, <1>2, AppendTwo DEF Sign
  <2> QED BY <1>1, <1>6, <2>1, <2>2, <2>3
<1>9. CASE c \notin {NL, TAB, UNI}
  <2>1. Piece(c) = <<c>> /\ Rest(c) = <<c>>
    BY <1>9 DEF Piece, Rest
  <2>2. Replaced(Append(e, c)) = Unescape(b, c)
    BY <1>1, <1>2, ReplacedMore
  <2>3. Unescape(b, c) = Append(b, c)
    BY <1>5 DEF Unescape
  <2>4. e \o <<c>> = Append(e, c) /\ b \o <<c>> = Append(b, c)
    BY <1>1, AppendIsConcat
  <2> QED BY <1>1, <2>1, <2>2, <2>3, <2>4
<1> QED BY <1>7, <1>8, <1>9

LEMMA NewText ==
  ASSUME NEW t, NEW u
  PROVE  LET d == [text |-> t, at |-> "text"] IN
         d.at = "text" /\ [d EXCEPT !.text = u] = [text |-> u, at |-> "text"]
OBVIOUS

LEMMA DecodedPiece ==
  ASSUME NEW S, Sign \subseteq S, NEW b \in Seq(S), NEW s \in Seq(S), NEW c \in S, c # BS,
         Decoded(b) = [text |-> s, at |-> "text"]
  PROVE  Decoded(b \o Rest(c)) = [text |-> Append(s, c), at |-> "text"]
<1>1. BS \in S /\ {BS, TAB, UNI} \subseteq S
  BY DEF Sign
<1>2. CASE c \in {TAB, UNI}
  <2>1. PICK y \in {LetterT, Code} : Rest(c) = <<BS, y>> /\ Meaning(y) = <<c>>
    BY <1>2 DEF Rest, Meaning, NL, TAB, UNI, BS, LetterT, Code
  <2>2. y \in S /\ y # LetterU
    BY DEF Sign, LetterT, Code, LetterU
  <2> DEFINE x == Append(b, BS)
  <2>3. x \in Seq(S) /\ b \o <<BS, y>> = Append(x, y)
    BY <1>1, <2>2, AppendProperties, AppendTwo
  <2>4. Decoded(x) = [text |-> s, at |-> "escape"]
    <3>1. Decoded(x) = Decode(Decoded(b), BS)
      BY <1>1, DecodedMore
    <3> QED BY <3>1 DEF Decode
  <2> HIDE DEF x
  <2>5. Decoded(Append(x, y)) = Decode(Decoded(x), y)
    BY <1>1, <2>2, <2>3, DecodedMore
  <2>6. Decode(Decoded(x), y) = [text |-> s \o <<c>>, at |-> "text"]
    BY <2>1, <2>2, <2>4 DEF Decode
  <2>7. s \o <<c>> = Append(s, c)
    BY AppendIsConcat
  <2> QED BY <2>1, <2>3, <2>5, <2>6, <2>7
<1>3. CASE c \notin {TAB, UNI}
  <2>1. Rest(c) = <<c>>
    BY <1>3 DEF Rest
  <2>2. b \o <<c>> = Append(b, c)
    BY AppendIsConcat
  <2>3. Decoded(Append(b, c)) = Decode(Decoded(b), c)
    BY <1>1, DecodedMore
  <2>4. Decode(Decoded(b), c) = [text |-> Append(s, c), at |-> "text"]
    <3> DEFINE d == [text |-> s, at |-> "text"]
    <3>1. d.at = "text" /\ [d EXCEPT !.text = Append(s, c)] = [text |-> Append(s, c), at |-> "text"]
      BY NewText
    <3>2. d.text = s
      OBVIOUS
    <3> HIDE DEF d
    <3>3. Decode(d, c) = [d EXCEPT !.text = Append(d.text, c)]
      BY <3>1 DEF Decode
    <3> QED BY <3>1, <3>2, <3>3 DEF d
  <2> QED BY <2>1, <2>2, <2>3, <2>4
<1> QED BY <1>2, <1>3

LEMMA EndOf ==
  ASSUME NEW S, NEW s \in Seq(S), NEW r \in Seq(S), r # <<>>
  PROVE  s \o r # <<>> /\ Last(s \o r) = Last(r)
<1>1. Len(s) \in Nat /\ Len(r) \in Nat \ {0}
  BY EmptySeq
<1>2. Len(s \o r) = Len(s) + Len(r) /\ \A i \in 1..Len(s) + Len(r) :
        (s \o r)[i] = IF i <= Len(s) THEN s[i] ELSE r[i - Len(s)]
  BY ConcatProperties
<1>3. (s \o r)[Len(s) + Len(r)] = r[Len(r)]
  BY <1>1, <1>2
<1>4. Len(<<>>) = 0
  OBVIOUS
<1> QED BY <1>1, <1>2, <1>3, <1>4 DEF Last

(* What the replacements make of the label of a text without backslashes.  *)
ReadsAs(t, b) ==
  /\ ~EndsWith(b, BS)
  /\ Decoded(b) = [text |-> t, at |-> "text"]
  /\ (\A i \in 1..Len(t) : t[i] \notin {TAB, UNI}) => b = t
  /\ (\E i \in 1..Len(t) : t[i] = UNI) => HasCode(b)

LEMMA ReadsAsMore ==
  ASSUME NEW S, Sign \subseteq S, NEW b \in Seq(S), NEW s \in Seq(S), NEW c \in S, c # BS,
         ReadsAs(s, b)
  PROVE  ReadsAs(Append(s, c), b \o Rest(c))
<1> DEFINE r == Append(s, c)
           p == Rest(c)
<1>1. /\ r \in Seq(S) /\ Len(r) = Len(s) + 1 /\ r[Len(s) + 1] = c /\ Len(s) \in Nat
      /\ \A i \in 1..Len(s) : r[i] = s[i]
  BY AppendProperties
<1>2. p \in Seq(S) /\ p # <<>> /\ Last(p) # BS
  <2>1. p \in {<<NL>>, <<BS, LetterT>>, <<BS, Code>>, <<c>>}
    BY DEF Rest
  <2>2. /\ Last(<<NL>>) = NL /\ Last(<<BS, LetterT>>) = LetterT
        /\ Last(<<BS, Code>>) = Code /\ Last(<<c>>) = c
    BY DEF Last
  <2>3. NL # BS /\ LetterT # BS /\ Code # BS
    BY DEF NL, LetterT, Code, BS
  <2>4. /\ <<NL>> \in Seq(S) /\ <<BS, LetterT>> \in Seq(S)
        /\ <<BS, Code>> \in Seq(S) /\ <<c>> \in Seq(S)
    BY DEF Sign
  <2>5. p # <<>>
    <3>1. \A x, y : <<x>> # <<>> /\ <<x, y>> # <<>>
      OBVIOUS
    <3> HIDE DEF p
    <3> QED BY <2>1, <3>1
  <2> HIDE DEF p
  <2> QED BY <2>1, <2>2, <2>3, <2>4, <2>5
<1>3. Decoded(b \o p) = [text |-> r, at |-> "text"]
  BY DecodedPiece DEF ReadsAs
<1>4. ~EndsWith(b \o p, BS)
  <2> HIDE DEF p
  <2> QED BY <1>2, EndOf DEF EndsWith
<1>5. ASSUME \A i \in 1..Len(r) : r[i] \notin {TAB, UNI} PROVE b \o p = r
  <2>1. Len(s) + 1 \in 1..Len(r) /\ \A i \in 1..Len(s) : i \in 1..Len(r)
    BY <1>1
  <2>2. c \notin {TAB, UNI} /\ \A i \in 1..Len(s) : s[i] \notin {TAB, UNI}
    BY <1>1, <1>5, <2>1
  <2>3. p = <<c>>
    BY <2>2 DEF Rest
  <2>4. b = s
    BY <2>2 DEF ReadsAs
  <2> QED BY <2>3, <2>4, AppendIsConcat
<1>6. ASSUME NEW i \in 1..Len(r), r[i] = UNI PROVE HasCode(b \o p)
  <2>1. Len(b) \in Nat /\ Len(p) \in Nat /\ Len(b \o p) = Len(b) + Len(p)
        /\ \A k \in 1..Len(b) + Len(p) :
             (b \o p)[k] = IF k <= Len(b) THEN b[k] ELSE p[k - Len(b)]
    <3> HIDE DEF p
    <3> QED BY <1>2, ConcatProperties
  <2>2. CASE c = UNI
    <3>1. p = <<BS, Code>>
      BY <2>2 DEF Rest, NL, TAB, UNI
    <3>2. Len(p) = 2 /\ p[1] = BS /\ p[2] = Code
      BY <3>1
    <3> HIDE DEF p
    <3>3. Len(b) + 1 \in 1..(Len(b \o p) - 1)
      BY <2>1, <3>2
    <3>4. (b \o p)[Len(b) + 1] = BS /\ (b \o p)[(Len(b) + 1) + 1] = Code
      BY <2>1, <3>2
    <3> QED BY <3>3, <3>4 DEF HasCode
  <2>3. CASE c # UNI
    <3>1. i \in 1..Len(s) /\ s[i] = UNI
      BY <1>1, <1>6, <2>3
    <3>2. HasCode(b)
      BY <3>1 DEF ReadsAs
    <3>3. PICK k \in 1..(Len(b) - 1) : b[k] = BS /\ b[k + 1] \in {LetterU, Code}
      BY <3>2 DEF HasCode
    <3> HIDE DEF p
    <3>4. k \in 1..(Len(b \o p) - 1) /\ (b \o p)[k] = b[k] /\ (b \o p)[k + 1] = b[k + 1]
      BY <2>1
    <3> QED BY <3>3, <3>4 DEF HasCode
  <2> QED BY <2>2, <2>3
<1> HIDE DEF r, p
<1>7. ReadsAs(r, b \o p)
  BY <1>3, <1>4, <1>5, <1>6 DEF ReadsAs
<1> QED BY <1>7 DEF r, p

LEMMA TextReads ==
  ASSUME NEW S, Sign \subseteq S, NEW t \in Seq(S), \A i \in 1..Len(t) : t[i] # BS
  PROVE  ReadsAs(t, Replaced(Escaped(t)))
<1> DEFINE R(s) == Replaced(Escaped(s))
           T == {s \in Seq(S) : (\A i \in 1..Len(s) : s[i] # BS) => ReadsAs(s, R(s))}
<1>1. <<>> \in T
  <2>1. R(<<>>) = <<>>
    BY EscapedNone, ReplacedNone
  <2>2. Decoded(<<>>) = [text |-> <<>>, at |-> "text"]
    BY DecodedNone DEF Begin
  <2>3. Len(<<>>) = 0
    OBVIOUS
  <2>4. ReadsAs(<<>>, <<>>)
    BY <2>2, <2>3 DEF ReadsAs, EndsWith
  <2> QED BY <2>1, <2>4, EmptySeq
<1>2. ASSUME NEW s \in Seq(S), NEW c \in S, s \in T PROVE Append(s, c) \in T
  <2> DEFINE r == Append(s, c)
  <2>1. /\ r \in Seq(S) /\ Len(r) = Len(s) + 1 /\ r[Len(s) + 1] = c
        /\ \A i \in 1..Len(s) : r[i] = s[i]
    BY AppendProperties
  <2> SUFFICES ASSUME \A i \in 1..Len(r) : r[i] # BS PROVE ReadsAs(r, R(r))
    BY <2>1
  <2>2. c # BS /\ \A i \in 1..Len(s) : s[i] # BS
    BY <2>1
  <2> DEFINE e == Escaped(s)
             b == R(s)
  <2>3. e \in Seq(S) /\ Escaped(r) = e \o Piece(c)
    BY EscapedMore
  <2>4. ReadsAs(s, b)
    BY <1>2, <2>2
  <2>5. b \in Seq(S)
    BY <2>3, ReplacedMore DEF Sign
  <2>6. b = Replaced(e)
    OBVIOUS
  <2> HIDE DEF e, b, r
  <2>7. Replaced(e \o Piece(c)) = b \o Rest(c)
    BY <2>2, <2>3, <2>4, <2>6, ReplacedPiece DEF ReadsAs
  <2>8. ReadsAs(Append(s, c), b \o Rest(c))
    BY <2>2, <2>4, <2>5, ReadsAsMore
  <2> QED BY <2>3, <2>7, <2>8 DEF r
<1>3. \A s \in Seq(S) : s \in T
  <2> HIDE DEF T
  <2> QED BY <1>1, <1>2, SeqInduction
<1> QED BY <1>3

(* A label says what the text is, if the text is legible.                  *)
LEMMA LabelTells ==
  ASSUME NEW S, NEW t \in Seq(S), Legible(t)
  PROVE  Unescaped(Escaped(t)) = t
<1> DEFINE U == S \union Sign
           b == Replaced(Escaped(t))
<1>1. t \in Seq(U) /\ Sign \subseteq U /\ ToSet(t) = {t[i] : i \in 1..Len(t)}
  BY SeqMonotonic DEF ToSet
<1> HIDE DEF U
<1>2. \A i \in 1..Len(t) : t[i] # BS
  BY <1>1 DEF Legible
<1>3. ReadsAs(t, b)
  BY <1>1, <1>2, TextReads
<1>4. Unescaped(Escaped(t)) =
        IF HasCode(b) /\ Decoded(b).at = "text" THEN Decoded(b).text ELSE b
  BY DEF Unescaped
<1> HIDE DEF b
<1>5. Decoded(b).at = "text" /\ Decoded(b).text = t
  BY <1>3 DEF ReadsAs
<1>6. HasCode(b) \/ b = t
  <2>1. CASE \E i \in 1..Len(t) : t[i] = UNI
    BY <1>3, <2>1 DEF ReadsAs
  <2>2. CASE \A i \in 1..Len(t) : t[i] # UNI
    <3>1. \A i \in 1..Len(t) : t[i] # TAB
      BY <1>1, <2>2 DEF Legible
    <3> QED BY <1>3, <2>2, <3>1 DEF ReadsAs
  <2> QED BY <2>1, <2>2
<1> QED BY <1>4, <1>5, <1>6

(* Nothing in a label looks like the number of visits, or like a red node, *)
(* but what does so in the text.                                           *)
LEMMA LabelHas ==
  ASSUME NEW S, NEW t \in Seq(S), NEW m \in {Mark, Red},
         \E i \in 1..Len(Escaped(t)) : Escaped(t)[i] = m
  PROVE  \E i \in 1..Len(t) : t[i] = m
<1> DEFINE U == S \union Sign
           T == {s \in Seq(S) : (\E i \in 1..Len(Escaped(s)) : Escaped(s)[i] = m) =>
                                   \E i \in 1..Len(s) : s[i] = m}
<1>1. <<>> \in T
  <2>1. Len(Escaped(<<>>)) = 0
    BY EscapedNone, EmptySeq
  <2> QED BY <2>1, EmptySeq
<1>2. ASSUME NEW s \in Seq(S), NEW c \in S, s \in T PROVE Append(s, c) \in T
  <2> DEFINE r == Append(s, c)
  <2>1. /\ r \in Seq(S) /\ Len(r) = Len(s) + 1 /\ r[Len(s) + 1] = c
        /\ \A i \in 1..Len(s) : r[i] = s[i]
    BY AppendProperties
  <2> SUFFICES ASSUME NEW j \in 1..Len(Escaped(r)), Escaped(r)[j] = m
               PROVE  \E i \in 1..Len(r) : r[i] = m
    BY <2>1
  <2> DEFINE e == Escaped(s)
             p == Piece(c)
  <2>2. s \in Seq(U) /\ c \in U /\ Sign \subseteq U
    BY SeqMonotonic
  <2> HIDE DEF U
  <2>3. e \in Seq(U) /\ Escaped(r) = e \o p
    BY <2>2, EscapedMore
  <2>4. p \in Seq(U) /\ \A k \in 1..Len(p) : p[k] \in {c, BS, LetterN, LetterT, Code}
    BY <2>2 DEF Piece, Sign
  <2> HIDE DEF e, p
  <2>5. Len(e \o p) = Len(e) + Len(p) /\ \A i \in 1..Len(e) + Len(p) :
          (e \o p)[i] = IF i <= Len(e) THEN e[i] ELSE p[i - Len(e)]
    BY <2>3, <2>4, ConcatProperties
  <2>6. CASE j <= Len(e)
    <3>1. j \in 1..Len(e) /\ e[j] = m
      BY <2>3, <2>4, <2>5, <2>6
    <3>2. PICK i \in 1..Len(s) : s[i] = m
      BY <1>2, <3>1 DEF e
    <3> QED BY <2>1, <3>2
  <2>7. CASE j > Len(e)
    <3>1. j - Len(e) \in 1..Len(p) /\ p[j - Len(e)] = m
      BY <2>3, <2>4, <2>5, <2>7
    <3>2. c = m
      BY <2>4, <3>1 DEF Mark, Red, BS, LetterN, LetterT, Code
    <3>3. Len(s) + 1 \in 1..Len(r)
      BY <2>1
    <3> QED BY <2>1, <3>2, <3>3
  <2> QED BY <2>3, <2>4, <2>5, <2>6, <2>7
<1>3. \A s \in Seq(S) : s \in T
  <2> HIDE DEF T
  <2> QED BY <1>1, <1>2, SeqInduction
<1> QED BY <1>3

-----------------------------------------------------------------------------
(* The order of the nodes in a file.                                       *)

Name == Seq(Nat \ {0})

LEMMA PrefixIs ==
  ASSUME NEW S, NEW s \in Seq(S), NEW t \in Seq(S)
  PROVE  IsPrefix(s, t) <=> Len(s) <= Len(t) /\ \A j \in 1..Len(s) : s[j] = t[j]
<1>1. Len(s) \in Nat /\ Len(t) \in Nat
  OBVIOUS
<1>2. SubSeq(s, 1, Len(s)) = s
  BY SubSeqFull
<1>3. ASSUME Len(s) <= Len(t)
      PROVE  SubSeq(t, 1, Len(s)) = s <=> \A j \in 1..Len(s) : s[j] = t[j]
  <2> DEFINE r == SubSeq(t, 1, Len(s))
  <2>1. \A i \in 1..Len(s) : t[i] \in S
    BY <1>1, <1>3
  <2>2. r \in Seq(S) /\ Len(r) = Len(s) /\ \A i \in 1..Len(s) : r[i] = t[i]
    <3>1. /\ r \in Seq(S) /\ Len(r) = IF 1 <= Len(s) THEN Len(s) - 1 + 1 ELSE 0
          /\ \A i \in 1..(Len(s) - 1 + 1) : r[i] = t[1 + i - 1]
      BY <1>1, <2>1, SubSeqProperties
    <3>2. \A i \in 1..Len(s) : 1 + i - 1 = i /\ i \in 1..(Len(s) - 1 + 1)
      BY <1>1
    <3> QED BY <1>1, <3>1, <3>2
  <2> HIDE DEF r
  <2>3. (\A j \in 1..Len(s) : s[j] = t[j]) => r = s
    BY <2>2, SeqEqual
  <2> QED BY <2>2, <2>3 DEF r
<1> QED BY <1>2, <1>3 DEF IsPrefix

LEMMA AboveIs ==
  ASSUME NEW m \in Name, NEW n \in Name
  PROVE  Above(m, n) <=> Len(m) < Len(n) /\ \A j \in 1..Len(m) : m[j] = n[j]
<1>1. IsPrefix(m, n) <=> Len(m) <= Len(n) /\ \A j \in 1..Len(m) : m[j] = n[j]
  BY PrefixIs DEF Name
<1>2. Len(m) = Len(n) /\ (\A j \in 1..Len(m) : m[j] = n[j]) => m = n
  BY SeqEqual DEF Name
<1>3. Len(m) \in Nat /\ Len(n) \in Nat
  BY DEF Name
<1> QED BY <1>1, <1>2, <1>3 DEF Above

(* The names differ at a position first, where m may have come to an end.  *)
EarlierAt(m, n, i) ==
  /\ i \in 1..Len(n) /\ i - 1 <= Len(m)
  /\ \A j \in 1..(i - 1) : m[j] = n[j]
  /\ i <= Len(m) => m[i] < n[i]

LEMMA EarlierIs ==
  ASSUME NEW m \in Name, NEW n \in Name
  PROVE  Earlier(m, n) <=> \E i \in Nat : EarlierAt(m, n, i)
<1>1. /\ Len(m) \in Nat /\ DOMAIN m = 1..Len(m) /\ Len(n) \in Nat /\ DOMAIN n = 1..Len(n)
  BY DEF Name
<1>2. ASSUME Above(m, n) PROVE EarlierAt(m, n, Len(m) + 1)
  BY <1>1, <1>2, AboveIs DEF EarlierAt
<1>3. ASSUME NEW i \in DOMAIN m \intersect DOMAIN n,
             m[i] < n[i], \A j \in 1..(i - 1) : m[j] = n[j]
      PROVE  i \in Nat /\ EarlierAt(m, n, i)
  BY <1>1, <1>3 DEF EarlierAt
<1>4. ASSUME NEW i \in Nat, EarlierAt(m, n, i)
      PROVE  Earlier(m, n)
  <2>1. CASE i <= Len(m)
    <3>1. i \in DOMAIN m \intersect DOMAIN n
      BY <1>1, <1>4, <2>1 DEF EarlierAt
    <3> QED BY <1>4, <2>1, <3>1 DEF EarlierAt, Earlier
  <2>2. CASE i > Len(m)
    <3>1. i = Len(m) + 1 /\ Len(m) < Len(n)
      BY <1>1, <1>4, <2>2 DEF EarlierAt
    <3>2. \A j \in 1..Len(m) : m[j] = n[j]
      BY <1>1, <1>4, <3>1 DEF EarlierAt
    <3>3. Above(m, n)
      BY <3>1, <3>2, AboveIs
    <3> QED BY <3>3 DEF Earlier
  <2> QED BY <1>1, <2>1, <2>2
<1>5. Len(m) + 1 \in Nat
  BY <1>1
<1> QED BY <1>2, <1>3, <1>4, <1>5 DEF Earlier

(* It is a total order of the names.                                       *)
LEMMA EarlierIrreflexive == \A n \in Name : ~Earlier(n, n)
<1> SUFFICES ASSUME NEW n \in Name, NEW i \in Nat, EarlierAt(n, n, i) PROVE FALSE
  BY EarlierIs
<1>1. i \in 1..Len(n) /\ n[i] < n[i] /\ n[i] \in Nat
  BY DEF EarlierAt, Name
<1> QED BY <1>1

LEMMA EarlierTransitive ==
  ASSUME NEW m \in Name, NEW n \in Name, NEW p \in Name, Earlier(m, n), Earlier(n, p)
  PROVE  Earlier(m, p)
<1>1. PICK i \in Nat : EarlierAt(m, n, i)
  BY EarlierIs
<1>2. PICK k \in Nat : EarlierAt(n, p, k)
  BY EarlierIs
<1>3. PICK a \in Nat, b \in Nat, c \in Nat : a = Len(m) /\ b = Len(n) /\ c = Len(p)
  BY DEF Name
<1>4. /\ \A j \in 1..a : m[j] \in Nat
      /\ \A j \in 1..b : n[j] \in Nat
      /\ \A j \in 1..c : p[j] \in Nat
  BY <1>3 DEF Name
<1>5. i \in 1..b /\ i - 1 <= a /\ (\A j \in 1..(i - 1) : m[j] = n[j]) /\ (i <= a => m[i] < n[i])
  BY <1>1, <1>3 DEF EarlierAt
<1>6. k \in 1..c /\ k - 1 <= b /\ (\A j \in 1..(k - 1) : n[j] = p[j]) /\ (k <= b => n[k] < p[k])
  BY <1>2, <1>3 DEF EarlierAt
<1>7. CASE i < k
  <2>1. i \in 1..c /\ i - 1 <= a /\ i \in 1..(k - 1)
    BY <1>5, <1>6, <1>7
  <2>2. \A j \in 1..(i - 1) : j \in 1..(k - 1)
    BY <1>7
  <2>3. (\A j \in 1..(i - 1) : m[j] = p[j]) /\ (i <= a => m[i] < p[i])
    BY <1>5, <1>6, <2>1, <2>2
  <2>4. EarlierAt(m, p, i)
    BY <1>3, <2>1, <2>3 DEF EarlierAt
  <2> QED BY <2>4, EarlierIs
<1>8. CASE k < i
  <2>1. k \in 1..c /\ k - 1 <= a /\ k <= b /\ k \in 1..(i - 1)
    BY <1>5, <1>6, <1>8
  <2>2. \A j \in 1..(k - 1) : j \in 1..(i - 1)
    BY <1>8
  <2>3. (\A j \in 1..(k - 1) : m[j] = p[j]) /\ (k <= a => m[k] < p[k])
    BY <1>5, <1>6, <2>1, <2>2
  <2>4. EarlierAt(m, p, k)
    BY <1>3, <2>1, <2>3 DEF EarlierAt
  <2> QED BY <2>4, EarlierIs
<1>9. CASE i = k
  <2>1. i \in 1..c /\ i <= b /\ i \in 1..b
    BY <1>5, <1>6, <1>9
  <2>2. \A j \in 1..(i - 1) : m[j] = p[j]
    BY <1>5, <1>6, <1>9
  <2>3. i <= a => m[i] < p[i]
    <3>1. i <= a => i \in 1..a
      BY <2>1
    <3>2. i <= a => m[i] < n[i] /\ n[i] < p[i] /\ m[i] \in Nat /\ n[i] \in Nat /\ p[i] \in Nat
      BY <1>4, <1>5, <1>6, <1>9, <2>1, <3>1
    <3> QED BY <3>2
  <2>4. EarlierAt(m, p, i)
    BY <1>3, <1>5, <2>1, <2>2, <2>3 DEF EarlierAt
  <2> QED BY <2>4, EarlierIs
<1> QED BY <1>7, <1>8, <1>9

LEMMA EarlierTotal ==
  ASSUME NEW m \in Name, NEW n \in Name, m # n
  PROVE  Earlier(m, n) \/ Earlier(n, m)
<1>1. PICK a \in Nat, b \in Nat : a = Len(m) /\ b = Len(n)
  BY DEF Name
<1>2. (\A j \in 1..a : m[j] \in Nat) /\ (\A j \in 1..b : n[j] \in Nat)
  BY <1>1 DEF Name
<1> DEFINE T == {i \in Nat : i \in 1..a /\ i \in 1..b /\ m[i] # n[i]}
<1>3. CASE T = {}
  <2>1. \A j \in Nat : j \in 1..a /\ j \in 1..b => m[j] = n[j]
    BY <1>3
  <2>2. CASE a = b
    <3>1. \A j \in 1..Len(m) : m[j] = n[j]
      BY <1>1, <2>1, <2>2
    <3>2. m = n
      BY <1>1, <2>2, <3>1, SeqEqual DEF Name
    <3> QED BY <3>2
  <2>3. CASE a < b
    <3>1. \A j \in 1..Len(m) : m[j] = n[j]
      BY <1>1, <2>1, <2>3
    <3> QED BY <1>1, <2>3, <3>1, AboveIs DEF Earlier
  <2>4. CASE b < a
    <3>1. \A j \in 1..Len(n) : n[j] = m[j]
      BY <1>1, <2>1, <2>4
    <3> QED BY <1>1, <2>4, <3>1, AboveIs DEF Earlier
  <2> QED BY <2>2, <2>3, <2>4
<1>4. CASE T # {}
  <2>1. T \subseteq Nat
    OBVIOUS
  <2>2. IsWellFoundedOn(Smaller, Nat)
    BY NatLessThanWellFounded DEF Smaller, OpToRel
  <2> HIDE DEF T
  <2>3. PICK k \in T : \A j \in T : <<j, k>> \notin Smaller
    BY <1>4, <2>1, <2>2, WFMin
  <2>4. k \in Nat /\ k \in 1..a /\ k \in 1..b /\ m[k] # n[k]
    BY <2>3 DEF T
  <2>5. ASSUME NEW j \in 1..(k - 1) PROVE m[j] = n[j]
    <3>1. j \in Nat /\ j < k /\ j \in 1..a /\ j \in 1..b
      BY <2>4
    <3>2. <<j, k>> \in Smaller
      BY <2>4, <3>1 DEF Smaller
    <3> QED BY <2>3, <3>1, <3>2 DEF T
  <2>6. m[k] < n[k] \/ n[k] < m[k]
    <3>1. m[k] \in Nat /\ n[k] \in Nat
      BY <1>2, <2>4
    <3> QED BY <2>4, <3>1
  <2>7. k \in DOMAIN m \intersect DOMAIN n
    BY <1>1, <2>4 DEF Name
  <2>8. m[k] < n[k] => Earlier(m, n)
    BY <2>5, <2>7 DEF Earlier
  <2>9. n[k] < m[k] => Earlier(n, m)
    BY <2>5, <2>7 DEF Earlier
  <2> QED BY <2>6, <2>8, <2>9
<1> QED BY <1>3, <1>4

LEMMA EarlierOneWay ==
  ASSUME NEW m \in Name, NEW n \in Name, Earlier(m, n)
  PROVE  m # n /\ ~Earlier(n, m) /\ ~IsPrefix(n, m)
<1>1. m # n
  BY EarlierIrreflexive
<1>2. ~Earlier(n, m)
  BY EarlierIrreflexive, EarlierTransitive
<1>3. IsPrefix(n, m) => Above(n, m)
  BY <1>1 DEF Above
<1> QED BY <1>1, <1>2, <1>3 DEF Earlier

-----------------------------------------------------------------------------
(* Sorting.                                                                *)

LEMMA LastOne ==
  ASSUME NEW S \in SUBSET Name, IsFiniteSet(S), S # {}
  PROVE  \E m \in S : \A x \in S : x = m \/ Earlier(x, m)
<1> DEFINE Has(R) == \E m \in R : \A x \in R : x = m \/ Earlier(x, m)
           T == {n \in Nat : \A R \in SUBSET Name :
                               IsFiniteSet(R) /\ Cardinality(R) = n + 1 => Has(R)}
<1>1. 0 \in T
  <2>1. ASSUME NEW R \in SUBSET Name, IsFiniteSet(R), Cardinality(R) = 0 + 1 PROVE Has(R)
    <3>1. PICK y : R = {y}
      <4>1. Cardinality(R) = 1
        BY <2>1
      <4> QED BY <2>1, <4>1, FS_Singleton
    <3> QED BY <3>1
  <2> HIDE DEF Has
  <2> QED BY <2>1
<1>2. ASSUME NEW n \in Nat, n \in T PROVE n + 1 \in T
  <2>1. ASSUME NEW R \in SUBSET Name, IsFiniteSet(R), Cardinality(R) = (n + 1) + 1 PROVE Has(R)
    <3>1. R # {}
      BY <2>1, FS_EmptySet
    <3>2. PICK y : y \in R
      BY <3>1
    <3> DEFINE Q == R \ {y}
    <3>3. IsFiniteSet(Q) /\ Cardinality(Q) = n + 1
      BY <2>1, <3>2, FS_RemoveElement
    <3>4. Has(Q)
      <4>1. Q \in SUBSET Name
        OBVIOUS
      <4> HIDE DEF Has, Q
      <4> QED BY <1>2, <3>3, <4>1
    <3>5. PICK m \in Q : \A x \in Q : x = m \/ Earlier(x, m)
      BY <3>4
    <3>6. m \in Name /\ y \in Name /\ m # y /\ m \in R
      BY <3>2
    <3>7. CASE Earlier(y, m)
      BY <3>5, <3>6, <3>7
    <3>8. CASE Earlier(m, y)
      <4>1. ASSUME NEW x \in R PROVE x = y \/ Earlier(x, y)
        <5>1. CASE x \in Q
          <6>1. x \in Name
            OBVIOUS
          <6> QED BY <3>5, <3>6, <3>8, <5>1, <6>1, EarlierTransitive
        <5> QED BY <5>1
      <4> QED BY <3>2, <4>1
    <3> QED BY <3>6, <3>7, <3>8, EarlierTotal
  <2> HIDE DEF Has
  <2> QED BY <2>1
<1>3. \A n \in Nat : n \in T
  <2> HIDE DEF T
  <2> QED BY <1>1, <1>2, SetInduction
<1>4. Cardinality(S) \in Nat /\ Cardinality(S) # 0
  BY FS_CardinalityType, FS_EmptySet
<1>5. Cardinality(S) - 1 \in Nat /\ (Cardinality(S) - 1) + 1 = Cardinality(S)
  BY <1>4
<1>6. Has(S)
  <2>1. Cardinality(S) - 1 \in T
    BY <1>3, <1>5
  <2> HIDE DEF Has
  <2> QED BY <1>5, <2>1
<1> QED BY <1>6

Ascends(s, n, S) ==
  s \in [1..n -> S] /\ \A i, j \in 1..n : i < j => Earlier(s[i], s[j])

LEMMA CanBeSorted ==
  ASSUME NEW S \in SUBSET Name, IsFiniteSet(S)
  PROVE  \E s : Ascends(s, Cardinality(S), S)
<1> DEFINE T == {n \in Nat : \A R \in SUBSET Name :
                    IsFiniteSet(R) /\ Cardinality(R) = n => \E s : Ascends(s, n, R)}
<1>1. 0 \in T
  <2>1. ASSUME NEW R \in SUBSET Name PROVE \E s : Ascends(s, 0, R)
    <3>1. Ascends([i \in 1..0 |-> i], 0, R)
      BY DEF Ascends
    <3> QED BY <3>1
  <2> QED BY <2>1
<1>2. ASSUME NEW n \in Nat, n \in T PROVE n + 1 \in T
  <2>1. ASSUME NEW R \in SUBSET Name, IsFiniteSet(R), Cardinality(R) = n + 1
        PROVE  \E s : Ascends(s, n + 1, R)
    <3>1. R # {}
      BY <2>1, FS_EmptySet
    <3>2. PICK m \in R : \A x \in R : x = m \/ Earlier(x, m)
      BY <2>1, <3>1, LastOne
    <3> DEFINE Q == R \ {m}
    <3>3. IsFiniteSet(Q) /\ Cardinality(Q) = n /\ Q \in SUBSET Name
      <4>1. IsFiniteSet(Q) /\ Cardinality(Q) = Cardinality(R) - 1
        BY <2>1, <3>2, FS_RemoveElement
      <4> QED BY <2>1, <4>1
    <3>4. \A x \in Q : x \in R /\ Earlier(x, m)
      BY <3>2
    <3> HIDE DEF Q
    <3>5. PICK s : Ascends(s, n, Q)
      BY <1>2, <3>3
    <3> DEFINE t == [i \in 1..(n + 1) |-> IF i <= n THEN s[i] ELSE m]
    <3>6. \A i \in 1..n : t[i] = s[i] /\ s[i] \in Q
      BY <3>5 DEF Ascends
    <3>7. t[n + 1] = m
      OBVIOUS
    <3>8. \A i \in 1..(n + 1) : i \in 1..n \/ i = n + 1
      OBVIOUS
    <3>9. \A i \in 1..(n + 1) : t[i] \in R
      BY <3>2, <3>4, <3>6, <3>7, <3>8
    <3>10. t \in [1..(n + 1) -> R]
      BY <3>9
    <3> HIDE DEF t
    <3>11. ASSUME NEW i \in 1..(n + 1), NEW j \in 1..(n + 1), i < j
           PROVE  Earlier(t[i], t[j])
      <4>1. i \in 1..n
        BY <3>11
      <4>2. CASE j \in 1..n
        BY <3>5, <3>6, <3>11, <4>1, <4>2 DEF Ascends
      <4>3. CASE j = n + 1
        BY <3>4, <3>6, <3>7, <4>1, <4>3
      <4> QED BY <3>8, <4>2, <4>3
    <3>12. Ascends(t, n + 1, R)
      BY <3>10, <3>11 DEF Ascends
    <3> QED BY <3>12
  <2> QED BY <2>1
<1>3. \A n \in Nat : n \in T
  <2> HIDE DEF T
  <2> QED BY <1>1, <1>2, SetInduction
<1>4. Cardinality(S) \in Nat
  BY FS_CardinalityType
<1> QED BY <1>3, <1>4

(* A finite set of names has every one of them once when it is sorted.     *)
LEMMA InOrderIs ==
  ASSUME NEW S \in SUBSET Name, IsFiniteSet(S)
  PROVE  /\ Cardinality(S) \in Nat
         /\ InOrder(S) \in [1..Cardinality(S) -> S]
         /\ \A i, j \in 1..Cardinality(S) : i < j => Earlier(InOrder(S)[i], InOrder(S)[j])
         /\ \A i, j \in 1..Cardinality(S) : InOrder(S)[i] = InOrder(S)[j] => i = j
         /\ \A x \in S : \E i \in 1..Cardinality(S) : InOrder(S)[i] = x
<1>1. PICK n \in Nat : n = Cardinality(S)
  BY FS_CardinalityType
<1> DEFINE s == InOrder(S)
<1>2. Ascends(s, n, S)
  <2> DEFINE P(r) == \A i, j \in DOMAIN r : i < j => Earlier(r[i], r[j])
  <2>1. \A r \in [1..n -> S] : Ascends(r, n, S) <=> P(r)
    BY DEF Ascends
  <2>2. \E r \in [1..n -> S] : P(r)
    <3>1. PICK r : Ascends(r, n, S)
      BY <1>1, CanBeSorted
    <3>2. r \in [1..n -> S]
      BY <3>1 DEF Ascends
    <3> HIDE DEF P
    <3> QED BY <2>1, <3>1, <3>2
  <2>3. s = CHOOSE r \in [1..n -> S] : P(r)
    BY <1>1 DEF InOrder
  <2>4. s \in [1..n -> S] /\ P(s)
    <3> HIDE DEF P, s
    <3> QED BY <2>2, <2>3
  <2> HIDE DEF P, s
  <2> QED BY <2>1, <2>4
<1> HIDE DEF s
<1>3. s \in [1..n -> S] /\ \A i, j \in 1..n : i < j => Earlier(s[i], s[j])
  BY <1>2 DEF Ascends
<1>4. ASSUME NEW i \in 1..n, NEW j \in 1..n, s[i] = s[j] PROVE i = j
  <2>1. s[i] \in Name
    BY <1>3
  <2>2. ~Earlier(s[i], s[j]) /\ ~Earlier(s[j], s[i])
    BY <1>4, <2>1, EarlierIrreflexive
  <2>3. ~(i < j) /\ ~(j < i)
    BY <1>3, <2>2
  <2> QED BY <2>3
<1>5. s \in Injection(1..n, S)
  BY <1>3, <1>4, Fun_IsInj
<1>6. IsFiniteSet(1..n) /\ Cardinality(1..n) = n
  <2>1. IsFiniteSet(1..n) /\ Cardinality(1..n) = IF 1 > n THEN 0 ELSE n - 1 + 1
    BY FS_Interval
  <2> QED BY <2>1
<1>7. s \in Surjection(1..n, S)
  BY <1>1, <1>5, <1>6, FS_Injection
<1>8. \A x \in S : \E i \in 1..n : s[i] = x
  BY <1>7, Fun_SurjectionProperties
<1> QED BY <1>1, <1>3, <1>4, <1>8 DEF s

-----------------------------------------------------------------------------
(* Trees.                                                                  *)

IsShape(N) ==
  /\ IsFiniteSet(N) /\ N \subseteq Name /\ <<>> \in N
  /\ \A n \in N \ {<<>>} :
       Front(n) \in N /\ \A k \in 1..Last(n) : Append(Front(n), k) \in N

LEMMA PrefixFacts ==
  ASSUME NEW S, NEW s \in Seq(S), NEW t \in Seq(S), NEW u \in Seq(S)
  PROVE  /\ IsPrefix(s, s)
         /\ IsPrefix(s, t) /\ IsPrefix(t, u) => IsPrefix(s, u)
         /\ IsPrefix(s, t) /\ IsPrefix(t, s) => s = t
         /\ IsPrefix(s, s \o t)
<1>1. IsPrefix(s, s)
  BY PrefixIs
<1>2. IsPrefix(s, t) /\ IsPrefix(t, u) => IsPrefix(s, u)
  <2>1. PICK a \in Nat, b \in Nat, c \in Nat : a = Len(s) /\ b = Len(t) /\ c = Len(u)
    OBVIOUS
  <2>2. IsPrefix(s, t) <=> a <= b /\ \A j \in 1..a : s[j] = t[j]
    BY <2>1, PrefixIs
  <2>3. IsPrefix(t, u) <=> b <= c /\ \A j \in 1..b : t[j] = u[j]
    BY <2>1, PrefixIs
  <2>4. IsPrefix(s, u) <=> a <= c /\ \A j \in 1..a : s[j] = u[j]
    BY <2>1, PrefixIs
  <2> QED BY <2>2, <2>3, <2>4
<1>3. IsPrefix(s, t) /\ IsPrefix(t, s) => s = t
  <2>1. Len(s) \in Nat /\ Len(t) \in Nat
    OBVIOUS
  <2>2. IsPrefix(s, t) /\ IsPrefix(t, s) =>
          Len(s) = Len(t) /\ \A j \in 1..Len(s) : s[j] = t[j]
    BY <2>1, PrefixIs
  <2> QED BY <2>2, SeqEqual
<1>4. IsPrefix(s, s \o t)
  <2> DEFINE r == s \o t
  <2>1. /\ r \in Seq(S) /\ Len(r) = Len(s) + Len(t)
        /\ \A i \in 1..Len(s) + Len(t) : r[i] = IF i <= Len(s) THEN s[i] ELSE t[i - Len(s)]
    BY ConcatProperties
  <2>2. Len(s) <= Len(r) /\ \A i \in 1..Len(s) : s[i] = r[i]
    BY <2>1
  <2> HIDE DEF r
  <2> QED BY <2>1, <2>2, PrefixIs DEF r
<1> QED BY <1>1, <1>2, <1>3, <1>4

(* The parent of a node is the longest name that hers begins with.         *)
LEMMA ParentIs ==
  ASSUME NEW n \in Name, n # <<>>
  PROVE  /\ Front(n) \in Name /\ Last(n) \in Nat \ {0} /\ n = Append(Front(n), Last(n))
         /\ Len(n) \in Nat \ {0} /\ Len(Front(n)) = Len(n) - 1
         /\ \A j \in 1..(Len(n) - 1) : Front(n)[j] = n[j]
         /\ Front(n) # n /\ IsPrefix(Front(n), n)
         /\ \A m \in Name : IsPrefix(m, n) /\ m # n => IsPrefix(m, Front(n))
<1>1. /\ Front(n) \in Name /\ Last(n) \in Nat \ {0} /\ n = Append(Front(n), Last(n))
      /\ Len(n) # 0 /\ Len(Front(n)) = Len(n) - 1
  <2>1. PICK e \in Nat \ {0} : TRUE
    BY SequenceEmptyOrAppend DEF Name
  <2> QED BY <2>1, FrontAndLast DEF Name
<1>2. Len(n) \in Nat \ {0}
  BY <1>1 DEF Name
<1>3. \A j \in 1..(Len(n) - 1) : Front(n)[j] = n[j]
  <2> DEFINE p == Front(n)
  <2>1. p \in Seq(Nat \ {0}) /\ Last(n) \in Nat \ {0}
    BY <1>1 DEF Name
  <2>2. \A j \in 1..Len(p) : Append(p, Last(n))[j] = p[j]
    BY <2>1, AppendProperties
  <2> QED BY <1>1, <2>2
<1>4. Front(n) # n
  BY <1>1, <1>2
<1>5. IsPrefix(Front(n), n)
  <2>1. Len(Front(n)) <= Len(n)
    BY <1>1, <1>2
  <2> QED BY <1>1, <1>3, <2>1, PrefixIs DEF Name
<1>6. ASSUME NEW m \in Name, IsPrefix(m, n), m # n
      PROVE  IsPrefix(m, Front(n))
  <2>1. Len(m) < Len(n) /\ \A j \in 1..Len(m) : m[j] = n[j]
    BY <1>6, AboveIs DEF Above
  <2>2. Len(m) \in Nat
    BY DEF Name
  <2>3. Len(m) <= Len(Front(n)) /\ \A j \in 1..Len(m) : m[j] = Front(n)[j]
    BY <1>1, <1>2, <1>3, <2>1, <2>2
  <2> QED BY <1>1, <2>3, PrefixIs DEF Name
<1> QED BY <1>1, <1>2, <1>3, <1>4, <1>5, <1>6

(* Every beginning of a name is the name of a node.                        *)
LEMMA BeginningIs ==
  ASSUME NEW n \in Name, NEW k \in 0..Len(n)
  PROVE  /\ SubSeq(n, 1, k) \in Name /\ Len(SubSeq(n, 1, k)) = k
         /\ \A j \in 1..k : SubSeq(n, 1, k)[j] = n[j]
         /\ IsPrefix(SubSeq(n, 1, k), n)
<1> DEFINE r == SubSeq(n, 1, k)
<1>1. k \in Nat /\ Len(n) \in Nat /\ k <= Len(n) /\ \A i \in 1..Len(n) : n[i] \in Nat \ {0}
  BY DEF Name
<1>2. /\ r \in Seq(Nat \ {0}) /\ Len(r) = IF 1 <= k THEN k - 1 + 1 ELSE 0
      /\ \A i \in 1..(k - 1 + 1) : r[i] = n[1 + i - 1]
  <2>1. \A i \in 1..k : n[i] \in Nat \ {0}
    BY <1>1
  <2> QED BY <1>1, <2>1, SubSeqProperties
<1> HIDE DEF r
<1>3. Len(r) = k
  BY <1>1, <1>2
<1>4. \A j \in 1..k : r[j] = n[j]
  <2>1. \A j \in 1..k : 1 + j - 1 = j /\ j \in 1..(k - 1 + 1)
    BY <1>1
  <2> QED BY <1>2, <2>1
<1>5. IsPrefix(r, n)
  BY <1>1, <1>2, <1>3, <1>4, PrefixIs DEF Name
<1> QED BY <1>2, <1>3, <1>4, <1>5 DEF r, Name

LEMMA BeginningOfParent ==
  ASSUME NEW n \in Name, n # <<>>, NEW k \in 0..(Len(n) - 1)
  PROVE  SubSeq(Front(n), 1, k) = SubSeq(n, 1, k)
<1>1. /\ Front(n) \in Name /\ Len(Front(n)) = Len(n) - 1 /\ Len(n) \in Nat \ {0}
      /\ \A j \in 1..(Len(n) - 1) : Front(n)[j] = n[j]
  BY ParentIs
<1>2. k \in 0..Len(n) /\ k \in 0..Len(Front(n)) /\ \A j \in 1..k : j \in 1..(Len(n) - 1)
  BY <1>1
<1> DEFINE r == SubSeq(n, 1, k)
           s == SubSeq(Front(n), 1, k)
<1>3. r \in Name /\ Len(r) = k /\ \A j \in 1..k : r[j] = n[j]
  BY <1>2, BeginningIs
<1>4. s \in Name /\ Len(s) = k /\ \A j \in 1..k : s[j] = Front(n)[j]
  BY <1>1, <1>2, BeginningIs
<1> HIDE DEF r, s
<1>5. r = s
  BY <1>1, <1>2, <1>3, <1>4, SeqEqual DEF Name
<1> QED BY <1>5 DEF r, s

LEMMA BeginningsAreNodes ==
  ASSUME NEW N, IsShape(N), NEW n \in N, NEW k \in 0..Len(n)
  PROVE  SubSeq(n, 1, k) \in N
<1> DEFINE T == {d \in Nat : \A m \in N : \A i \in 0..Len(m) :
                               Len(m) = i + d => SubSeq(m, 1, i) \in N}
<1>1. N \subseteq Name /\ \A m \in N : m \in Name /\ Len(m) \in Nat
  BY DEF IsShape, Name
<1>2. 0 \in T
  <2>1. ASSUME NEW m \in N, NEW i \in 0..Len(m), Len(m) = i + 0 PROVE SubSeq(m, 1, i) \in N
    <3>1. i = Len(m) /\ m \in Seq(Nat \ {0})
      BY <1>1, <2>1 DEF Name
    <3>2. SubSeq(m, 1, Len(m)) = m
      BY <3>1, SubSeqFull
    <3> QED BY <3>1, <3>2
  <2> QED BY <2>1
<1>3. ASSUME NEW d \in Nat, d \in T PROVE d + 1 \in T
  <2>1. ASSUME NEW m \in N, NEW i \in 0..Len(m), Len(m) = i + (d + 1)
        PROVE  SubSeq(m, 1, i) \in N
    <3>1. m \in Name /\ m # <<>>
      BY <1>1, <2>1, EmptySeq
    <3>2. Front(m) \in N /\ Len(Front(m)) = Len(m) - 1
      BY <3>1, ParentIs DEF IsShape
    <3>3. i \in 0..Len(Front(m)) /\ Len(Front(m)) = i + d /\ i \in 0..(Len(m) - 1)
      BY <1>1, <2>1, <3>2
    <3>4. SubSeq(Front(m), 1, i) \in N
      BY <1>3, <3>2, <3>3
    <3> QED BY <3>1, <3>3, <3>4, BeginningOfParent
  <2> QED BY <2>1
<1>4. \A d \in Nat : d \in T
  <2> HIDE DEF T
  <2> QED BY <1>2, <1>3, SetInduction
<1>5. Len(n) - k \in Nat /\ Len(n) = k + (Len(n) - k)
  BY <1>1
<1> QED BY <1>4, <1>5

LEMMA PrefixesAreBeginnings ==
  ASSUME NEW m \in Name, NEW n \in Name, IsPrefix(m, n)
  PROVE  Len(m) \in 0..Len(n) /\ m = SubSeq(n, 1, Len(m))
<1>1. Len(m) \in Nat /\ Len(n) \in Nat
  BY DEF Name
<1>2. Len(m) <= Len(n) /\ \A j \in 1..Len(m) : m[j] = n[j]
  BY PrefixIs DEF Name
<1>3. Len(m) \in 0..Len(n)
  BY <1>1, <1>2
<1> DEFINE r == SubSeq(n, 1, Len(m))
<1>4. r \in Name /\ Len(r) = Len(m) /\ \A j \in 1..Len(m) : r[j] = n[j]
  BY <1>3, BeginningIs
<1> HIDE DEF r
<1>5. m = r
  BY <1>2, <1>4, SeqEqual DEF Name
<1> QED BY <1>3, <1>5 DEF r

-----------------------------------------------------------------------------
(* The text of a proof.                                                    *)

IsTree(tr, S) == IsShape(Nodes(tr)) /\ tr.text \in [Nodes(tr) -> Seq(S)]

LEMMA PathTextIs ==
  ASSUME NEW S, NEW tr, IsTree(tr, S), NEW n \in Nodes(tr)
  PROVE  /\ PathText(tr, n) \in Seq(S)
         /\ n = <<>> => PathText(tr, n) = tr.text[<<>>]
         /\ n # <<>> => PathText(tr, n) = PathText(tr, Front(n)) \o tr.text[n]
<1> DEFINE N == Nodes(tr)
<1>1. IsShape(N) /\ tr.text \in [N -> Seq(S)] /\ n \in N
  BY DEF IsTree
<1> HIDE DEF N
<1>2. n \in Name /\ n \in Seq(Nat \ {0})
  BY <1>1 DEF IsShape, Name
<1>3. PICK k \in Nat : k = Len(n)
  BY <1>2
<1> DEFINE f == [i \in 1..(k + 1) |-> tr.text[SubSeq(n, 1, i - 1)]]
           e == [i \in 1..k |-> f[i]]
<1>4. \A i \in 1..(k + 1) : i - 1 \in 0..Len(n)
  BY <1>3
<1>5. f \in [1..(k + 1) -> Seq(S)]
  <2>1. \A i \in 1..(k + 1) : SubSeq(n, 1, i - 1) \in N
    BY <1>1, <1>4, BeginningsAreNodes
  <2> QED BY <1>1, <2>1
<1>6. PathText(tr, n) = FlattenSeq(f)
  BY <1>3 DEF PathText
<1>7. f[k + 1] = tr.text[n]
  <2>1. SubSeq(n, 1, k) = n
    BY <1>2, <1>3, SubSeqFull
  <2>2. f[k + 1] = tr.text[SubSeq(n, 1, k)]
    OBVIOUS
  <2> QED BY <2>1, <2>2
<1>8. n = <<>> => e = <<>>
  <2>1. n = <<>> => k = 0
    BY <1>2, <1>3, EmptySeq
  <2>2. k = 0 => e = <<>>
    OBVIOUS
  <2> QED BY <2>1, <2>2
<1>9. n # <<>> => FlattenSeq(e) = PathText(tr, Front(n))
  <2> SUFFICES ASSUME n # <<>> PROVE FlattenSeq(e) = PathText(tr, Front(n))
    OBVIOUS
  <2>1. Len(Front(n)) = k - 1 /\ k \in Nat \ {0}
    BY <1>2, <1>3, ParentIs
  <2>2. \A i \in 1..k : SubSeq(Front(n), 1, i - 1) = SubSeq(n, 1, i - 1)
    <3>1. \A i \in 1..k : i - 1 \in 0..(Len(n) - 1)
      BY <1>3, <2>1
    <3> QED BY <1>2, <3>1, BeginningOfParent
  <2>3. e = [i \in 1..k |-> tr.text[SubSeq(Front(n), 1, i - 1)]]
    <3>1. \A i \in 1..k : e[i] = tr.text[SubSeq(n, 1, i - 1)]
      BY <1>3
    <3> QED BY <2>2, <3>1
  <2>4. (k - 1) + 1 = k
    BY <2>1
  <2> HIDE DEF e, f
  <2> QED BY <2>1, <2>3, <2>4 DEF PathText
<1> HIDE DEF f
<1>10. FlattenSeq(e) \in Seq(S) /\ FlattenSeq(f) = FlattenSeq(e) \o f[k + 1]
  BY <1>5, FlattenMore
<1> HIDE DEF e
<1>11. tr.text[n] \in Seq(S)
  BY <1>1
<1>12. n = <<>> => FlattenSeq(e) \o f[k + 1] = tr.text[<<>>]
  BY <1>7, <1>8, <1>11, FlattenNone, ConcatEmptySeq
<1>13. PathText(tr, n) = FlattenSeq(e) \o tr.text[n]
  BY <1>6, <1>7, <1>10
<1>14. PathText(tr, n) \in Seq(S)
  BY <1>10, <1>11, <1>13, ConcatProperties
<1>15. n = <<>> => PathText(tr, n) = tr.text[<<>>]
  BY <1>7, <1>12, <1>13
<1>16. n # <<>> => PathText(tr, n) = PathText(tr, Front(n)) \o tr.text[n]
  BY <1>9, <1>13
<1> QED BY <1>14, <1>15, <1>16

(* A proof begins as the proof of every node on the way does.              *)
LEMMA PathTextGrows ==
  ASSUME NEW S, NEW tr, IsTree(tr, S),
         NEW m \in Nodes(tr), NEW n \in Nodes(tr), IsPrefix(m, n)
  PROVE  IsPrefix(PathText(tr, m), PathText(tr, n))
<1> DEFINE N == Nodes(tr)
           T == {d \in Nat : \A q \in N : IsPrefix(m, q) /\ Len(q) = Len(m) + d =>
                               IsPrefix(PathText(tr, m), PathText(tr, q))}
<1>1. IsShape(N) /\ \A q \in N : q \in Name /\ Len(q) \in Nat
  BY DEF IsTree, IsShape, Name
<1>2. \A q \in N : PathText(tr, q) \in Seq(S)
  BY PathTextIs
<1>3. 0 \in T
  <2>1. ASSUME NEW q \in N, IsPrefix(m, q), Len(q) = Len(m) + 0
        PROVE  IsPrefix(PathText(tr, m), PathText(tr, q))
    <3>1. \A j \in 1..Len(m) : m[j] = q[j]
      BY <1>1, <2>1, PrefixIs DEF Name
    <3>2. m = q
      BY <1>1, <2>1, <3>1, SeqEqual DEF Name
    <3> QED BY <1>2, <3>2, PrefixFacts
  <2> QED BY <2>1
<1>4. ASSUME NEW d \in Nat, d \in T PROVE d + 1 \in T
  <2>1. ASSUME NEW q \in N, IsPrefix(m, q), Len(q) = Len(m) + (d + 1)
        PROVE  IsPrefix(PathText(tr, m), PathText(tr, q))
    <3>1. q # m /\ Len(q) # 0
      BY <1>1, <2>1
    <3>2. q # <<>>
      BY <3>1
    <3>3. IsPrefix(m, Front(q)) /\ Len(Front(q)) = Len(q) - 1 /\ Front(q) \in N
      BY <1>1, <2>1, <3>1, <3>2, ParentIs DEF IsShape
    <3>4. Len(Front(q)) = Len(m) + d
      BY <1>1, <2>1, <3>3
    <3>5. IsPrefix(PathText(tr, m), PathText(tr, Front(q)))
      BY <1>4, <3>3, <3>4
    <3>6. /\ PathText(tr, q) = PathText(tr, Front(q)) \o tr.text[q]
          /\ tr.text[q] \in Seq(S)
      BY <3>2, PathTextIs DEF IsTree
    <3> DEFINE a == PathText(tr, m)
               b == PathText(tr, Front(q))
               c == PathText(tr, q)
    <3>7. a \in Seq(S) /\ b \in Seq(S) /\ c \in Seq(S)
      BY <1>2, <3>3
    <3>8. IsPrefix(b, c)
      <4> HIDE DEF a, b, c
      <4>1. c = b \o tr.text[q]
        BY <3>6 DEF a, b, c
      <4> QED BY <3>6, <3>7, <4>1, PrefixFacts
    <3> HIDE DEF a, b, c
    <3>9. IsPrefix(a, b)
      BY <3>5 DEF a, b
    <3>10. IsPrefix(a, c)
      BY <3>7, <3>8, <3>9, PrefixFacts
    <3> QED BY <3>10 DEF a, c
  <2> QED BY <2>1
<1>5. \A d \in Nat : d \in T
  <2> HIDE DEF T
  <2> QED BY <1>3, <1>4, SetInduction
<1>6. Len(n) - Len(m) \in Nat /\ Len(n) = Len(m) + (Len(n) - Len(m))
  <2>1. Len(m) <= Len(n)
    BY <1>1, PrefixIs DEF Name
  <2> QED BY <1>1, <2>1
<1> QED BY <1>5, <1>6

-----------------------------------------------------------------------------
(* Lines.                                                                  *)

(* What a line can be, and the lines that there are of a text.             *)
Line(S) == Seq(S \ {NL})
Lines(S) == Seq(Line(S)) \ {<<>>}

LEMMA SplitType ==
  ASSUME NEW S, NEW a \in Lines(S), NEW c \in S
  PROVE  Split(a, c) \in Lines(S)
<1>1. a \in Seq(Line(S)) /\ a # <<>>
  BY DEF Lines
<1>2. CASE c = NL
  <2>1. <<>> \in Line(S)
    BY EmptySeq DEF Line
  <2>2. Split(a, c) = Append(a, <<>>)
    BY <1>2 DEF Split
  <2> QED BY <1>1, <2>1, <2>2, AppendProperties DEF Lines
<1>3. CASE c # NL
  <2>1. PICK e : e \in Line(S)
    BY EmptySeq DEF Line
  <2>2. Front(a) \in Seq(Line(S)) /\ Last(a) \in Line(S)
    BY <1>1, <2>1, FrontAndLast
  <2>3. Append(Last(a), c) \in Line(S)
    BY <1>3, <2>2, AppendProperties DEF Line
  <2>4. Split(a, c) = Append(Front(a), Append(Last(a), c))
    BY <1>3 DEF Split
  <2> QED BY <2>2, <2>3, <2>4, AppendProperties DEF Lines
<1> QED BY <1>2, <1>3

LEMMA LinesOfIs ==
  ASSUME NEW S, NEW t \in Seq(S)
  PROVE  \E u \in [0..Len(t) -> Lines(S)] :
           /\ u[0] = << <<>> >> /\ \A i \in 1..Len(t) : u[i] = Split(u[i - 1], t[i])
           /\ LinesOf(t) = u[Len(t)]
<1> DEFINE A == Lines(S)
           a == << <<>> >>
<1>1. PICK n \in Nat : n = Len(t)
  OBVIOUS
<1>2. \A i \in 1..n : t[i] \in S
  BY <1>1
<1> DEFINE F == [i \in 1..n |-> [x \in A |-> Split(x, t[i])]]
<1>3. F \in [1..n -> [A -> A]]
  BY <1>2, SplitType
<1>4. \A i \in 1..n : \A x \in A : F[i][x] = Split(x, t[i])
  OBVIOUS
<1>5. a \in A
  <2>1. <<>> \in Line(S)
    BY EmptySeq DEF Line
  <2> QED BY <2>1 DEF Lines
<1> HIDE DEF A, F, a
<1>6. PICK g : Steps(g, A, a, n, F)
  BY <1>3, <1>5, Stepwise
<1>7. /\ g \in [0..n -> A] /\ g[0] = a
      /\ \A i \in 1..n : g[i] = Split(g[i - 1], t[i])
  <2>1. g \in [0..n -> A] /\ g[0] = a /\ \A i \in 1..n : g[i] = F[i][g[i - 1]]
    BY <1>6 DEF Steps
  <2>2. \A i \in 1..n : i - 1 \in 0..n
    OBVIOUS
  <2> QED BY <1>4, <2>1, <2>2
<1> DEFINE Eq(f) == f = [i \in 0..n |-> IF i = 0 THEN a ELSE Split(f[i - 1], t[i])]
           v == CHOOSE f : Eq(f)
<1>8. LinesOf(t) = v[n]
  BY <1>1 DEF LinesOf, Folded, a
<1>9. Eq(g)
  BY <1>7
<1>10. Eq(v)
  <2> HIDE DEF Eq
  <2> QED BY <1>9
<1> HIDE DEF v
<1>11. Alike(v, g, n)
  BY <1>7, <1>10 DEF Alike
<1>12. \A p, q : Alike(p, q, n) => \A i \in 0..n : p[i] = q[i]
  BY SameSteps
<1>13. v[n] = g[n]
  BY <1>11, <1>12
<1> QED BY <1>1, <1>7, <1>8, <1>13 DEF A, a

LEMMA LinesOfMore ==
  ASSUME NEW S, NEW t \in Seq(S), NEW c \in S
  PROVE  /\ LinesOf(t) \in Lines(S)
         /\ LinesOf(Append(t, c)) = Split(LinesOf(t), c)
<1> DEFINE r == Append(t, c)
<1>1. PICK n \in Nat : n = Len(t)
  OBVIOUS
<1>2. r \in Seq(S) /\ Len(r) = n + 1 /\ r[n + 1] = c /\ \A i \in 1..n : r[i] = t[i]
  BY <1>1, AppendProperties
<1> HIDE DEF r
<1>3. PICK g \in [0..Len(r) -> Lines(S)] :
        /\ g[0] = << <<>> >> /\ \A i \in 1..Len(r) : g[i] = Split(g[i - 1], r[i])
        /\ LinesOf(r) = g[Len(r)]
  BY <1>2, LinesOfIs
<1>4. PICK h \in [0..Len(t) -> Lines(S)] :
        /\ h[0] = << <<>> >> /\ \A i \in 1..Len(t) : h[i] = Split(h[i - 1], t[i])
        /\ LinesOf(t) = h[Len(t)]
  BY LinesOfIs
<1>5. Alike(g, h, n)
  <2>1. \A i \in 1..n : i \in 1..(n + 1)
    OBVIOUS
  <2> QED BY <1>1, <1>2, <1>3, <1>4, <2>1 DEF Alike
<1>6. \A p, q : Alike(p, q, n) => \A i \in 0..n : p[i] = q[i]
  BY SameSteps
<1>7. \A i \in 0..n : g[i] = h[i]
  BY <1>5, <1>6, Zenon
<1>8. n \in 0..n /\ n + 1 \in 1..(n + 1) /\ (n + 1) - 1 = n
  OBVIOUS
<1>9. g[n + 1] = Split(h[n], c)
  BY <1>2, <1>3, <1>7, <1>8
<1>10. h[n] \in Lines(S)
  BY <1>1, <1>4, <1>8
<1> QED BY <1>1, <1>2, <1>3, <1>4, <1>9, <1>10 DEF r

LEMMA LinesOfNone == LinesOf(<<>>) = << <<>> >>
<1>1. <<>> \in Seq({NL}) /\ Len(<<>>) = 0
  BY EmptySeq
<1>2. \E u \in [0..Len(<<>>) -> Lines({NL})] :
        u[0] = << <<>> >> /\ LinesOf(<<>>) = u[Len(<<>>)]
  BY <1>1, LinesOfIs
<1> QED BY <1>1, <1>2

(* A text without a line break is one line, and after a line break it is   *)
(* one line more.                                                          *)
LEMMA OneLine ==
  ASSUME NEW S, NL \in S, NEW l \in Line(S)
  PROVE  LinesOf(l) = <<l>>
<1> DEFINE T == {s \in Line(S) : LinesOf(s) = <<s>>}
<1>1. <<>> \in T
  BY LinesOfNone, EmptySeq DEF Line
<1>2. ASSUME NEW s \in Line(S), NEW c \in S \ {NL}, s \in T PROVE Append(s, c) \in T
  <2>1. s \in Seq(S) /\ c \in S /\ c # NL
    BY SeqMonotonic DEF Line
  <2>2. LinesOf(Append(s, c)) = Split(<<s>>, c)
    BY <1>2, <2>1, LinesOfMore
  <2>3. Split(<<s>>, c) = Append(Front(<<s>>), Append(Last(<<s>>), c))
    BY <2>1 DEF Split
  <2>4. Front(<<s>>) = <<>> /\ Last(<<s>>) = s
    BY DEF Front, Last
  <2>5. Append(<<>>, Append(s, c)) = <<Append(s, c)>>
    OBVIOUS
  <2>6. Append(s, c) \in Line(S)
    BY AppendProperties DEF Line
  <2> QED BY <2>2, <2>3, <2>4, <2>5, <2>6
<1>3. \A s \in Line(S) : s \in T
  <2> HIDE DEF T
  <2> QED BY <1>1, <1>2, SeqInduction DEF Line
<1> QED BY <1>3

LEMMA LineAfter ==
  ASSUME NEW S, NL \in S, NEW t \in Seq(S), NEW l \in Line(S)
  PROVE  /\ t \o (<<NL>> \o l) \in Seq(S)
         /\ LinesOf(t \o (<<NL>> \o l)) = Append(LinesOf(t), l)
<1> DEFINE x == Append(t, NL)
           T == {s \in Line(S) : LinesOf(x \o s) = Append(LinesOf(t), s)}
<1>1. x \in Seq(S)
  BY AppendProperties
<1>2. \A s \in Line(S) : s \in Seq(S)
  BY SeqMonotonic DEF Line
<1>3. LinesOf(t) \in Seq(Line(S)) /\ LinesOf(t) # <<>>
  BY LinesOfMore DEF Lines
<1>4. <<>> \in T
  <2>1. x \o <<>> = x
    BY <1>1, ConcatEmptySeq
  <2>2. LinesOf(x) = Split(LinesOf(t), NL)
    BY LinesOfMore
  <2>3. <<>> \in Line(S)
    BY EmptySeq DEF Line
  <2> QED BY <2>1, <2>2, <2>3 DEF Split
<1>5. ASSUME NEW s \in Line(S), NEW c \in S \ {NL}, s \in T PROVE Append(s, c) \in T
  <2> HIDE DEF x
  <2>1. s \in Seq(S) /\ c \in S /\ c # NL /\ x \o s \in Seq(S)
    BY <1>1, <1>2, ConcatProperties
  <2>2. x \o Append(s, c) = Append(x \o s, c)
    BY <1>1, <2>1
  <2>3. LinesOf(Append(x \o s, c)) = Split(LinesOf(x \o s), c)
    BY <2>1, LinesOfMore
  <2> DEFINE a == Append(LinesOf(t), s)
  <2>4. LinesOf(x \o s) = a
    BY <1>5
  <2>5. Split(a, c) = Append(Front(a), Append(Last(a), c))
    BY <2>1 DEF Split
  <2>6. Front(a) = LinesOf(t) /\ Last(a) = s
    BY <1>3, FrontAndLast
  <2>7. Append(s, c) \in Line(S)
    BY AppendProperties DEF Line
  <2> HIDE DEF a
  <2>8. LinesOf(x \o Append(s, c)) = Append(LinesOf(t), Append(s, c))
    BY <2>2, <2>3, <2>4, <2>5, <2>6
  <2> QED BY <2>7, <2>8
<1>6. \A s \in Line(S) : s \in T
  <2> HIDE DEF T, x
  <2> QED BY <1>4, <1>5, SeqInduction DEF Line
<1>7. LinesOf(x \o l) = Append(LinesOf(t), l)
  BY <1>6
<1>8. l \in Seq(S) /\ <<NL>> \in Seq(S)
  BY <1>2
<1>9. t \o (<<NL>> \o l) = x \o l
  <2>1. (t \o <<NL>>) \o l = t \o (<<NL>> \o l)
    BY <1>8, ConcatAssociative
  <2>2. t \o <<NL>> = x
    BY AppendIsConcat
  <2> QED BY <2>1, <2>2
<1> HIDE DEF x
<1> QED BY <1>1, <1>7, <1>8, <1>9, ConcatProperties

LEMMA JoinedMore ==
  ASSUME NEW S, NL \in S, NEW ls \in Seq(Line(S)), NEW l \in Line(S)
  PROVE  /\ Joined(ls) \in Seq(S)
         /\ Joined(Append(ls, l)) = IF ls = <<>> THEN l ELSE Joined(ls) \o (<<NL>> \o l)
<1> DEFINE r == Append(ls, l)
<1>1. PICK n \in Nat : n = Len(ls)
  OBVIOUS
<1>2. /\ r \in Seq(Line(S)) /\ Len(r) = n + 1 /\ r[n + 1] = l /\ \A i \in 1..n : r[i] = ls[i]
      /\ DOMAIN r = 1..(n + 1) /\ DOMAIN ls = 1..n
  BY <1>1, AppendProperties
<1> HIDE DEF r
<1> DEFINE f == [i \in 1..(n + 1) |-> IF i = 1 THEN r[i] ELSE <<NL>> \o r[i]]
           e == [i \in 1..n |-> f[i]]
<1>3. \A i \in 1..(n + 1) : r[i] \in Seq(S) /\ <<NL>> \o r[i] \in Seq(S)
  <2>1. \A s \in Line(S) : s \in Seq(S)
    BY SeqMonotonic DEF Line
  <2>2. \A i \in 1..(n + 1) : r[i] \in Line(S)
    BY <1>2
  <2>3. <<NL>> \in Seq(S)
    OBVIOUS
  <2> QED BY <2>1, <2>2, <2>3, ConcatProperties
<1>4. f \in [1..(n + 1) -> Seq(S)]
  BY <1>3
<1>5. Joined(r) = FlattenSeq(f)
  BY <1>2 DEF Joined
<1>6. Joined(ls) = FlattenSeq(e)
  <2>1. e = [i \in 1..n |-> IF i = 1 THEN ls[i] ELSE <<NL>> \o ls[i]]
    BY <1>2
  <2> HIDE DEF e
  <2> QED BY <1>2, <2>1 DEF Joined
<1>7. f[n + 1] = IF n = 0 THEN l ELSE <<NL>> \o l
  BY <1>2
<1>8. n = 0 <=> ls = <<>>
  BY <1>1, EmptySeq
<1>9. n = 0 => e = <<>>
  OBVIOUS
<1> HIDE DEF f
<1>10. FlattenSeq(e) \in Seq(S) /\ FlattenSeq(f) = FlattenSeq(e) \o f[n + 1]
  BY <1>4, FlattenMore
<1> HIDE DEF e
<1>11. l \in Seq(S)
  BY SeqMonotonic DEF Line
<1>12. n = 0 => Joined(r) = l
  <2>1. n = 0 => FlattenSeq(e) = <<>>
    BY <1>9, FlattenNone
  <2>2. <<>> \o l = l
    BY <1>11, ConcatEmptySeq
  <2> QED BY <1>5, <1>7, <1>10, <2>1, <2>2
<1>13. n # 0 => Joined(r) = Joined(ls) \o (<<NL>> \o l)
  BY <1>5, <1>6, <1>7, <1>10
<1> QED BY <1>6, <1>8, <1>10, <1>12, <1>13 DEF r

(* Lines that are joined are the lines of what they become.                *)
LEMMA LinesOfJoined ==
  ASSUME NEW S, NL \in S, NEW ls \in Lines(S)
  PROVE  Joined(ls) \in Seq(S) /\ LinesOf(Joined(ls)) = ls
<1> DEFINE T == {s \in Seq(Line(S)) : s # <<>> => LinesOf(Joined(s)) = s}
<1>1. <<>> \in T
  BY EmptySeq
<1>2. ASSUME NEW s \in Seq(Line(S)), NEW l \in Line(S), s \in T PROVE Append(s, l) \in T
  <2>1. Append(s, l) \in Seq(Line(S))
    BY AppendProperties
  <2>2. CASE s = <<>>
    <3>1. Joined(Append(s, l)) = l
      BY <2>2, JoinedMore
    <3>2. LinesOf(l) = <<l>> /\ Append(s, l) = <<l>>
      BY <2>2, OneLine
    <3> QED BY <2>1, <3>1, <3>2
  <2>3. CASE s # <<>>
    <3>1. Joined(s) \in Seq(S) /\ Joined(Append(s, l)) = Joined(s) \o (<<NL>> \o l)
      BY <2>3, JoinedMore
    <3>2. LinesOf(Joined(s)) = s
      BY <1>2, <2>3
    <3> DEFINE j == Joined(s)
    <3>3. j \in Seq(S) /\ LinesOf(j) = s
      BY <3>1, <3>2
    <3> HIDE DEF j
    <3>4. LinesOf(j \o (<<NL>> \o l)) = Append(LinesOf(j), l)
      BY <3>3, LineAfter
    <3>5. LinesOf(Joined(Append(s, l))) = Append(s, l)
      BY <3>1, <3>3, <3>4 DEF j
    <3> QED BY <2>1, <3>5
  <2> QED BY <2>2, <2>3
<1>3. \A s \in Seq(Line(S)) : s \in T
  <2> HIDE DEF T
  <2> QED BY <1>1, <1>2, SeqInduction
<1>4. ls \in Seq(Line(S)) /\ ls # <<>>
  BY DEF Lines
<1>5. Joined(ls) \in Seq(S)
  <2>1. <<>> \in Line(S)
    BY EmptySeq DEF Line
  <2> QED BY <1>4, <2>1, JoinedMore
<1> QED BY <1>3, <1>4, <1>5

LEMMA ToSetOf ==
  ASSUME NEW S, NEW s \in Seq(S), NEW t \in Seq(S), NEW c \in S
  PROVE  /\ ToSet(s \o t) = ToSet(s) \union ToSet(t)
         /\ ToSet(Append(s, c)) = ToSet(s) \union {c}
<1>1. \A r \in Seq(S) : ToSet(r) = Range(r)
  BY DEF ToSet, Range
<1>2. ToSet(s \o t) = ToSet(s) \union ToSet(t)
  <2>1. Range(s \o t) = Range(s) \union Range(t)
    BY RangeConcatenation
  <2> QED BY <1>1, <2>1, ConcatProperties
<1>3. ToSet(Append(s, c)) = ToSet(s) \union {c}
  <2>1. <<c>> \in Seq(S) /\ Append(s, c) = s \o <<c>>
    BY AppendIsConcat
  <2>2. Range(s \o <<c>>) = Range(s) \union Range(<<c>>)
    BY <2>1, RangeConcatenation
  <2>3. Range(<<c>>) = {c}
    BY DEF Range
  <2> QED BY <1>1, <2>1, <2>2, <2>3, AppendProperties
<1> QED BY <1>2, <1>3

LEMMA ToSetOfNone == ToSet(<<>>) = {}
BY DEF ToSet

(* The new lines are added, and no others.                                 *)
LEMMA AddedIs ==
  ASSUME NEW L, NEW old \in Seq(L), NEW new \in Seq(L)
  PROVE  /\ Added(old, new) \in Seq(L)
         /\ ToSet(Added(old, new)) = ToSet(new) \ ToSet(old)
<1> DEFINE T == {s \in Seq(L) : /\ Added(old, s) \in Seq(L)
                                /\ ToSet(Added(old, s)) = ToSet(s) \ ToSet(old)}
           AsNew(l) == IF l \in ToSet(old) THEN <<>> ELSE <<l>>
<1>1. <<>> \in T
  <2>1. DOMAIN <<>> = {} /\ [i \in {} |-> AsNew(<<>>[i])] = <<>>
    OBVIOUS
  <2>2. Added(old, <<>>) = FlattenSeq([i \in {} |-> AsNew(<<>>[i])])
    BY <2>1 DEF Added
  <2>3. Added(old, <<>>) = <<>>
    BY <2>1, <2>2, FlattenNone
  <2> QED BY <2>3, EmptySeq, ToSetOfNone
<1>2. ASSUME NEW s \in Seq(L), NEW l \in L, s \in T PROVE Append(s, l) \in T
  <2> DEFINE r == Append(s, l)
  <2>1. PICK n \in Nat : n = Len(s)
    OBVIOUS
  <2>2. /\ r \in Seq(L) /\ Len(r) = n + 1 /\ r[n + 1] = l /\ \A i \in 1..n : r[i] = s[i]
        /\ DOMAIN r = 1..(n + 1) /\ DOMAIN s = 1..n
    BY <2>1, AppendProperties
  <2> HIDE DEF r
  <2>3. \A k \in L : AsNew(k) \in Seq(L)
    OBVIOUS
  <2> DEFINE f == [i \in 1..(n + 1) |-> AsNew(r[i])]
             e == [i \in 1..n |-> f[i]]
  <2>4. f \in [1..(n + 1) -> Seq(L)]
    BY <2>2, <2>3
  <2>5. Added(old, r) = FlattenSeq(f)
    BY <2>2 DEF Added
  <2>6. Added(old, s) = FlattenSeq(e)
    <3>1. e = [i \in 1..n |-> AsNew(s[i])]
      BY <2>2
    <3> HIDE DEF e
    <3> QED BY <2>2, <3>1 DEF Added
  <2>7. f[n + 1] = AsNew(l)
    BY <2>2
  <2> HIDE DEF f
  <2>8. FlattenSeq(f) = FlattenSeq(e) \o f[n + 1]
    BY <2>4, FlattenMore
  <2> HIDE DEF e
  <2> DEFINE k == AsNew(l)
             a == Added(old, s)
  <2>9. /\ k \in Seq(L) /\ ToSet(k) = {l} \ ToSet(old)
        /\ a \in Seq(L) /\ ToSet(a) = ToSet(s) \ ToSet(old)
        /\ Added(old, r) = a \o k
    <3>1. ToSet(<<l>>) = {l}
      BY DEF ToSet
    <3>2. ToSet(k) = {l} \ ToSet(old)
      BY <3>1, ToSetOfNone
    <3> QED BY <1>2, <2>3, <2>5, <2>6, <2>7, <2>8, <3>2
  <2> HIDE DEF k, a, AsNew
  <2>10. a \o k \in Seq(L) /\ ToSet(a \o k) = ToSet(a) \union ToSet(k)
    BY <2>9, ToSetOf, ConcatProperties
  <2>11. ToSet(r) = ToSet(s) \union {l}
    BY ToSetOf DEF r
  <2> QED BY <2>2, <2>9, <2>10, <2>11 DEF r
<1>3. \A s \in Seq(L) : s \in T
  <2> HIDE DEF T
  <2> QED BY <1>1, <1>2, SeqInduction
<1> QED BY <1>3

(* Merging loses no line and adds none.                                    *)
LEMMA MergedIs ==
  ASSUME NEW S, NL \in S, NEW a \in Seq(S), NEW b \in Seq(S)
  PROVE  Merged(a, b) \in Seq(S) /\ Words(Merged(a, b)) = Words(a) \union Words(b)
<1>1. Words(<<>>) = {}
  <2>1. ToSet(<< <<>> >>) = {<<>>}
    BY DEF ToSet
  <2> QED BY <2>1, LinesOfNone DEF Words
<1>2. CASE b = <<>>
  BY <1>1, <1>2 DEF Merged
<1>3. CASE b # <<>> /\ a = <<>>
  BY <1>1, <1>3 DEF Merged
<1>4. CASE b # <<>> /\ a # <<>>
  <2> DEFINE x == LinesOf(a)
             y == LinesOf(b)
             z == Added(x, y)
             w == x \o z
  <2>1. x \in Seq(Line(S)) /\ x # <<>> /\ y \in Seq(Line(S))
    <3>1. LinesOf(a) \in Lines(S) /\ LinesOf(b) \in Lines(S)
      BY LinesOfMore
    <3> QED BY <3>1 DEF Lines
  <2>2. Merged(a, b) = Joined(w)
    BY <1>4 DEF Merged
  <2>3. z \in Seq(Line(S)) /\ ToSet(z) = ToSet(y) \ ToSet(x)
    <3> HIDE DEF x, y
    <3> QED BY <2>1, AddedIs
  <2> HIDE DEF x, y, z
  <2>4. w \in Seq(Line(S)) /\ w # <<>>
    BY <2>1, <2>3, ConcatProperties, ConcatEqualIffEmpty
  <2>5. ToSet(w) = ToSet(x) \union ToSet(z)
    <3>1. PICK l : l \in Line(S)
      BY EmptySeq DEF Line
    <3> QED BY <2>1, <2>3, <3>1, ToSetOf
  <2> HIDE DEF w
  <2>6. Joined(w) \in Seq(S) /\ LinesOf(Joined(w)) = w
    BY <2>4, LinesOfJoined DEF Lines
  <2> QED BY <2>2, <2>3, <2>5, <2>6 DEF Words, x, y
<1> QED BY <1>2, <1>3, <1>4


-----------------------------------------------------------------------------
(* Writing a tree and reading the lines of its nodes.                      *)

(* The line of a node.                                                     *)
LineFor(tr, n, sol) ==
  [id |-> n, label |-> Escaped(tr.text[n]), visits |-> tr.visits[n],
   red |-> OnSolution(tr, n, sol)]

LEMMA NodesPrinted ==
  ASSUME NEW S, NEW tr, IsTree(tr, S), NEW sol
  PROVE  /\ Cardinality(Nodes(tr)) \in Nat
         /\ DOMAIN Printed(tr, sol).nodes = 1..Cardinality(Nodes(tr))
         /\ \A i \in 1..Cardinality(Nodes(tr)) :
              Printed(tr, sol).nodes[i] = LineFor(tr, InOrder(Nodes(tr))[i], sol)
<1> DEFINE N == Nodes(tr)
           order == InOrder(N)
<1>1. Cardinality(N) \in Nat /\ order \in [1..Cardinality(N) -> N]
  BY InOrderIs DEF IsTree, IsShape
<1>2. DOMAIN order = 1..Cardinality(N)
  BY <1>1
<1>3. Printed(tr, sol).nodes = [i \in DOMAIN order |-> LineFor(tr, order[i], sol)]
  BY DEF Printed, LineFor
<1> HIDE DEF order
<1>4. /\ DOMAIN Printed(tr, sol).nodes = 1..Cardinality(N)
      /\ \A i \in 1..Cardinality(N) : Printed(tr, sol).nodes[i] = LineFor(tr, order[i], sol)
  BY <1>2, <1>3
<1> QED BY <1>1, <1>4 DEF order

(* The line of every node is found by its name.                            *)
LEMMA LinesReadAre ==
  ASSUME NEW S, NEW tr, IsTree(tr, S), NEW sol
  PROVE  LinesRead(Printed(tr, sol)) = [n \in Nodes(tr) |-> LineFor(tr, n, sol)]
<1> DEFINE N == Nodes(tr)
           order == InOrder(N)
           nodes == Printed(tr, sol).nodes
<1>1. PICK c \in Nat : c = Cardinality(N)
  BY NodesPrinted
<1>2. /\ order \in [1..c -> N]
      /\ \A i, j \in 1..c : order[i] = order[j] => i = j
      /\ \A x \in N : \E i \in 1..c : order[i] = x
  BY <1>1, InOrderIs DEF IsTree, IsShape
<1>3. DOMAIN nodes = 1..c /\ \A i \in 1..c : nodes[i] = LineFor(tr, order[i], sol)
  BY <1>1, NodesPrinted
<1>4. LinesRead(Printed(tr, sol)) =
        [id \in {nodes[i].id : i \in DOMAIN nodes} |-> CHOOSE l \in ToSet(nodes) : l.id = id]
  BY DEF LinesRead
<1> HIDE DEF N, order, nodes
<1>5. \A i \in 1..c : nodes[i].id = order[i]
  BY <1>3 DEF LineFor
<1>6. {nodes[i].id : i \in DOMAIN nodes} = N
  BY <1>2, <1>3, <1>5
<1>7. ToSet(nodes) = {nodes[i] : i \in 1..c}
  BY <1>3 DEF ToSet
<1>8. ASSUME NEW n \in N
      PROVE  (CHOOSE l \in ToSet(nodes) : l.id = n) = LineFor(tr, n, sol)
  <2>1. PICK i \in 1..c : order[i] = n
    BY <1>2
  <2>2. nodes[i] \in ToSet(nodes) /\ nodes[i].id = n /\ nodes[i] = LineFor(tr, n, sol)
    BY <1>3, <1>5, <1>7, <2>1
  <2>3. ASSUME NEW l \in ToSet(nodes), l.id = n PROVE l = LineFor(tr, n, sol)
    <3>1. PICK j \in 1..c : l = nodes[j]
      BY <1>7
    <3>2. order[j] = n
      BY <1>5, <2>3, <3>1
    <3> QED BY <1>3, <3>1, <3>2
  <2> QED BY <2>2, <2>3
<1>9. LinesRead(Printed(tr, sol)) = [n \in N |-> CHOOSE l \in ToSet(nodes) : l.id = n]
  BY <1>4, <1>6
<1> QED BY <1>8, <1>9 DEF N

(* The visits are read right unless the text looks like them.              *)
LEMMA VisitsAreRead ==
  ASSUME NEW S, NEW tr, IsTree(tr, S), Sign \subseteq S, NEW sol, NEW n \in Nodes(tr)
  PROVE  VisitsRead(LineFor(tr, n, sol)) = tr.visits[n] \/ Mark \in ToSet(tr.text[n])
<1> DEFINE t == tr.text[n]
           e == Escaped(t)
           l == LineFor(tr, n, sol)
<1>1. t \in Seq(S)
  BY DEF IsTree
<1>2. l.label = e /\ l.visits = tr.visits[n]
  BY DEF LineFor
<1>3. NL \in S
  BY DEF Sign
<1> HIDE DEF t, l
<1>4. e \in Seq(S)
  BY <1>1, <1>3, EscapedMore
<1>5. Len(e) \in Nat
  BY <1>4
<1>6. ASSUME NEW i \in 1..(Len(e) - 1), e[i] = Mark PROVE Mark \in ToSet(t)
  <2>1. i \in 1..Len(e)
    BY <1>5
  <2>2. PICK k \in 1..Len(t) : t[k] = Mark
    BY <1>1, <1>6, <2>1, LabelHas
  <2>3. DOMAIN t = 1..Len(t)
    BY <1>1
  <2> QED BY <2>2, <2>3 DEF ToSet
<1>7. (\A i \in 1..(Len(e) - 1) : e[i] # Mark) => VisitsRead(l) = l.visits
  BY <1>2 DEF VisitsRead
<1> QED BY <1>2, <1>6, <1>7 DEF l, t

-----------------------------------------------------------------------------
(* Children.                                                               *)

(* Positions without a gap are the first numbers.                          *)
LEMMA NoGap ==
  ASSUME NEW K, IsFiniteSet(K), K \subseteq Nat \ {0},
         \A k \in K : \A j \in 1..k : j \in K
  PROVE  Cardinality(K) \in Nat /\ K = 1..Cardinality(K)
<1>1. PICK c \in Nat : c = Cardinality(K)
  BY FS_CardinalityType
<1>2. \A n \in Nat : IsFiniteSet(1..n) /\ Cardinality(1..n) = n
  <2>1. ASSUME NEW n \in Nat PROVE IsFiniteSet(1..n) /\ Cardinality(1..n) = n
    <3>1. IsFiniteSet(1..n) /\ Cardinality(1..n) = IF 1 > n THEN 0 ELSE n - 1 + 1
      BY FS_Interval
    <3> QED BY <3>1
  <2> QED BY <2>1
<1>3. PICK m \in 1..(c + 1) : m \notin K
  <2>1. SUFFICES ASSUME 1..(c + 1) \subseteq K PROVE FALSE
    OBVIOUS
  <2>2. Cardinality(1..(c + 1)) <= c
    BY <1>1, <2>1, FS_Subset
  <2>3. c + 1 \in Nat
    OBVIOUS
  <2> QED BY <1>2, <2>2, <2>3
<1>4. K \subseteq 1..c
  <2>1. ASSUME NEW k \in K PROVE k \in 1..(m - 1)
    <3>1. k \in Nat \ {0} /\ ~(m \in 1..k)
      BY <1>3
    <3> QED BY <3>1
  <2>2. K \subseteq 1..(m - 1)
    BY <2>1
  <2>3. m - 1 \in Nat /\ m - 1 <= c
    OBVIOUS
  <2> QED BY <2>2, <2>3
<1>5. K = 1..c
  <2>1. K \in SUBSET (1..c) /\ Cardinality(1..c) = Cardinality(K) /\ IsFiniteSet(1..c)
    BY <1>1, <1>2, <1>4
  <2> QED BY <2>1, FS_Subset
<1> QED BY <1>1, <1>5

(* There is one way to put the first numbers into order.                   *)
LEMMA OneOrder ==
  ASSUME NEW c \in Nat, NEW g \in [1..c -> 1..c],
         \A i, j \in 1..c : i < j => g[i] < g[j]
  PROVE  \A i \in 1..c : g[i] = i
<1> DEFINE T == {d \in Nat : d + 1 <= c => g[d + 1] >= d + 1}
           U == {d \in Nat : d < c => g[c - d] <= c - d}
<1>1. 0 \in T
  <2>1. 1 <= c => 1 \in 1..c /\ 0 + 1 = 1
    OBVIOUS
  <2>2. 1 <= c => g[1] \in 1..c
    BY <2>1
  <2> QED BY <2>1, <2>2
<1>2. ASSUME NEW d \in Nat, d \in T PROVE d + 1 \in T
  <2> SUFFICES ASSUME (d + 1) + 1 <= c PROVE g[(d + 1) + 1] >= (d + 1) + 1
    OBVIOUS
  <2>1. d + 1 \in 1..c /\ (d + 1) + 1 \in 1..c /\ d + 1 < (d + 1) + 1
    OBVIOUS
  <2>2. g[d + 1] < g[(d + 1) + 1] /\ g[d + 1] \in 1..c /\ g[(d + 1) + 1] \in 1..c
    BY <2>1
  <2>3. g[d + 1] >= d + 1
    BY <1>2, <2>1
  <2> DEFINE x == g[d + 1]
             y == g[(d + 1) + 1]
  <2>4. x \in Int /\ y \in Int /\ x < y /\ x >= d + 1
    BY <2>2, <2>3
  <2> HIDE DEF x, y
  <2>5. y >= (d + 1) + 1
    BY <2>4
  <2> QED BY <2>5 DEF y
<1>3. \A d \in Nat : d \in T
  <2> HIDE DEF T
  <2> QED BY <1>1, <1>2, SetInduction
<1>4. 0 \in U
  <2>1. 0 < c => c - 0 = c /\ c \in 1..c
    OBVIOUS
  <2>2. 0 < c => g[c] \in 1..c
    BY <2>1
  <2> QED BY <2>1, <2>2
<1>5. ASSUME NEW d \in Nat, d \in U PROVE d + 1 \in U
  <2> SUFFICES ASSUME d + 1 < c PROVE g[c - (d + 1)] <= c - (d + 1)
    OBVIOUS
  <2>1. c - (d + 1) \in 1..c /\ c - d \in 1..c /\ c - (d + 1) < c - d
    OBVIOUS
  <2> DEFINE x == g[c - (d + 1)]
             y == g[c - d]
  <2>2. x < y /\ x \in 1..c /\ y \in 1..c
    BY <2>1
  <2>3. y <= c - d
    BY <1>5, <2>1
  <2> HIDE DEF x, y
  <2>4. x <= c - (d + 1)
    BY <2>2, <2>3
  <2> QED BY <2>4 DEF x
<1>6. \A d \in Nat : d \in U
  <2> HIDE DEF U
  <2> QED BY <1>4, <1>5, SetInduction
<1> SUFFICES ASSUME NEW i \in 1..c PROVE g[i] = i
  OBVIOUS
<1>7. i - 1 \in Nat /\ (i - 1) + 1 = i /\ c - i \in Nat /\ c - (c - i) = i /\ c - i < c
  OBVIOUS
<1>8. g[i] >= i
  BY <1>3, <1>7
<1>9. g[i] <= i
  BY <1>6, <1>7
<1>10. g[i] \in 1..c
  OBVIOUS
<1> QED BY <1>8, <1>9, <1>10

LEMMA SiblingsInOrder ==
  ASSUME NEW n \in Name, NEW a \in Nat \ {0}, NEW b \in Nat \ {0}
  PROVE  /\ Append(n, a) \in Name
         /\ Append(n, a) = Append(n, b) => a = b
         /\ Earlier(Append(n, a), Append(n, b)) => a < b
<1> DEFINE p == Append(n, a)
           q == Append(n, b)
<1>1. PICK k \in Nat : k = Len(n)
  BY DEF Name
<1>2. /\ p \in Name /\ Len(p) = k + 1 /\ p[k + 1] = a /\ \A j \in 1..k : p[j] = n[j]
      /\ q \in Name /\ Len(q) = k + 1 /\ q[k + 1] = b /\ \A j \in 1..k : q[j] = n[j]
  BY <1>1, AppendProperties DEF Name
<1> HIDE DEF p, q
<1>3. ASSUME Earlier(p, q) PROVE a < b
  <2>1. PICK i \in Nat : EarlierAt(p, q, i)
    BY <1>2, <1>3, EarlierIs
  <2>2. i \in 1..(k + 1) /\ p[i] < q[i]
    BY <1>2, <2>1 DEF EarlierAt
  <2>3. CASE i = k + 1
    BY <1>2, <2>2, <2>3
  <2>4. CASE i \in 1..k
    <3>1. p[i] = q[i] /\ p[i] \in Nat
      BY <1>2, <2>4 DEF Name
    <3> QED BY <2>2, <3>1
  <2> QED BY <2>2, <2>3, <2>4
<1>4. p = q => a = b
  BY <1>2
<1> QED BY <1>2, <1>3, <1>4 DEF p, q

(* The children of a node, by their positions.                             *)
LEMMA BelowIs ==
  ASSUME NEW S, NEW tr, IsTree(tr, S), NEW n \in Nodes(tr)
  PROVE  /\ IsFiniteSet(Below(tr, n)) /\ Below(tr, n) \subseteq Name
         /\ Cardinality(Below(tr, n)) \in Nat
         /\ Below(tr, n) = {Append(n, k) : k \in 1..Cardinality(Below(tr, n))}
<1> DEFINE N == Nodes(tr)
           B == Below(tr, n)
           K == {k \in Nat \ {0} : Append(n, k) \in N}
<1>1. IsShape(N) /\ n \in Name /\ \A m \in N : m \in Name
  BY DEF IsTree, IsShape
<1>2. IsFiniteSet(B) /\ B \subseteq Name
  <2>1. B \subseteq N
    BY DEF Below
  <2>2. IsFiniteSet(N)
    BY <1>1 DEF IsShape
  <2> QED BY <1>1, <2>1, <2>2, FS_Subset
<1>3. B = {Append(n, k) : k \in K}
  <2>1. ASSUME NEW m \in B PROVE \E k \in K : m = Append(n, k)
    <3>1. m \in N /\ m \in Name /\ Len(m) = Len(n) + 1 /\ Above(n, m)
      BY <1>1 DEF Below
    <3>2. m # <<>>
      <4>1. Len(m) # 0
        BY <1>1, <3>1 DEF Name
      <4> QED BY <4>1
    <3>3. /\ Front(m) \in Name /\ Last(m) \in Nat \ {0} /\ m = Append(Front(m), Last(m))
          /\ Len(m) \in Nat /\ Len(Front(m)) = Len(m) - 1
          /\ \A j \in 1..(Len(m) - 1) : Front(m)[j] = m[j]
      BY <3>1, <3>2, ParentIs
    <3>4. \A j \in 1..Len(n) : n[j] = m[j]
      BY <1>1, <3>1, AboveIs
    <3>5. Front(m) = n
      <4>1. Len(Front(m)) = Len(n) /\ Len(m) - 1 = Len(n)
        BY <1>1, <3>1, <3>3 DEF Name
      <4>2. \A j \in 1..Len(n) : Front(m)[j] = n[j]
        BY <3>3, <3>4, <4>1
      <4> QED BY <1>1, <3>3, <4>1, <4>2, SeqEqual DEF Name
    <3> QED BY <3>1, <3>3, <3>5
  <2>2. ASSUME NEW k \in K PROVE Append(n, k) \in B
    <3> DEFINE m == Append(n, k)
    <3>1. m \in N /\ Len(m) = Len(n) + 1 /\ \A j \in 1..Len(n) : m[j] = n[j]
      BY <1>1, AppendProperties DEF Name
    <3>2. Len(n) < Len(m) /\ m \in Name
      BY <1>1, <3>1 DEF Name
    <3> HIDE DEF m
    <3>3. Above(n, m)
      BY <1>1, <3>1, <3>2, AboveIs
    <3>4. m \in B
      BY <3>1, <3>3 DEF Below
    <3> QED BY <3>4 DEF m
  <2> QED BY <2>1, <2>2
<1>4. \A k \in K : \A j \in 1..k : j \in K
  <2>1. ASSUME NEW k \in K, NEW j \in 1..k PROVE j \in K
    <3> DEFINE m == Append(n, k)
    <3>1. m \in N /\ k \in Nat \ {0}
      OBVIOUS
    <3>2. m # <<>> /\ Front(m) = n /\ Last(m) = k
      <4>1. n \in Seq(Nat \ {0}) /\ k \in Nat \ {0}
        BY <1>1 DEF Name
      <4>2. Front(m) = n /\ Last(m) = k
        BY <4>1, FrontAndLast
      <4>3. m # <<>>
        BY <4>1, AppendProperties
      <4> QED BY <4>2, <4>3
    <3> HIDE DEF m
    <3>3. \A i \in 1..Last(m) : Append(Front(m), i) \in N
      BY <1>1, <3>1, <3>2 DEF IsShape
    <3>4. Append(n, j) \in N
      BY <3>2, <3>3
    <3> QED BY <3>4
  <2> QED BY <2>1
<1> DEFINE h == [k \in K |-> Append(n, k)]
<1>5. IsFiniteSet(K) /\ Cardinality(K) = Cardinality(B)
  <2>1. \A k, j \in K : h[k] = h[j] => k = j
    BY <1>1, SiblingsInOrder
  <2>2. h \in [K -> B] /\ \A m \in B : \E k \in K : h[k] = m
    BY <1>3
  <2> HIDE DEF h, K, B
  <2>3. h \in Injection(K, B) /\ h \in Surjection(K, B)
    BY <2>1, <2>2, Fun_IsInj, Fun_IsSurj
  <2> QED BY <1>2, <2>3, FS_Injection
<1>6. Cardinality(K) \in Nat /\ K = 1..Cardinality(K)
  <2>1. K \subseteq Nat \ {0}
    OBVIOUS
  <2> HIDE DEF K
  <2> QED BY <1>4, <1>5, <2>1, NoGap
<1>7. B = {Append(n, k) : k \in 1..Cardinality(B)}
  <2> HIDE DEF K, B
  <2> QED BY <1>3, <1>5, <1>6
<1> QED BY <1>2, <1>5, <1>6, <1>7

(* Children are sorted by their positions.                                 *)
LEMMA BelowInOrder ==
  ASSUME NEW S, NEW tr, IsTree(tr, S), NEW n \in Nodes(tr)
  PROVE  InOrder(Below(tr, n)) = [k \in 1..Cardinality(Below(tr, n)) |-> Append(n, k)]
<1> DEFINE B == Below(tr, n)
           s == InOrder(B)
<1>1. n \in Name
  BY DEF IsTree, IsShape
<1>2. PICK c \in Nat : c = Cardinality(B)
  BY BelowIs
<1>3. B = {Append(n, k) : k \in 1..c} /\ IsFiniteSet(B) /\ B \in SUBSET Name
  BY <1>2, BelowIs
<1> HIDE DEF B
<1>4. s \in [1..c -> B] /\ \A i, j \in 1..c : i < j => Earlier(s[i], s[j])
  BY <1>2, <1>3, InOrderIs
<1> HIDE DEF s
<1> DEFINE g == [i \in 1..c |-> CHOOSE k \in 1..c : s[i] = Append(n, k)]
<1>5. \A i \in 1..c : g[i] \in 1..c /\ s[i] = Append(n, g[i])
  <2>1. ASSUME NEW i \in 1..c PROVE g[i] \in 1..c /\ s[i] = Append(n, g[i])
    <3>1. \E k \in 1..c : s[i] = Append(n, k)
      BY <1>3, <1>4
    <3>2. g[i] = CHOOSE k \in 1..c : s[i] = Append(n, k)
      OBVIOUS
    <3> HIDE DEF g
    <3> QED BY <3>1, <3>2
  <2> HIDE DEF g
  <2> QED BY <2>1
<1>6. g \in [1..c -> 1..c]
  <2>1. \A i \in 1..c : g[i] \in 1..c
    BY <1>5
  <2> DEFINE G(i) == CHOOSE k \in 1..c : s[i] = Append(n, k)
  <2>2. g = [i \in 1..c |-> G(i)] /\ \A i \in 1..c : G(i) = g[i]
    OBVIOUS
  <2> HIDE DEF G
  <2>3. \A i \in 1..c : G(i) \in 1..c
    BY <2>1, <2>2
  <2> HIDE DEF g
  <2> QED BY <2>2, <2>3
<1> HIDE DEF g
<1>7. ASSUME NEW i \in 1..c, NEW j \in 1..c, i < j PROVE g[i] < g[j]
  <2>1. Earlier(Append(n, g[i]), Append(n, g[j]))
    BY <1>4, <1>5, <1>7
  <2>2. g[i] \in Nat \ {0} /\ g[j] \in Nat \ {0}
    BY <1>5
  <2> QED BY <1>1, <2>1, <2>2, SiblingsInOrder
<1>8. \A i \in 1..c : g[i] = i
  BY <1>6, <1>7, OneOrder
<1>9. s = [k \in 1..c |-> Append(n, k)]
  BY <1>4, <1>5, <1>8
<1> QED BY <1>2, <1>9 DEF s, B

(* The children of a node among some edges.                                *)
Edge == Name \X Name
KidOf(e, n) == IF e[1] = n THEN <<e[2]>> ELSE <<>>
Kids(es, n) == FlattenSeq([k \in DOMAIN es |-> KidOf(es[k], n)])

LEMMA SomeEdge == \E e : e \in Edge
<1>1. <<>> \in Name
  BY EmptySeq DEF Name
<1>2. << <<>>, <<>> >> \in Edge
  BY <1>1 DEF Edge
<1> QED BY <1>2

LEMMA KidsNone == \A n : Kids(<<>>, n) = <<>>
<1> SUFFICES ASSUME NEW n PROVE Kids(<<>>, n) = <<>>
  OBVIOUS
<1>1. DOMAIN <<>> = {} /\ [k \in {} |-> KidOf(<<>>[k], n)] = <<>>
  OBVIOUS
<1>2. Kids(<<>>, n) = FlattenSeq([k \in {} |-> KidOf(<<>>[k], n)])
  BY <1>1 DEF Kids
<1> QED BY <1>1, <1>2, FlattenNone

LEMMA KidsMore ==
  ASSUME NEW es \in Seq(Edge), NEW e \in Edge, NEW n
  PROVE  Kids(es, n) \in Seq(Name) /\ Kids(Append(es, e), n) = Kids(es, n) \o KidOf(e, n)
<1> DEFINE r == Append(es, e)
<1>1. PICK m \in Nat : m = Len(es)
  OBVIOUS
<1>2. /\ r \in Seq(Edge) /\ Len(r) = m + 1 /\ r[m + 1] = e /\ \A i \in 1..m : r[i] = es[i]
      /\ DOMAIN r = 1..(m + 1) /\ DOMAIN es = 1..m
  BY <1>1, AppendProperties
<1> HIDE DEF r
<1>3. \A d \in Edge : KidOf(d, n) \in Seq(Name)
  <2>1. ASSUME NEW d \in Edge PROVE KidOf(d, n) \in Seq(Name)
    <3>1. d[2] \in Name
      BY DEF Edge
    <3> QED BY <3>1, EmptySeq DEF KidOf
  <2> QED BY <2>1
<1> DEFINE f == [i \in 1..(m + 1) |-> KidOf(r[i], n)]
           g == [i \in 1..m |-> f[i]]
<1>4. f \in [1..(m + 1) -> Seq(Name)]
  <2>1. \A i \in 1..(m + 1) : r[i] \in Edge
    BY <1>2
  <2> QED BY <1>3, <2>1
<1>5. Kids(r, n) = FlattenSeq(f)
  BY <1>2 DEF Kids
<1>6. Kids(es, n) = FlattenSeq(g)
  <2>1. g = [i \in 1..m |-> KidOf(es[i], n)]
    BY <1>2
  <2> HIDE DEF g
  <2> QED BY <1>2, <2>1 DEF Kids
<1>7. f[m + 1] = KidOf(e, n)
  BY <1>2
<1> HIDE DEF f
<1>8. FlattenSeq(g) \in Seq(Name) /\ FlattenSeq(f) = FlattenSeq(g) \o f[m + 1]
  BY <1>4, FlattenMore
<1> HIDE DEF g
<1> QED BY <1>5, <1>6, <1>7, <1>8 DEF r

LEMMA KidsJoined ==
  ASSUME NEW a \in Seq(Edge), NEW b \in Seq(Edge), NEW n
  PROVE  Kids(a \o b, n) = Kids(a, n) \o Kids(b, n)
<1> DEFINE T == {s \in Seq(Edge) : Kids(a \o s, n) = Kids(a, n) \o Kids(s, n)}
<1>1. \A s \in Seq(Edge) : Kids(s, n) \in Seq(Name)
  <2>1. PICK e : e \in Edge
    BY SomeEdge
  <2> QED BY <2>1, KidsMore
<1>2. <<>> \in T
  <2>1. a \o <<>> = a
    BY ConcatEmptySeq
  <2>2. Kids(a, n) \o <<>> = Kids(a, n)
    BY <1>1, ConcatEmptySeq
  <2> QED BY <2>1, <2>2, KidsNone, EmptySeq
<1>3. ASSUME NEW s \in Seq(Edge), NEW e \in Edge, s \in T PROVE Append(s, e) \in T
  <2>1. a \o s \in Seq(Edge) /\ a \o Append(s, e) = Append(a \o s, e)
    BY ConcatProperties
  <2>2. Kids(Append(a \o s, e), n) = Kids(a \o s, n) \o KidOf(e, n)
    BY <2>1, KidsMore
  <2>3. Kids(Append(s, e), n) = Kids(s, n) \o KidOf(e, n)
    BY KidsMore
  <2> DEFINE x == Kids(a, n)
             y == Kids(s, n)
             z == KidOf(e, n)
  <2>4. x \in Seq(Name) /\ y \in Seq(Name) /\ z \in Seq(Name)
    <3>1. e[2] \in Name
      BY DEF Edge
    <3>2. KidOf(e, n) \in Seq(Name)
      BY <3>1, EmptySeq DEF KidOf
    <3> QED BY <1>1, <3>2
  <2>5. Kids(a \o s, n) = x \o y
    BY <1>3
  <2> HIDE DEF x, y, z
  <2>6. (x \o y) \o z = x \o (y \o z)
    BY <2>4, ConcatAssociative
  <2>7. Kids(a \o Append(s, e), n) = x \o Kids(Append(s, e), n)
    BY <2>1, <2>2, <2>3, <2>5, <2>6 DEF y, z
  <2>8. Append(s, e) \in Seq(Edge)
    BY AppendProperties
  <2> QED BY <2>7, <2>8 DEF x
<1>4. \A s \in Seq(Edge) : s \in T
  <2> HIDE DEF T
  <2> QED BY <1>2, <1>3, SeqInduction
<1> QED BY <1>4

(* The edges of one node.                                                  *)
LEMMA KidsOfOne ==
  ASSUME NEW es \in Seq(Edge), NEW m, \A i \in 1..Len(es) : es[i][1] = m, NEW n
  PROVE  Kids(es, n) = IF m = n THEN [i \in 1..Len(es) |-> es[i][2]] ELSE <<>>
<1> DEFINE T == {s \in Seq(Edge) : (\A i \in 1..Len(s) : s[i][1] = m) =>
                   Kids(s, n) = IF m = n THEN [i \in 1..Len(s) |-> s[i][2]] ELSE <<>>}
<1>1. <<>> \in T
  <2>1. Len(<<>>) = 0 /\ [i \in 1..0 |-> <<>>[i][2]] = <<>>
    OBVIOUS
  <2> QED BY <2>1, KidsNone, EmptySeq
<1>2. ASSUME NEW s \in Seq(Edge), NEW e \in Edge, s \in T PROVE Append(s, e) \in T
  <2> DEFINE r == Append(s, e)
  <2>1. PICK k \in Nat : k = Len(s)
    OBVIOUS
  <2>2. /\ r \in Seq(Edge) /\ Len(r) = k + 1 /\ r[k + 1] = e /\ \A i \in 1..k : r[i] = s[i]
    BY <2>1, AppendProperties
  <2>3. Kids(r, n) = Kids(s, n) \o KidOf(e, n)
    BY KidsMore
  <2> HIDE DEF r
  <2> SUFFICES ASSUME \A i \in 1..(k + 1) : r[i][1] = m
               PROVE  Kids(r, n) = IF m = n THEN [i \in 1..(k + 1) |-> r[i][2]] ELSE <<>>
    BY <2>2 DEF r
  <2>4. e[1] = m /\ e[2] \in Name
    BY <2>2 DEF Edge
  <2>5. \A i \in 1..k : i \in 1..(k + 1) /\ s[i][1] = m /\ s[i] \in Edge
    BY <2>1, <2>2
  <2>6. Kids(s, n) = IF m = n THEN [i \in 1..k |-> s[i][2]] ELSE <<>>
    BY <1>2, <2>1, <2>5
  <2>7. CASE m # n
    <3>1. <<>> \o <<>> = <<>>
      OBVIOUS
    <3> QED BY <2>3, <2>4, <2>6, <2>7, <3>1 DEF KidOf
  <2>8. CASE m = n
    <3> DEFINE x == [i \in 1..k |-> s[i][2]]
               y == [i \in 1..(k + 1) |-> r[i][2]]
    <3>1. x \in Seq(Name) /\ Len(x) = k /\ \A i \in 1..k : x[i] = s[i][2]
      <4>1. \A i \in 1..k : s[i][2] \in Name
        BY <2>5 DEF Edge
      <4> QED BY <4>1
    <3>2. \A i \in 1..(k + 1) : r[i][2] \in Name
      <4>1. \A i \in 1..(k + 1) : r[i] \in Edge
        BY <2>2
      <4> QED BY <4>1 DEF Edge
    <3>3. y \in Seq(Name) /\ Len(y) = k + 1 /\ \A i \in 1..(k + 1) : y[i] = r[i][2]
      BY <3>2
    <3>4. Kids(r, n) = x \o <<e[2]>>
      BY <2>3, <2>4, <2>6, <2>8 DEF KidOf
    <3> HIDE DEF x, y
    <3>5. x \o <<e[2]>> = Append(x, e[2])
      BY <2>4, <3>1, AppendIsConcat
    <3> DEFINE z == Append(x, e[2])
    <3>6. z \in Seq(Name) /\ Len(z) = k + 1 /\ z[k + 1] = e[2] /\ \A i \in 1..k : z[i] = x[i]
      BY <2>4, <3>1, AppendProperties
    <3> HIDE DEF z
    <3>7. \A i \in 1..(k + 1) : i \in 1..k \/ i = k + 1
      OBVIOUS
    <3>8. \A i \in 1..(k + 1) : z[i] = y[i]
      BY <2>2, <2>5, <3>1, <3>3, <3>6, <3>7
    <3>9. z = y
      BY <3>3, <3>6, <3>8, SeqEqual
    <3> QED BY <2>8, <3>4, <3>5, <3>9 DEF y, z
  <2> QED BY <2>7, <2>8
<1>3. \A s \in Seq(Edge) : s \in T
  <2> HIDE DEF T
  <2> QED BY <1>1, <1>2, SeqInduction
<1> QED BY <1>3

(* The children of every node are read, the last one first.                *)
LEMMA ChildrenAreRead ==
  ASSUME NEW S, NEW tr, IsTree(tr, S), NEW sol, NEW n \in Nodes(tr)
  PROVE  ChildrenRead(Printed(tr, sol), n) = Reverse(InOrder(Below(tr, n)))
<1> DEFINE N == Nodes(tr)
           order == InOrder(N)
           es == Printed(tr, sol).edges
           Group(q) == [k \in 1..Cardinality(Below(tr, q)) |->
                          <<q, Append(q, Cardinality(Below(tr, q)) + 1 - k)>>]
<1>1. PICK c \in Nat : c = Cardinality(N)
  BY NodesPrinted
<1>2. /\ order \in [1..c -> N] /\ N \subseteq Name
      /\ \A i, j \in 1..c : order[i] = order[j] => i = j
      /\ \A x \in N : \E i \in 1..c : order[i] = x
  BY <1>1, InOrderIs DEF IsTree, IsShape
<1>3. ChildrenRead(Printed(tr, sol), n) = Kids(es, n)
  BY DEF ChildrenRead, Kids, KidOf
<1> DEFINE G == [i \in 1..c |-> Group(order[i])]
<1>4. es = FlattenSeq(G)
  BY <1>2 DEF Printed
<1>5. ASSUME NEW q \in N
      PROVE  /\ Group(q) \in Seq(Edge)
             /\ Kids(Group(q), n) = IF q = n THEN Reverse(InOrder(Below(tr, n))) ELSE <<>>
  <2>1. PICK b \in Nat : b = Cardinality(Below(tr, q))
    BY BelowIs
  <2>2. q \in Name
    BY <1>2
  <2>3. Group(q) = [k \in 1..b |-> <<q, Append(q, b + 1 - k)>>]
    BY <2>1
  <2>4. \A k \in 1..b : b + 1 - k \in Nat \ {0} /\ (b - k) + 1 = b + 1 - k /\ b + 1 - k \in 1..b
    OBVIOUS
  <2>5. \A k \in 1..b : <<q, Append(q, b + 1 - k)>> \in Edge
    BY <2>2, <2>4, SiblingsInOrder DEF Edge
  <2> DEFINE s == [k \in 1..b |-> <<q, Append(q, b + 1 - k)>>]
  <2>6. s \in Seq(Edge) /\ Len(s) = b /\ \A k \in 1..b : s[k] = <<q, Append(q, b + 1 - k)>>
    <3> DEFINE e(k) == <<q, Append(q, b + 1 - k)>>
    <3>1. \A k \in 1..b : e(k) \in Edge
      BY <2>5
    <3> HIDE DEF e
    <3>2. /\ [k \in 1..b |-> e(k)] \in Seq(Edge) /\ Len([k \in 1..b |-> e(k)]) = b
          /\ \A k \in 1..b : [j \in 1..b |-> e(j)][k] = e(k)
      BY <3>1
    <3> QED BY <3>2 DEF e
  <2>7. \A k \in 1..b : s[k][1] = q /\ s[k][2] = Append(q, b + 1 - k)
    BY <2>6
  <2> HIDE DEF s, Group
  <2>8. Kids(s, n) = IF q = n THEN [k \in 1..b |-> s[k][2]] ELSE <<>>
    <3>1. s \in Seq(Edge) /\ \A k \in 1..Len(s) : s[k][1] = q
      BY <2>6, <2>7
    <3>2. Kids(s, n) = IF q = n THEN [k \in 1..Len(s) |-> s[k][2]] ELSE <<>>
      <4>1. \A r \in Seq(Edge) : (\A i \in 1..Len(r) : r[i][1] = q) =>
              Kids(r, n) = IF q = n THEN [i \in 1..Len(r) |-> r[i][2]] ELSE <<>>
        BY KidsOfOne
      <4> QED BY <3>1, <4>1
    <3> QED BY <2>6, <3>2
  <2>9. Reverse(InOrder(Below(tr, q))) = [k \in 1..b |-> Append(q, b + 1 - k)]
    <3> DEFINE o == [k \in 1..b |-> Append(q, k)]
    <3>1. InOrder(Below(tr, q)) = o
      BY <2>1, BelowInOrder
    <3>2. Len(o) = b
      OBVIOUS
    <3>3. \A k \in 1..b : o[(b - k) + 1] = Append(q, b + 1 - k)
      BY <2>4
    <3> HIDE DEF o
    <3> QED BY <3>1, <3>2, <3>3 DEF Reverse
  <2>10. [k \in 1..b |-> s[k][2]] = [k \in 1..b |-> Append(q, b + 1 - k)]
    BY <2>7
  <2> QED BY <2>3, <2>6, <2>8, <2>9, <2>10 DEF s
<1>6. G \in Seq(Seq(Edge)) /\ Len(G) = c /\ \A i \in 1..c : G[i] = Group(order[i])
  <2> HIDE DEF Group, order
  <2>1. \A i \in 1..c : Group(order[i]) \in Seq(Edge)
    BY <1>2, <1>5
  <2> QED BY <2>1
<1>7. PICK p \in 1..c : order[p] = n
  BY <1>2
<1> DEFINE answer == Reverse(InOrder(Below(tr, n)))
<1>8. \A i \in 1..c : /\ G[i] \in Seq(Edge)
                      /\ Kids(G[i], n) = IF i = p THEN answer ELSE <<>>
  <2>1. \A i \in 1..c : order[i] \in N /\ (order[i] = n <=> i = p)
    BY <1>2, <1>7
  <2> HIDE DEF Group, G, answer
  <2> QED BY <1>5, <1>6, <2>1 DEF answer
<1>9. answer \in Seq(Name)
  <2>1. Kids(G[p], n) = answer /\ G[p] \in Seq(Edge)
    BY <1>8
  <2>2. PICK e : e \in Edge
    BY SomeEdge
  <2> HIDE DEF G, answer
  <2> QED BY <2>1, <2>2, KidsMore
<1> HIDE DEF G, Group, answer, order, es
<1>10. PICK g \in [0..c -> Seq(Edge)] :
         /\ g[0] = <<>> /\ \A i \in 1..c : g[i] = g[i - 1] \o G[i]
         /\ FlattenSeq(G) = g[c]
  <2>1. \E g \in [0..Len(G) -> Seq(Edge)] :
           /\ g[0] = <<>> /\ \A i \in 1..Len(G) : g[i] = g[i - 1] \o G[i]
           /\ FlattenSeq(G) = g[Len(G)]
    BY <1>6, FlattenIs
  <2> QED BY <1>6, <2>1
<1> DEFINE T == {i \in Nat : i <= c => Kids(g[i], n) = IF i < p THEN <<>> ELSE answer}
<1>11. 0 \in T
  BY <1>10, KidsNone
<1>12. ASSUME NEW i \in Nat, i \in T PROVE i + 1 \in T
  <2> SUFFICES ASSUME i + 1 <= c
               PROVE  Kids(g[i + 1], n) = IF i + 1 < p THEN <<>> ELSE answer
    OBVIOUS
  <2>1. i + 1 \in 1..c /\ (i + 1) - 1 = i /\ i \in 0..c
    OBVIOUS
  <2>2. g[i + 1] = g[i] \o G[i + 1] /\ g[i] \in Seq(Edge) /\ G[i + 1] \in Seq(Edge)
    BY <1>8, <1>10, <2>1
  <2>3. Kids(g[i + 1], n) = Kids(g[i], n) \o Kids(G[i + 1], n)
    <3>1. Kids(g[i] \o G[i + 1], n) = Kids(g[i], n) \o Kids(G[i + 1], n)
      BY <2>2, KidsJoined
    <3> QED BY <2>2, <3>1
  <2>4. Kids(g[i], n) = IF i < p THEN <<>> ELSE answer
    BY <1>12
  <2>5. Kids(G[i + 1], n) = IF i + 1 = p THEN answer ELSE <<>>
    BY <1>8, <2>1
  <2>6. <<>> \o <<>> = <<>> /\ <<>> \o answer = answer /\ answer \o <<>> = answer
    BY <1>9, ConcatEmptySeq
  <2>7. p \in Nat
    OBVIOUS
  <2>8. CASE i + 1 < p
    <3>1. i < p /\ i + 1 # p
      BY <2>7, <2>8
    <3> QED BY <2>3, <2>4, <2>5, <2>6, <2>8, <3>1
  <2>9. CASE i + 1 = p
    <3>1. i < p /\ ~(i + 1 < p)
      BY <2>7, <2>9
    <3> QED BY <2>3, <2>4, <2>5, <2>6, <2>9, <3>1
  <2>10. CASE i + 1 > p
    <3>1. ~(i < p) /\ i + 1 # p /\ ~(i + 1 < p)
      BY <2>7, <2>10
    <3> QED BY <2>3, <2>4, <2>5, <2>6, <3>1
  <2> QED BY <2>7, <2>8, <2>9, <2>10
<1>13. \A i \in Nat : i \in T
  <2> HIDE DEF T
  <2> QED BY <1>11, <1>12, SetInduction
<1>14. Kids(g[c], n) = answer
  <2>1. ~(c < p)
    OBVIOUS
  <2> QED BY <1>13, <2>1
<1> QED BY <1>3, <1>4, <1>10, <1>14 DEF answer

-----------------------------------------------------------------------------
(* The solution.                                                           *)

IsRed(tr, sol, n) == n \in Nodes(tr) /\ OnSolution(tr, n, sol)

LEMMA RootFirst == \A n \in Name : IsPrefix(<<>>, n)
<1> SUFFICES ASSUME NEW n \in Name PROVE IsPrefix(<<>>, n)
  OBVIOUS
<1> DEFINE e == <<>>
<1>1. e \in Seq(Nat \ {0}) /\ n \in Seq(Nat \ {0})
  BY EmptySeq DEF Name
<1>2. e \o n = n
  BY <1>1, ConcatEmptySeq
<1> HIDE DEF e
<1>3. IsPrefix(e, e \o n)
  BY <1>1, PrefixFacts
<1> QED BY <1>2, <1>3 DEF e

(* The red nodes are a way from the root, if no sibling is among them.     *)
LEMMA RedNodes ==
  ASSUME NEW S, NEW tr, IsTree(tr, S), NEW n0 \in Nodes(tr), NEW sol, sol = PathText(tr, n0)
  PROVE  /\ IsRed(tr, sol, n0) /\ IsRed(tr, sol, <<>>)
         /\ \A q \in Nodes(tr) \ {<<>>} : IsRed(tr, sol, q) => IsRed(tr, sol, Front(q))
         /\ \A q \in Nodes(tr) : IsRed(tr, sol, q) /\ IsPrefix(n0, q) => PathText(tr, q) = sol
<1> DEFINE N == Nodes(tr)
           P(n) == PathText(tr, n)
<1>1. IsShape(N) /\ <<>> \in N /\ \A n \in N : n \in Name
  BY DEF IsTree, IsShape
<1>2. \A n \in N : P(n) \in Seq(S)
  BY PathTextIs
<1>3. ASSUME NEW m \in N, NEW n \in N, IsPrefix(m, n) PROVE IsPrefix(P(m), P(n))
  BY <1>3, PathTextGrows
<1>4. \A m \in N : IsRed(tr, sol, m) <=> IsPrefix(P(m), P(n0))
  BY DEF IsRed, OnSolution
<1> HIDE DEF P
<1>5. IsRed(tr, sol, n0)
  <2>1. IsPrefix(P(n0), P(n0))
    BY <1>2, PrefixFacts
  <2> QED BY <1>4, <2>1
<1>6. IsRed(tr, sol, <<>>)
  <2>1. IsPrefix(<<>>, n0)
    BY <1>1, RootFirst
  <2> QED BY <1>1, <1>3, <1>4, <2>1
<1>7. ASSUME NEW q \in N \ {<<>>}, IsRed(tr, sol, q) PROVE IsRed(tr, sol, Front(q))
  <2>1. Front(q) \in N /\ IsPrefix(Front(q), q)
    BY <1>1, ParentIs DEF IsShape
  <2>2. IsPrefix(P(Front(q)), P(q)) /\ IsPrefix(P(q), P(n0))
    BY <1>3, <1>4, <1>7, <2>1
  <2>3. P(Front(q)) \in Seq(S) /\ P(q) \in Seq(S) /\ P(n0) \in Seq(S)
    BY <1>2, <2>1
  <2>4. IsPrefix(P(Front(q)), P(n0))
    BY <2>2, <2>3, PrefixFacts
  <2> QED BY <1>4, <2>1, <2>4
<1>8. ASSUME NEW q \in N, IsRed(tr, sol, q), IsPrefix(n0, q) PROVE P(q) = sol
  <2>1. IsPrefix(P(n0), P(q)) /\ IsPrefix(P(q), P(n0))
    BY <1>3, <1>4, <1>8
  <2>2. P(q) \in Seq(S) /\ P(n0) \in Seq(S)
    BY <1>2
  <2>3. P(q) = P(n0)
    BY <2>1, <2>2, PrefixFacts
  <2> QED BY <2>3 DEF P
<1> QED BY <1>5, <1>6, <1>7, <1>8 DEF P

(* A text is read as it was written if it is legible.                      *)
LEMMA LabelsTell ==
  ASSUME NEW S, NEW tr, IsTree(tr, S), NEW n \in Nodes(tr)
  PROVE  /\ tr.text[n] \in Seq(S)
         /\ Legible(tr.text[n]) => Unescaped(Escaped(tr.text[n])) = tr.text[n]
<1>1. tr.text[n] \in Seq(S)
  BY DEF IsTree
<1> QED BY <1>1, LabelTells

(* A line looks red if its node is red or its text looks so.               *)
LEMMA LooksAreTrue ==
  ASSUME NEW S, NEW tr, IsTree(tr, S), Sign \subseteq S, NEW sol, NEW n \in Nodes(tr),
         OnSolution(tr, n, sol) \/ Red \notin ToSet(tr.text[n])
  PROVE  LooksRed(LineFor(tr, n, sol)) <=> OnSolution(tr, n, sol)
<1> DEFINE t == tr.text[n]
           e == Escaped(t)
           l == LineFor(tr, n, sol)
<1>1. t \in Seq(S)
  BY DEF IsTree
<1>2. l.label = e /\ l.red = OnSolution(tr, n, sol)
  BY DEF LineFor
<1> HIDE DEF l
<1>3. NL \in S
  BY DEF Sign
<1>4. e \in Seq(S) /\ DOMAIN t = 1..Len(t)
  BY <1>1, <1>3, EscapedMore
<1> HIDE DEF t, e
<1>5. DOMAIN e = 1..Len(e)
  BY <1>4
<1>6. ASSUME Red \in ToSet(e) PROVE Red \in ToSet(t)
  <2>1. PICK i \in 1..Len(e) : e[i] = Red
    BY <1>5, <1>6 DEF ToSet
  <2>2. PICK k \in 1..Len(t) : t[k] = Red
    BY <1>1, <2>1, LabelHas DEF e
  <2> QED BY <1>4, <2>2 DEF ToSet
<1>7. LooksRed(l) <=> OnSolution(tr, n, sol) \/ Red \in ToSet(e)
  BY <1>2, Zenon DEF LooksRed
<1> QED BY <1>6, <1>7, Zenon DEF l, t

(* One red node after another adds what the way to it needs.               *)
LEMMA SolutionIsExtracted ==
  ASSUME NEW S, NEW tr, IsTree(tr, S), Sign \subseteq S,
         NEW n0 \in Nodes(tr), NEW sol, sol = PathText(tr, n0),
         \A n \in Nodes(tr) : IF IsRed(tr, sol, n) THEN Legible(tr.text[n])
                                                   ELSE Red \notin ToSet(tr.text[n]),
         \A m, n \in Nodes(tr) : IsRed(tr, sol, m) /\ IsRed(tr, sol, n) =>
                                   IsPrefix(m, n) \/ IsPrefix(n, m)
  PROVE  Extracted(Printed(tr, sol)) = sol
<1> DEFINE N == Nodes(tr)
           order == InOrder(N)
           P(n) == PathText(tr, n)
           R(n) == IsRed(tr, sol, n)
           Text(n) == IF R(n) THEN tr.text[n] ELSE <<>>
<1>1. PICK c \in Nat : c = Cardinality(N)
  BY NodesPrinted
<1>2. /\ order \in [1..c -> N] /\ IsShape(N) /\ \A n \in N : n \in Name
      /\ \A i, j \in 1..c : i < j => Earlier(order[i], order[j])
      /\ \A x \in N : \E i \in 1..c : order[i] = x
  BY <1>1, InOrderIs DEF IsTree, IsShape
<1>3. \A n \in N : Text(n) \in Seq(S)
  BY LabelsTell, EmptySeq
<1> DEFINE nodes == Printed(tr, sol).nodes
           G == [i \in 1..c |-> Text(order[i])]
<1>4. Extracted(Printed(tr, sol)) = FlattenSeq(G)
  <2>1. DOMAIN nodes = 1..c /\ \A i \in 1..c : nodes[i] = LineFor(tr, order[i], sol)
    BY <1>1, NodesPrinted
  <2>2. \A i \in 1..c : order[i] \in N
    BY <1>2
  <2> HIDE DEF nodes, order
  <2>3. ASSUME NEW i \in 1..c
        PROVE  (IF LooksRed(nodes[i]) THEN Unescaped(nodes[i].label) ELSE <<>>) = Text(order[i])
    <3>1. nodes[i].label = Escaped(tr.text[order[i]])
      BY <2>1 DEF LineFor
    <3>2. LooksRed(nodes[i]) <=> R(order[i])
      <4>1. OnSolution(tr, order[i], sol) \/ Red \notin ToSet(tr.text[order[i]])
        BY <2>2 DEF IsRed
      <4>2. LooksRed(LineFor(tr, order[i], sol)) <=> OnSolution(tr, order[i], sol)
        BY <2>2, <4>1, LooksAreTrue
      <4> QED BY <2>1, <2>2, <4>2 DEF IsRed
    <3>3. R(order[i]) => Unescaped(Escaped(tr.text[order[i]])) = tr.text[order[i]]
      BY <2>2, LabelsTell
    <3> QED BY <3>1, <3>2, <3>3
  <2>4. Extracted(Printed(tr, sol)) =
          FlattenSeq([i \in DOMAIN nodes |->
            IF LooksRed(nodes[i]) THEN Unescaped(nodes[i].label) ELSE <<>>])
    BY DEF Extracted, nodes
  <2> HIDE DEF Text
  <2> QED BY <2>1, <2>3, <2>4
<1>5. G \in Seq(Seq(S)) /\ Len(G) = c /\ \A i \in 1..c : G[i] = Text(order[i])
  <2> HIDE DEF Text, order
  <2>1. \A i \in 1..c : Text(order[i]) \in Seq(S)
    BY <1>2, <1>3
  <2> QED BY <2>1
<1> HIDE DEF G, order
<1>6. PICK g \in [0..c -> Seq(S)] :
        /\ g[0] = <<>> /\ \A i \in 1..c : g[i] = g[i - 1] \o G[i]
        /\ FlattenSeq(G) = g[c]
  <2>1. \E g \in [0..Len(G) -> Seq(S)] :
          /\ g[0] = <<>> /\ \A i \in 1..Len(G) : g[i] = g[i - 1] \o G[i]
          /\ FlattenSeq(G) = g[Len(G)]
    BY <1>5, FlattenIs
  <2> QED BY <1>5, <2>1
<1>7. /\ R(n0) /\ R(<<>>) /\ <<>> \in N
      /\ \A q \in N \ {<<>>} : R(q) => R(Front(q)) /\ Front(q) \in N
      /\ \A q \in N : R(q) /\ IsPrefix(n0, q) => P(q) = sol
  BY <1>2, RedNodes DEF IsShape
<1>8. /\ \A n \in N : P(n) \in Seq(S) /\ (n = <<>> => P(n) = tr.text[<<>>])
      /\ \A n \in N \ {<<>>} : P(n) = P(Front(n)) \o tr.text[n]
  BY PathTextIs
<1>9. \A m, n \in N : R(m) /\ R(n) => IsPrefix(m, n) \/ IsPrefix(n, m)
  OBVIOUS
<1>13. \A n \in N : tr.text[n] \in Seq(S)
  BY LabelsTell
<1> DEFINE Nothing(j) == g[j] = <<>> /\ \A i \in 1..j : ~R(order[i])
           UpTo(j, i) == /\ R(order[i]) /\ g[j] = P(order[i])
                         /\ \A k \in 1..j : R(order[k]) => IsPrefix(order[k], order[i])
           T == {j \in Nat : j <= c => Nothing(j) \/ \E i \in 1..j : UpTo(j, i)}
<1> HIDE DEF R, P, N
<1>10. 0 \in T
  <2>1. Nothing(0)
    BY <1>6
  <2> QED BY <2>1
<1>11. ASSUME NEW j \in Nat, j \in T PROVE j + 1 \in T
  <2> SUFFICES ASSUME j + 1 <= c
               PROVE  Nothing(j + 1) \/ \E i \in 1..(j + 1) : UpTo(j + 1, i)
    OBVIOUS
  <2> DEFINE r == order[j + 1]
  <2>1. /\ j + 1 \in 1..c /\ (j + 1) - 1 = j /\ j \in 0..c
        /\ \A i \in 1..j : i \in 1..c /\ i < j + 1 /\ i \in 1..(j + 1)
        /\ \A i \in 1..(j + 1) : i \in 1..j \/ i = j + 1
    OBVIOUS
  <2>2. r \in N /\ r \in Name
    BY <1>2, <2>1
  <2>3. g[j + 1] = g[j] \o Text(r) /\ g[j] \in Seq(S)
    BY <1>5, <1>6, <2>1
  <2>4. \A i \in 1..j : order[i] \in N /\ order[i] \in Name /\ Earlier(order[i], r)
    BY <1>2, <2>1
  <2>5. Nothing(j) \/ \E i \in 1..j : UpTo(j, i)
    BY <1>11
  <2> HIDE DEF r
  <2>6. \A i \in 1..j : order[i] # r /\ ~IsPrefix(r, order[i]) /\ ~Earlier(r, order[i])
    BY <2>2, <2>4, EarlierOneWay
  <2>7. CASE ~R(r)
    <3>1. g[j + 1] = g[j]
      BY <2>3, <2>7, ConcatEmptySeq
    <3>2. Nothing(j) => Nothing(j + 1)
      BY <2>1, <2>7, <3>1 DEF r
    <3>3. \A i \in 1..j : UpTo(j, i) => UpTo(j + 1, i)
      BY <2>1, <2>7, <3>1 DEF r
    <3> QED BY <2>1, <2>5, <3>2, <3>3
  <2>8. CASE R(r) /\ r = <<>>
    <3>1. \A i \in 1..j : IsPrefix(<<>>, order[i])
      BY <2>4, RootFirst
    <3>2. \A i \in 1..j : FALSE
      BY <2>6, <2>8, <3>1
    <3>3. g[j] = <<>>
      BY <2>5, <3>2
    <3>4. g[j + 1] = P(r)
      <4>1. Text(r) = tr.text[<<>>] /\ P(r) = tr.text[<<>>] /\ tr.text[<<>>] \in Seq(S)
        BY <1>7, <1>8, <1>13, <2>2, <2>8
      <4> HIDE DEF Text
      <4> QED BY <2>3, <3>3, <4>1, ConcatEmptySeq
    <3>5. IsPrefix(r, r)
      BY <2>2, PrefixFacts DEF Name
    <3>6. UpTo(j + 1, j + 1)
      BY <2>1, <2>8, <3>2, <3>4, <3>5 DEF r
    <3>7. j + 1 \in 1..(j + 1)
      OBVIOUS
    <3> QED BY <3>6, <3>7
  <2>9. CASE R(r) /\ r # <<>>
    <3> DEFINE f == Front(r)
    <3>1. f \in N /\ R(f) /\ f \in Name
      BY <1>2, <1>7, <2>2, <2>9
    <3>2. f # r /\ IsPrefix(f, r) /\ \A m \in Name : IsPrefix(m, r) /\ m # r => IsPrefix(m, f)
      BY <2>2, <2>9, ParentIs
    <3> HIDE DEF f
    <3>3. PICK k \in 1..c : order[k] = f
      BY <1>2, <3>1
    <3>4. k \in 1..j
      <4>1. k # j + 1
        BY <3>2, <3>3 DEF r
      <4>2. ~(j + 1 < k)
        <5>1. j + 1 < k => Earlier(r, f)
          BY <1>2, <2>1, <3>3 DEF r
        <5>2. ~Earlier(r, f)
          BY <2>2, <3>1, <3>2, EarlierOneWay
        <5> QED BY <5>1, <5>2
      <4> QED BY <4>1, <4>2
    <3>5. PICK i \in 1..j : UpTo(j, i)
      BY <2>5, <3>1, <3>3, <3>4
    <3> DEFINE q == order[i]
    <3>6. R(q) /\ g[j] = P(q) /\ IsPrefix(f, q) /\ q \in N /\ q \in Name
      BY <2>4, <3>1, <3>3, <3>4, <3>5
    <3>7. q # r /\ ~IsPrefix(r, q)
      BY <2>6
    <3>8. \A p \in 1..j : R(order[p]) => IsPrefix(order[p], q)
      BY <3>5
    <3> HIDE DEF q, UpTo
    <3>9. IsPrefix(q, r)
      BY <1>9, <2>2, <2>9, <3>6, <3>7
    <3>10. q = f
      <4>1. IsPrefix(q, f)
        BY <3>2, <3>6, <3>7, <3>9
      <4> QED BY <3>1, <3>6, <4>1, PrefixFacts DEF Name
    <3>11. g[j + 1] = P(r)
      <4>1. P(r) = P(f) \o tr.text[r]
        BY <1>8, <2>2, <2>9 DEF f
      <4>2. Text(r) = tr.text[r]
        BY <2>9
      <4> QED BY <2>3, <3>6, <3>10, <4>1, <4>2
    <3>12. ASSUME NEW p \in 1..(j + 1), R(order[p]) PROVE IsPrefix(order[p], r)
      <4>1. CASE p \in 1..j
        <5>1. IsPrefix(order[p], q) /\ order[p] \in Name
          BY <2>4, <3>8, <3>12, <4>1
        <5> QED BY <2>2, <3>6, <3>9, <5>1, PrefixFacts DEF Name
      <4>2. CASE p = j + 1
        BY <2>2, <4>2, PrefixFacts DEF r, Name
      <4> QED BY <2>1, <4>1, <4>2
    <3>13. UpTo(j + 1, j + 1)
      BY <2>9, <3>11, <3>12 DEF r, UpTo
    <3>14. j + 1 \in 1..(j + 1)
      OBVIOUS
    <3> QED BY <3>13, <3>14
  <2> QED BY <2>7, <2>8, <2>9
<1>12. c \in T
  <2>1. \A j \in Nat : j \in T
    <3> HIDE DEF T
    <3> QED BY <1>10, <1>11, SetInduction
  <2> QED BY <2>1
<1>14. PICK p \in 1..c : order[p] = n0
  BY <1>2 DEF N
<1>15. PICK i \in 1..c : UpTo(c, i)
  BY <1>7, <1>12, <1>14
<1>16. order[i] \in N /\ R(order[i]) /\ g[c] = P(order[i]) /\ IsPrefix(n0, order[i])
  BY <1>2, <1>7, <1>14, <1>15
<1>17. P(order[i]) = sol
  BY <1>7, <1>16
<1> QED BY <1>4, <1>6, <1>16, <1>17

-----------------------------------------------------------------------------
(* The lines of the texts on the way to a node.                            *)

LEMMA WordsAreRead ==
  ASSUME NEW S, NL \in S, NEW tr, IsTree(tr, S), NEW sol, NEW n \in Nodes(tr),
         \A m \in Nodes(tr) : IsPrefix(m, n) => Legible(tr.text[m])
  PROVE  Words(Rebuilt(Printed(tr, sol)).text[n]) =
           UNION {Words(tr.text[m]) : m \in {q \in Nodes(tr) : IsPrefix(q, n)}}
<1> DEFINE N == Nodes(tr)
           ln == LinesRead(Printed(tr, sol))
           own(m) == Unescaped(ln[m].label)
           w == WayTo(n)
           way(i) == SubSeq(n, 1, i)
           A == Seq(S)
<1>1. IsShape(N) /\ n \in Name /\ <<>> \in N /\ \A m \in N : m \in Name
  BY DEF IsTree, IsShape
<1>2. PICK k \in Nat : k = Len(n)
  BY <1>1 DEF Name
<1>3. \A i \in 0..k : way(i) \in N /\ IsPrefix(way(i), n)
  BY <1>1, <1>2, BeginningsAreNodes, BeginningIs
<1>4. Len(w) = k /\ \A i \in 1..k : w[i] = way(i)
  BY <1>2 DEF WayTo
<1>5. DOMAIN ln = N /\ \A m \in N : /\ IsPrefix(m, n) => own(m) = tr.text[m]
                                      /\ tr.text[m] \in A
  <2>1. ln = [m \in N |-> LineFor(tr, m, sol)]
    BY LinesReadAre
  <2>2. \A m \in N : ln[m].label = Escaped(tr.text[m])
    BY <2>1 DEF LineFor
  <2> QED BY <2>1, <2>2, LabelsTell
<1> DEFINE Eq(f) == f = [i \in 0..Len(w) |-> IF i = 0 THEN own(<<>>)
                                             ELSE Merged(f[i - 1], own(w[i]))]
           v == CHOOSE f : Eq(f)
<1>6. Rebuilt(Printed(tr, sol)).text[n] = v[Len(w)]
  BY <1>5 DEF Rebuilt, Folded
<1> DEFINE F == [i \in 1..k |-> [x \in A |-> Merged(x, tr.text[way(i)])]]
<1>7. F \in [1..k -> [A -> A]]
  <2>1. \A i \in 1..k : tr.text[way(i)] \in A
    BY <1>3, <1>5
  <2>2. \A x, y \in A : Merged(x, y) \in A
    BY MergedIs
  <2> HIDE DEF A, way
  <2> QED BY <2>1, <2>2
<1>8. \A i \in 1..k : \A x \in A : F[i][x] = Merged(x, tr.text[way(i)])
  OBVIOUS
<1>9. tr.text[<<>>] \in A
  <2>1. \A m \in N : tr.text[m] \in A
    BY LabelsTell
  <2> HIDE DEF N, A
  <2> QED BY <1>1, <2>1
<1> HIDE DEF A, F, own, w, way, ln
<1>10. PICK g : Steps(g, A, tr.text[<<>>], k, F)
  BY <1>7, <1>9, Stepwise
<1>11. /\ g \in [0..k -> A] /\ g[0] = tr.text[<<>>]
       /\ \A i \in 1..k : i - 1 \in 0..k /\ g[i] = Merged(g[i - 1], tr.text[way(i)])
  <2>1. g \in [0..k -> A] /\ g[0] = tr.text[<<>>] /\ \A i \in 1..k : g[i] = F[i][g[i - 1]]
    BY <1>10 DEF Steps
  <2>2. \A i \in 1..k : i - 1 \in 0..k
    OBVIOUS
  <2> QED BY <1>8, <2>1, <2>2
<1>12. own(<<>>) = tr.text[<<>>] /\ \A i \in 1..k : own(w[i]) = tr.text[way(i)]
  <2>1. \A i \in 1..k : i \in 0..k
    OBVIOUS
  <2>2. IsPrefix(<<>>, n)
    BY <1>1, RootFirst
  <2> QED BY <1>1, <1>3, <1>4, <1>5, <2>1, <2>2
<1>13. Eq(g)
  BY <1>4, <1>11, <1>12
<1>14. Eq(v)
  <2> HIDE DEF Eq
  <2> QED BY <1>13
<1> HIDE DEF v
<1>15. v[k] = g[k]
  <2>1. Alike(v, g, k)
    BY <1>4, <1>13, <1>14 DEF Alike
  <2>2. \A p, q : Alike(p, q, k) => \A i \in 0..k : p[i] = q[i]
    BY SameSteps
  <2> QED BY <2>1, <2>2
<1> DEFINE W(i) == UNION {Words(tr.text[way(j)]) : j \in 0..i}
           T == {i \in Nat : i <= k => Words(g[i]) = W(i)}
<1>16. 0 \in T
  <2>1. way(0) = <<>>
    <3>1. Len(way(0)) = 0 /\ way(0) \in Name
      BY <1>1, <1>2, BeginningIs DEF way
    <3> QED BY <3>1, EmptySeq DEF Name
  <2>2. 0..0 = {0}
    OBVIOUS
  <2>3. W(0) = Words(tr.text[way(0)])
    BY <2>2
  <2> QED BY <1>11, <2>1, <2>3
<1>17. ASSUME NEW i \in Nat, i \in T PROVE i + 1 \in T
  <2> SUFFICES ASSUME i + 1 <= k PROVE Words(g[i + 1]) = W(i + 1)
    OBVIOUS
  <2>1. i + 1 \in 1..k /\ i + 1 \in 0..k /\ (i + 1) - 1 = i /\ i \in 0..k
    OBVIOUS
  <2>2. g[i] \in A /\ tr.text[way(i + 1)] \in A
    BY <1>3, <1>5, <1>11, <2>1
  <2>3. g[i + 1] = Merged(g[i], tr.text[way(i + 1)])
    BY <1>11, <2>1
  <2>4. Words(g[i + 1]) = Words(g[i]) \union Words(tr.text[way(i + 1)])
    BY <2>2, <2>3, MergedIs DEF A
  <2>5. Words(g[i]) = W(i)
    BY <1>17, <2>1
  <2>6. 0..(i + 1) = (0..i) \union {i + 1}
    OBVIOUS
  <2>7. W(i + 1) = W(i) \union Words(tr.text[way(i + 1)])
    BY <2>6
  <2> QED BY <2>4, <2>5, <2>7
<1>18. Words(g[k]) = W(k)
  <2>1. \A i \in Nat : i \in T
    <3> HIDE DEF T
    <3> QED BY <1>16, <1>17, SetInduction
  <2> QED BY <2>1
<1>19. {q \in N : IsPrefix(q, n)} = {way(j) : j \in 0..k}
  <2>1. ASSUME NEW q \in N, IsPrefix(q, n) PROVE \E j \in 0..k : q = way(j)
    BY <1>1, <1>2, <2>1, PrefixesAreBeginnings DEF way
  <2>2. ASSUME NEW j \in 0..k PROVE way(j) \in N /\ IsPrefix(way(j), n)
    BY <1>1, <1>2, <1>3, BeginningIs DEF way
  <2> QED BY <2>1, <2>2
<1>20. UNION {Words(tr.text[m]) : m \in {q \in N : IsPrefix(q, n)}} = W(k)
  BY <1>19
<1> QED BY <1>4, <1>6, <1>15, <1>18, <1>20 DEF N

(* What every file tells of its tree.                                      *)
LEMMA FilesTell ==
  ASSUME NEW S, Sign \subseteq S, NEW tr, IsTree(tr, S), NEW n0 \in Nodes(tr)
  PROVE  Tells(tr, PathText(tr, n0))
<1> DEFINE sol == PathText(tr, n0)
           f == Printed(tr, sol)
           new == Rebuilt(f)
           red == {n \in Nodes(tr) : OnSolution(tr, n, sol)}
           up(n) == {m \in Nodes(tr) : IsPrefix(m, n)}
<1>1. PICK s : s = sol
  OBVIOUS
<1>2. ASSUME \A m, n \in red : IsPrefix(m, n) \/ IsPrefix(n, m),
             \A n \in red : Legible(tr.text[n]),
             \A n \in Nodes(tr) \ red : Red \notin ToSet(tr.text[n])
      PROVE  Extracted(f) = sol
  <2>1. \A m, n \in Nodes(tr) : IsRed(tr, s, m) /\ IsRed(tr, s, n) =>
                                   IsPrefix(m, n) \/ IsPrefix(n, m)
    BY <1>1, <1>2 DEF IsRed
  <2>2. \A n \in Nodes(tr) : IF IsRed(tr, s, n) THEN Legible(tr.text[n])
                                                ELSE Red \notin ToSet(tr.text[n])
    BY <1>1, <1>2 DEF IsRed
  <2>3. Extracted(Printed(tr, s)) = s
    BY <1>1, <2>1, <2>2, SolutionIsExtracted
  <2> QED BY <1>1, <2>3
<1>3. LinesRead(f) = [n \in Nodes(tr) |-> LineFor(tr, n, sol)]
  BY LinesReadAre
<1>4. DOMAIN new.children = Nodes(tr)
  BY <1>3 DEF Rebuilt
<1>5. ASSUME NEW n \in Nodes(tr)
      PROVE  /\ new.children[n] = Reverse(InOrder(Below(tr, n)))
             /\ new.visits[n] = tr.visits[n] \/ Mark \in ToSet(tr.text[n])
             /\ (\A m \in up(n) : Legible(tr.text[m])) =>
                  Words(new.text[n]) = UNION {Words(tr.text[m]) : m \in up(n)}
  <2>1. new.children[n] = ChildrenRead(f, n) /\ new.visits[n] = VisitsRead(LineFor(tr, n, sol))
    BY <1>3 DEF Rebuilt
  <2>2. ChildrenRead(f, n) = Reverse(InOrder(Below(tr, n)))
    BY ChildrenAreRead
  <2>3. VisitsRead(LineFor(tr, n, sol)) = tr.visits[n] \/ Mark \in ToSet(tr.text[n])
    BY VisitsAreRead
  <2>4. (\A m \in up(n) : Legible(tr.text[m])) =>
          Words(new.text[n]) = UNION {Words(tr.text[m]) : m \in up(n)}
    BY WordsAreRead DEF Sign
  <2> QED BY <2>1, <2>2, <2>3, <2>4
<1> QED BY <1>2, <1>4, <1>5 DEF Tells

-----------------------------------------------------------------------------
(* The files of a run.                                                     *)

(* What the texts of the trees are made of, and the labels of their nodes. *)
Symbol == Sign \union UNION {ToSet(t) : t \in Texts}

(* The file completed last has a tree and the proof of one of its nodes.   *)
FileIsOfTree ==
  file # NoFile =>
    /\ IsTree(file.tree, Symbol)
    /\ \E n \in Nodes(file.tree) : file.solution = PathText(file.tree, n)

(* Every shape of a tree and every choice of texts makes a tree.           *)
LEMMA ShapesMakeTrees ==
  ASSUME NEW shape \in Shapes, NEW text \in [shape -> Texts], NEW v
  PROVE  IsTree([text |-> text, visits |-> v], Symbol)
<1> DEFINE tr == [text |-> text, visits |-> v]
<1>1. Nodes(tr) = shape /\ tr.text = text
  BY DEF Nodes
<1>2. IsShape(shape)
  BY TreesAssumption DEF IsShape, Name
<1>3. ASSUME NEW n \in shape PROVE text[n] \in Seq(Symbol)
  <2>1. text[n] \in Texts
    OBVIOUS
  <2>2. text[n] \in Seq(ToSet(text[n]))
    BY <2>1, TreesAssumption
  <2>3. ToSet(text[n]) \subseteq Symbol
    BY <2>1 DEF Symbol
  <2> QED BY <2>2, <2>3, SeqMonotonic
<1>4. text \in [shape -> Seq(Symbol)]
  BY <1>3
<1> HIDE DEF tr
<1>5. IsTree(tr, Symbol)
  BY <1>1, <1>2, <1>4 DEF IsTree
<1> QED BY <1>5 DEF tr

LEMMA FileStep == FileIsOfTree /\ [Next]_vars => FileIsOfTree'
<1> SUFFICES ASSUME FileIsOfTree, [Next]_vars PROVE FileIsOfTree'
  OBVIOUS
<1>1. CASE UNCHANGED file
  BY <1>1 DEF FileIsOfTree
<1>2. CASE UNCHANGED vars \/ StartJob \/ StartFails \/ EndBatch \/ Abort \/ Crash
           \/ WriteAnswers \/ NextIteration
  BY <1>1, <1>2 DEF vars, fileVars, StartJob, StartFails, EndBatch, Abort, Crash,
                    WriteAnswers, NextIteration
<1>3. ASSUME NEW d \in Data, Work(d)
      PROVE  FileIsOfTree'
  <2>1. CASE \/ Skip(d) \/ Start(d) \/ Praise(d) \/ Judge(d) \/ PlayRound(d)
             \/ EndTournament(d) \/ Check(d) \/ ClientStep(d) \/ CheckReturns(d)
             \/ CheckFails(d) \/ EndSearch(d) \/ Deliver(d) \/ Respond(d)
             \/ Raise(d) \/ RaiseAll(d)
    BY <1>1, <2>1 DEF Skip, Start, Praise, Judge, PlayRound, EndTournament, Check,
                      ClientStep, CheckReturns, CheckFails, EndSearch, Deliver, Respond,
                      Raise, RaiseAll, Others, fileVars
  <2>2. CASE Save(d)
    <3>1. CASE ~opts.read
      BY <1>1, <2>2, <3>1 DEF Save
    <3>2. CASE opts.read
      <4>1. PICK shape \in Shapes :
              \E text \in [shape -> Texts] :
              LET t == [text |-> text, visits |-> [n \in shape |-> Len(n) + 1]] IN
              \E n \in shape : file' = [tree |-> t, solution |-> PathText(t, n)]
        BY <2>2, <3>2 DEF Save
      <4>2. PICK text \in [shape -> Texts] :
              LET t == [text |-> text, visits |-> [n \in shape |-> Len(n) + 1]] IN
              \E n \in shape : file' = [tree |-> t, solution |-> PathText(t, n)]
        BY <4>1
      <4> DEFINE t == [text |-> text, visits |-> [n \in shape |-> Len(n) + 1]]
      <4>3. PICK n \in shape : file' = [tree |-> t, solution |-> PathText(t, n)]
        BY <4>2
      <4>4. IsTree(t, Symbol) /\ n \in Nodes(t)
        BY ShapesMakeTrees DEF Nodes
      <4> HIDE DEF t
      <4>5. file'.tree = t /\ file'.solution = PathText(t, n)
        BY <4>3
      <4> QED BY <4>4, <4>5 DEF FileIsOfTree
    <3> QED BY <3>1, <3>2
  <2> QED BY <1>3, <2>1, <2>2 DEF Work
<1> QED BY <1>2, <1>3 DEF Next, Progress

(* Every file of a tree that a run completes tells what the tree was, with *)
(* trees of every size and shape (Node.print_node, `treethink graph        *)
(* extract' and load_graphviz_state).  The solution is read off the red    *)
(* nodes when they are one path, their texts are legible and no other      *)
(* node's text looks red.  A tree built from the file has the nodes, their *)
(* children in the opposite order, the visits where no text looks like     *)
(* them, and, where the texts on the way to a node are legible, all their  *)
(* lines and no others.                                                    *)
THEOREM SavedTreesTell == Spec => []SavedTreeTells
<1>1. Init => FileIsOfTree
  BY DEF Init, FileIsOfTree
<1>2. FileIsOfTree => SavedTreeTells
  <2> SUFFICES ASSUME FileIsOfTree, file # NoFile
               PROVE  Tells(file.tree, file.solution)
    BY DEF SavedTreeTells
  <2>1. IsTree(file.tree, Symbol)
    BY DEF FileIsOfTree
  <2>2. PICK n \in Nodes(file.tree) : file.solution = PathText(file.tree, n)
    BY DEF FileIsOfTree
  <2>3. Sign \subseteq Symbol
    BY DEF Symbol
  <2> QED BY <2>1, <2>2, <2>3, FilesTell
<1> QED BY <1>1, <1>2, FileStep, PTL DEF Spec
=============================================================================
