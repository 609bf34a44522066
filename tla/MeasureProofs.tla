---------------------------- MODULE MeasureProofs ----------------------------
(***************************************************************************)
(* The two ways to measure.  On this machine (LocalMeasure): for every     *)
(* number of inputs and of pool threads, whatever processes die and        *)
(* whatever timers run out, the results are those of the inputs, in their  *)
(* order.  On devices of a tracker (RpcTracker): for every number of       *)
(* servers and of clients, whoever dies or restarts, a free device is on   *)
(* offer under one key, and a key goes to one client, the most urgent.     *)
(***************************************************************************)
EXTENDS LocalMeasure, RpcTracker, DispatchProofs

(* The exchange between the owner of a worker and the process behind it:   *)
(* where the one request is (on its way, being worked on, answered), that  *)
(* its status changes with the answer, and that a timer that runs out late *)
(* finds the status changed.                                               *)
WorkerInv(w) ==
  LET r == task[w]
      c == child[w]
  IN  /\ c.phase = "read" => c.request = None /\ c.armed = {}
      /\ c.phase # "read" =>
           /\ proc[w] = "up" /\ r # None /\ c.request = r /\ c.armed \subseteq {r}
           /\ writer[w] = << >>
           /\ \/ reader[w] = << >> /\ status[r] = "RUNNING"
              \/ reader[w] = <<Answer(r, "TIMEOUT")>> /\ status[r] = "TIMEOUT"
      /\ c.phase = "answer" => c.armed = {} /\ c.ret \in Endings
      /\ writer[w] # << >> =>
           /\ proc[w] = "up" /\ r # None /\ writer[w] = <<r>>
           /\ reader[w] = << >> /\ status[r] = "RUNNING"
      /\ reader[w] # << >> =>
           /\ r # None
           /\ \/ \E is \in Endings \cup {"TIMEOUT"} : reader[w] = <<Answer(r, is)>>
              \/ reader[w] = <<Cut>> /\ proc[w] = "down"
      /\ \A q \in c.fired : q = c.request \/ status[q] # "RUNNING"

Workings == \A w \in Workers : WorkerInv(w)

(* Each worker has a request of its own, one not answered before.          *)
Owners ==
  /\ \A w \in Threads : task[w] # None =>
       \E j \in 1 .. submitted : task[w] = Build(j) /\ outcome[j] = Pending
  /\ \A w, v \in Threads : task[w] = task[v] /\ task[w] # None => w = v
  /\ task[Runner] # None => pc = "run" /\ Turn \in Inputs /\ MayRun(Turn) /\ task[Runner] = Run(Turn)
  /\ pc \in {"run", "returned"} => \A w \in Threads : task[w] = None

(* What was not asked for yet has not been answered.                       *)
Fresh ==
  \A j \in Inputs :
    /\ j > submitted => outcome[j] = Pending /\ status[Build(j)] = "RUNNING"
    /\ j >= Turn /\ task[Runner] # Run(j) => status[Run(j)] = "RUNNING"

(* What the results kept so far are about.                                 *)
Results ==
  /\ \A j \in Inputs : outcome[j].is \notin {"DEAD", "CUT", "none"} => outcome[j].of = Build(j)
  /\ Len(build_results) <= NInputs
  /\ \A j \in 1 .. Len(build_results) :
       build_results[j] = outcome[j] /\ outcome[j].is \in {"NO_ERROR", "ERROR", "TIMEOUT"}
  /\ pc \in {"run", "returned"} => Len(build_results) = NInputs
  /\ pc = "build" => run_results = << >>
  /\ Len(run_results) <= NInputs
  /\ \A j \in 1 .. Len(run_results) :
       IF MayRun(j) THEN run_results[j].of \in {Run(j), None}
       ELSE run_results[j].of = Build(j)

(* A process found dead has cost its result; one not found dead may yet,   *)
(* and so may an answer cut short that is still in the pipe.               *)
Crashed == {w \in Workers : proc[w] = "down"}
CutShort == {w \in Workers : reader[w] = <<Cut>>}
Crashes ==
  Cardinality(LostBuilds) + Cardinality(LostRuns) + Cardinality(Crashed) + Cardinality(CutShort)
    <= deaths + cuts

MeasureInv == TypeOK /\ Workings /\ Owners /\ Fresh /\ Results /\ Crashes

-----------------------------------------------------------------------------
(* The inputs and the types.                                               *)

LEMMA TypesOfInputs ==
  /\ NInputs \in Nat /\ Inputs = 1 .. NInputs
  /\ \A j \in Inputs : Build(j) \in Requests /\ Run(j) \in Requests
  /\ \A r \in Requests : r # None /\ \E j \in Inputs : r = Build(j) \/ r = Run(j)
  /\ \A i, j \in Inputs : Build(i) # Run(j) /\ (Build(i) = Build(j) => i = j)
                          /\ (Run(i) = Run(j) => i = j)
  /\ Runner \notin Threads /\ Workers = Threads \cup {Runner} /\ IsFiniteSet(Workers)
<1>1. IsFiniteSet(Workers)
  BY MeasureAssumption, FS_AddElement
<1>2. \A r \in Requests : r # None /\ \E j \in Inputs : r = Build(j) \/ r = Run(j)
  BY MeasureAssumption DEF Build, Run, None, Inputs
<1> QED
  BY <1>1, <1>2, MeasureAssumption DEF Build, Run, Inputs

Returns == {"NO_ERROR", "ERROR", "EXCEPTION"}

LEMMA AnswersTyped ==
  /\ \A r \in Requests, is \in Returns \cup {"TIMEOUT"} : Answer(r, is) \in Answers
  /\ Dead \in Answers /\ Cut \in Answers /\ Pending \in Answers
  /\ \A a \in Answers : a.of \in Requests \cup {None} /\ Answer(a.of, RunError(a)) \in RunResults
  /\ \A r \in Requests : Answer(r, "BUILD_ERROR") \in RunResults
BY DEF Answer, Answers, Dead, Cut, Pending, Returns, RunResults, RunError

LEMMA Pipes ==
  ASSUME NEW S, NEW s \in Seq(S)
  PROVE  /\ \A e \in S : Append(s, e) \in Seq(S)
         /\ s # << >> => Head(s) \in S /\ Tail(s) \in Seq(S)
OBVIOUS

LEMMA NewChildTyped == NewChild \in Children
BY DEF NewChild, Children

LEMMA InitTypes == Init => TypeOK
<1> SUFFICES ASSUME Init PROVE TypeOK
  OBVIOUS
<1>1. WorkerTypes
  BY NewChildTyped DEF Init, InitWorker, WorkerTypes
<1>2. BatchTypes
  BY TypesOfInputs, AnswersTyped DEF Init, BatchTypes
<1> QED
  BY <1>1, <1>2 DEF TypeOK

LEMMA ReceivedTyped ==
  ASSUME WorkerTypes, NEW w \in Workers
  PROVE Received(w) \in Answers
BY AnswersTyped DEF WorkerTypes, Received

LEMMA KillTypes ==
  ASSUME WorkerTypes, NEW W \in SUBSET Workers, KillAll(W)
  PROVE  WorkerTypes'
BY NewChildTyped DEF KillAll, WorkerTypes

LEMMA SendTypes ==
  ASSUME WorkerTypes, NEW w \in Workers, NEW r \in Requests, Send(w, r)
  PROVE  WorkerTypes'
BY DEF Send, WorkerTypes

LEMMA RecvTypes ==
  ASSUME WorkerTypes, NEW w \in Workers, Recv(w)
  PROVE  WorkerTypes'
<1>1. CASE Fatal(Received(w))
  BY <1>1, KillTypes DEF Recv
<1>2. CASE ~Fatal(Received(w))
  <2>1. reader[w] # << >> => Tail(reader[w]) \in Seq(Answers)
    BY Pipes DEF WorkerTypes
  <2>2. reader' \in [Workers -> Seq(Answers)]
    BY <1>2, <2>1 DEF Recv, WorkerTypes
  <2> QED
    BY <1>2, <2>2 DEF Recv, WorkerTypes
<1> QED
  BY <1>1, <1>2

LEMMA ChildTypes ==
  ASSUME WorkerTypes, NEW w \in Workers, ChildStep(w) \/ FunctionEnds(w) \/ Die(w)
  PROVE  WorkerTypes'
<1> DEFINE c == child[w]
<1>0. c \in Children
  BY DEF WorkerTypes
<1>1. CASE Read(w)
  <2>0. Head(writer[w]) \in Requests /\ Tail(writer[w]) \in Seq(Requests)
    <3>1. writer[w] # << >> /\ writer[w] \in Seq(Requests)
      BY <1>1 DEF Read, WorkerTypes
    <3> QED
      BY <3>1, Pipes
  <2> DEFINE r == Head(writer[w])
  <2>1. child' = [child EXCEPT ![w].phase = "run", ![w].request = r, ![w].armed = @ \cup {r}]
    BY <1>1 DEF Read
  <2> HIDE DEF r
  <2>2. child' \in [Workers -> Children]
    <3>1. r \in Requests
      BY <2>0 DEF r
    <3> QED
      BY <1>0, <2>1, <3>1 DEF WorkerTypes, Children
  <2>4. writer' \in [Workers -> Seq(Requests)]
    BY <1>1, <2>0 DEF Read, WorkerTypes
  <2> QED
    BY <1>1, <2>2, <2>4 DEF Read, WorkerTypes
<1>2. CASE MainAnswers(w)
  <2>1. child' \in [Workers -> Children]
    BY <1>2, <1>0 DEF MainAnswers, WorkerTypes, Children
  <2>2. status' \in [Requests -> {"RUNNING", "COMPLETE", "TIMEOUT"}]
    BY <1>2 DEF MainAnswers, WorkerTypes
  <2>3. reader' \in [Workers -> Seq(Answers)]
    <3>1. Answer(c.request, c.ret) \in Answers
      BY <1>0 DEF Children, Answer, Answers
    <3>2. Append(reader[w], Answer(c.request, c.ret)) \in Seq(Answers)
      BY <3>1, Pipes DEF WorkerTypes
    <3> QED
      BY <1>2, <3>2 DEF MainAnswers, WorkerTypes
  <2> QED
    BY <1>2, <2>1, <2>2, <2>3 DEF MainAnswers, WorkerTypes
<1>3. ASSUME NEW r \in Requests, TimerFires(w, r) PROVE WorkerTypes'
  <2>1. child' \in [Workers -> Children]
    BY <1>3, <1>0 DEF TimerFires, WorkerTypes, Children
  <2> QED
    BY <1>3, <2>1 DEF TimerFires, WorkerTypes
<1>4. ASSUME NEW r \in Requests, TimerAnswers(w, r) PROVE WorkerTypes'
  <2>1. child' \in [Workers -> Children]
    BY <1>4, <1>0 DEF TimerAnswers, WorkerTypes, Children
  <2>2. status' \in [Requests -> {"RUNNING", "COMPLETE", "TIMEOUT"}]
    BY <1>4 DEF TimerAnswers, WorkerTypes
  <2>3. reader' \in [Workers -> Seq(Answers)]
    <3>1. Append(reader[w], Answer(r, "TIMEOUT")) \in Seq(Answers)
      BY AnswersTyped, Pipes DEF WorkerTypes
    <3> QED
      BY <1>4, <3>1 DEF TimerAnswers, WorkerTypes
  <2> QED
    BY <1>4, <2>1, <2>2, <2>3 DEF TimerAnswers, WorkerTypes
<1>5. ASSUME NEW is \in Returns, RunEnds(w, is) PROVE WorkerTypes'
  <2>1. child' \in [Workers -> Children]
    BY <1>5, <1>0 DEF RunEnds, WorkerTypes, Children, Returns
  <2> QED
    BY <1>5, <2>1 DEF RunEnds, WorkerTypes
<1>6. CASE Die(w)
  <2>1. Append(reader[w], Cut) \in Seq(Answers)
    BY AnswersTyped, Pipes DEF WorkerTypes
  <2>2. /\ (reader' = reader \/ reader' = [reader EXCEPT ![w] = Append(@, Cut)])
        /\ (cuts' = cuts \/ cuts' = cuts + 1)
        /\ proc' = [proc EXCEPT ![w] = "down"] /\ child' = [child EXCEPT ![w] = NewChild]
        /\ writer' = [writer EXCEPT ![w] = << >>]
        /\ deaths' = deaths + 1 /\ UNCHANGED status
    BY <1>6 DEF Die
  <2>3. reader' \in [Workers -> Seq(Answers)]
    BY <2>1, <2>2 DEF WorkerTypes
  <2>4. child' \in [Workers -> Children]
    BY <2>2, NewChildTyped DEF WorkerTypes
  <2> QED
    BY <2>2, <2>3, <2>4 DEF WorkerTypes
<1>7. FunctionEnds(w) => \E is \in Returns : RunEnds(w, is)
  BY DEF FunctionEnds, Endings, Returns
<1> QED
  BY <1>1, <1>2, <1>3, <1>4, <1>5, <1>6, <1>7 DEF ChildStep

LEMMA TypeStep == ASSUME TypeOK, [Next]_vars PROVE TypeOK'
<1> USE DEF TypeOK
<1>1. ASSUME NEW w \in Workers, StartBuild(w) PROVE TypeOK'
  <2>1. WorkerTypes'
    BY <1>1, TypesOfInputs, SendTypes DEF StartBuild
  <2> QED
    BY <1>1, <2>1, TypesOfInputs DEF StartBuild, BatchTypes
<1>2. ASSUME NEW w \in Workers, FinishBuild(w) PROVE TypeOK'
  <2>1. WorkerTypes'
    BY <1>2, RecvTypes DEF FinishBuild
  <2> QED
    BY <1>2, <2>1, ReceivedTyped DEF FinishBuild, BatchTypes
<1>3. ASSUME NEW j \in Inputs, CollectBuild(j) PROVE TypeOK'
  <2>1. WorkerTypes'
    BY <1>3 DEF CollectBuild, worker, WorkerTypes
  <2> QED
    BY <1>3, <2>1 DEF CollectBuild, BatchTypes
<1>4. ASSUME FinishBuilds \/ Return PROVE TypeOK'
  <2>1. WorkerTypes'
    BY <1>4, TypesOfInputs, KillTypes DEF FinishBuilds, Return
  <2> QED
    BY <1>4, <2>1 DEF FinishBuilds, Return, BatchTypes
<1>5. ASSUME SkipRun PROVE TypeOK'
  <2>1. WorkerTypes'
    BY <1>5 DEF SkipRun, worker, WorkerTypes
  <2> QED
    BY <1>5, <2>1, TypesOfInputs, AnswersTyped DEF SkipRun, BatchTypes
<1>6. ASSUME StartRun PROVE TypeOK'
  <2>1. WorkerTypes'
    BY <1>6, TypesOfInputs, SendTypes DEF StartRun
  <2> QED
    BY <1>6, <2>1, TypesOfInputs DEF StartRun, BatchTypes
<1>7. ASSUME FinishRun PROVE TypeOK'
  <2>1. WorkerTypes'
    BY <1>7, TypesOfInputs, RecvTypes DEF FinishRun
  <2>2. Received(Runner) \in Answers
    BY TypesOfInputs, ReceivedTyped
  <2>3. run_results' \in Seq(RunResults)
    BY <1>7, <2>2, AnswersTyped, Pipes DEF FinishRun, BatchTypes
  <2> QED
    BY <1>7, <2>1, <2>3, TypesOfInputs DEF FinishRun, BatchTypes
<1>8. ASSUME NEW w \in Workers, ChildStep(w) \/ FunctionEnds(w) \/ Die(w), UNCHANGED batch
      PROVE  TypeOK'
  BY <1>8, ChildTypes DEF batch, BatchTypes
<1>9. CASE PrepareFails
  BY <1>9 DEF PrepareFails, worker, WorkerTypes, BatchTypes
<1>10. CASE UNCHANGED vars
  BY <1>10 DEF vars, worker, batch, WorkerTypes, BatchTypes
<1> QED
  BY <1>1, <1>2, <1>3, <1>4, <1>5, <1>6, <1>7, <1>8, <1>9, <1>10 DEF Next

-----------------------------------------------------------------------------
(* What one worker's step does to its own invariant and to the others'.     *)

Progress == \A q \in Requests : status[q] # "RUNNING" => status'[q] # "RUNNING"

LEMMA Untouched ==
  ASSUME NEW w \in Workers, TypeOK, WorkerInv(w), Progress,
         proc'[w] = proc[w], child'[w] = child[w], writer'[w] = writer[w],
         reader'[w] = reader[w], task'[w] = task[w],
         task[w] # None => status'[task[w]] = status[task[w]]
  PROVE  WorkerInv(w)'
<1>1. child[w].fired \subseteq Requests
  BY DEF TypeOK, WorkerTypes, Children
<1> QED
  BY <1>1 DEF WorkerInv, Progress

LEMMA Restarted ==
  ASSUME NEW w \in Workers, child'[w] = NewChild, writer'[w] = << >>, reader'[w] = << >>
  PROVE  WorkerInv(w)'
BY DEF WorkerInv, NewChild

LEMMA IdleWorker ==
  ASSUME NEW w \in Workers, TypeOK, WorkerInv(w), task[w] = None
  PROVE  /\ child[w].phase = "read" /\ child[w].request = None /\ child[w].armed = {}
         /\ writer[w] = << >> /\ reader[w] = << >>
BY DEF WorkerInv

LEMMA SendKeeps ==
  ASSUME NEW w \in Workers, NEW r \in Requests, TypeOK, Workings,
         task[w] = None, status[r] = "RUNNING",
         Send(w, r), task' = [task EXCEPT ![w] = r]
  PROVE  Workings'
<1>1. WorkerInv(w)'
  <2>1. /\ child'[w].phase = "read" /\ child'[w].request = None /\ child'[w].armed = {}
        /\ child'[w].fired = child[w].fired
        /\ reader'[w] = << >> /\ task'[w] = r /\ r # None
        /\ status' = status
    BY IdleWorker, TypesOfInputs DEF Workings, Send, TypeOK, BatchTypes
  <2>2. writer'[w] = << >> \/ (proc'[w] = "up" /\ writer'[w] = <<r>>)
    <3>1. writer[w] = << >> /\ Append(<< >>, r) = <<r>>
      BY IdleWorker DEF Workings
    <3>2. proc[w] \in {"none", "up", "down"}
      BY DEF TypeOK, WorkerTypes
    <3> QED
      BY <3>1, <3>2 DEF Send, TypeOK, WorkerTypes
  <2>3. \A q \in child[w].fired : status[q] # "RUNNING" \/ q = None
    BY IdleWorker DEF Workings, WorkerInv
  <2> QED
    BY <2>1, <2>2, <2>3 DEF WorkerInv
<1>2. ASSUME NEW v \in Workers, v # w PROVE WorkerInv(v)'
  BY <1>2, Untouched DEF Send, Workings, TypeOK, WorkerTypes, BatchTypes, Progress
<1> QED
  BY <1>1, <1>2 DEF Workings

LEMMA KillKeeps ==
  ASSUME NEW W \in SUBSET Workers, TypeOK, Workings, KillAll(W),
         \A w \in Workers \ W : task'[w] = task[w]
  PROVE  Workings'
<1>1. ASSUME NEW w \in W PROVE WorkerInv(w)'
  BY Restarted DEF KillAll
<1>2. ASSUME NEW w \in Workers \ W PROVE WorkerInv(w)'
  BY Untouched DEF KillAll, Workings, Progress
<1> QED
  BY <1>1, <1>2 DEF Workings

(* What recv() returns is about the request waited for, or the news that    *)
(* the process is dead, or what a dead process left of an answer.           *)
LEMMA ReceivedIs ==
  ASSUME NEW w \in Workers, TypeOK, Workings, Recv(w), task[w] # None
  PROVE  \/ Received(w) = Dead /\ reader[w] = << >> /\ proc[w] = "down"
         \/ \E is \in Returns \cup {"TIMEOUT"} :
              Received(w) = Answer(task[w], is) /\ reader[w] = <<Answer(task[w], is)>>
         \/ Received(w) = Cut /\ reader[w] = <<Cut>> /\ proc[w] = "down"
<1>1. CASE reader[w] = << >>
  BY <1>1 DEF Received, Recv
<1>2. ASSUME NEW is \in Endings \cup {"TIMEOUT"}, reader[w] = <<Answer(task[w], is)>>
      PROVE  \E s \in Returns \cup {"TIMEOUT"} :
               Received(w) = Answer(task[w], s) /\ reader[w] = <<Answer(task[w], s)>>
  <2>1. Received(w) = Answer(task[w], is)
    BY <1>2 DEF Received
  <2>2. is \in Returns \cup {"TIMEOUT"}
    BY DEF Endings, Returns
  <2> QED
    BY <1>2, <2>1, <2>2
<1>3. CASE reader[w] = <<Cut>> /\ proc[w] = "down"
  BY <1>3 DEF Received
<1>4. CASE reader[w] # << >>
  BY <1>2, <1>3, <1>4 DEF Workings, WorkerInv
<1> QED
  BY <1>1, <1>4

LEMMA ReceivedOf ==
  ASSUME NEW w \in Workers, TypeOK, Workings, Recv(w), task[w] # None
  PROVE  Received(w) \in {Dead, Cut} \/ Received(w).of = task[w]
<1>1. \A is : Answer(task[w], is).of = task[w]
  BY DEF Answer
<1> QED
  BY <1>1, ReceivedIs

LEMMA RecvKeeps ==
  ASSUME NEW w \in Workers, TypeOK, Workings,
         task[w] # None, Recv(w), task' = [task EXCEPT ![w] = None]
  PROVE  Workings'
<1>0. \A v \in Workers \ {w} : task'[v] = task[v]
  BY DEF TypeOK, BatchTypes
<1>1. CASE Fatal(Received(w))
  BY <1>0, <1>1, KillKeeps DEF Recv
<1>2. CASE ~Fatal(Received(w))
  <2>1. \E a : reader[w] = <<a>> /\ a # Answer(task[w], "TIMEOUT")
    <3>1. Fatal(Dead) /\ \A r \in Requests : Fatal(Answer(r, "TIMEOUT"))
      BY DEF Fatal, Dead, Answer
    <3>2. task[w] \in Requests
      BY DEF TypeOK, BatchTypes
    <3>3. Cut # Answer(task[w], "TIMEOUT")
      BY DEF Cut, Answer
    <3> QED
      BY <1>2, <3>1, <3>2, <3>3, ReceivedIs
  <2>2. reader'[w] = << >>
    BY <1>2, <2>1 DEF Recv, TypeOK, WorkerTypes
  <2>3. /\ child' = child /\ writer' = writer /\ status' = status
        /\ task'[w] = None
    BY <1>2 DEF Recv, TypeOK, BatchTypes
  <2>4. child[w].phase = "read" /\ writer[w] = << >>
    BY <2>1 DEF Workings, WorkerInv
  <2>5. WorkerInv(w)'
    <3>1. /\ child[w].request = None /\ child[w].armed = {}
          /\ \A q \in child[w].fired : q = child[w].request \/ status[q] # "RUNNING"
      BY <2>4 DEF WorkerInv, Workings
    <3> QED
      BY <2>2, <2>3, <2>4, <3>1 DEF WorkerInv
  <2>6. ASSUME NEW v \in Workers, v # w PROVE WorkerInv(v)'
    BY <1>0, <1>2, <2>6, Untouched DEF Recv, Workings, TypeOK, WorkerTypes, Progress
  <2> QED
    BY <2>5, <2>6 DEF Workings
<1> QED
  BY <1>1, <1>2

(* No two workers have the same request at hand.                            *)
Apart == \A v, w \in Workers : v # w /\ task[w] # None => task[v] # task[w]

LEMMA OthersUntouched ==
  ASSUME NEW w \in Workers, TypeOK, Workings, Apart, Progress,
         UNCHANGED task,
         \A v \in Workers \ {w} : /\ proc'[v] = proc[v] /\ child'[v] = child[v]
                                  /\ writer'[v] = writer[v] /\ reader'[v] = reader[v],
         \A q \in Requests : q # task[w] => status'[q] = status[q]
  PROVE  \A v \in Workers \ {w} : WorkerInv(v)'
<1> SUFFICES ASSUME NEW v \in Workers \ {w} PROVE WorkerInv(v)'
  OBVIOUS
<1>1. task[v] # None => task[v] \in Requests /\ task[v] # task[w]
  BY DEF Apart, TypeOK, BatchTypes
<1> QED
  BY <1>1, Untouched DEF Workings

LEMMA ChildKeeps ==
  ASSUME NEW w \in Workers, TypeOK, Workings, Apart, UNCHANGED task,
         ChildStep(w) \/ FunctionEnds(w) \/ Die(w)
  PROVE  Workings' /\ Progress /\ \A q \in Requests : q # task[w] => status'[q] = status[q]
<1> DEFINE r == task[w]
           c == child[w]
           Rest == \A v \in Workers \ {w} :
                     /\ proc'[v] = proc[v] /\ child'[v] = child[v]
                     /\ writer'[v] = writer[v] /\ reader'[v] = reader[v]
           Kept == \A q \in Requests : q # task[w] => status'[q] = status[q]
<1>0. /\ c \in Children /\ WorkerInv(w) /\ WorkerTypes
      /\ r = None \/ r \in Requests
  BY DEF Workings, TypeOK, WorkerTypes, BatchTypes
<1> SUFFICES WorkerInv(w)' /\ Rest /\ Kept /\ Progress
  BY OthersUntouched DEF Workings
<1>1. CASE Read(w)
  <2>1. r # None /\ writer[w] = <<r>> /\ reader[w] = << >> /\ status[r] = "RUNNING"
    BY <1>0, <1>1 DEF Read, WorkerInv
  <2>2. Head(writer[w]) = r /\ Tail(writer[w]) = << >>
    BY <2>1
  <2>3. c.armed = {} /\ \A q \in c.fired : q = None \/ status[q] # "RUNNING"
    BY <1>0, <1>1 DEF Read, WorkerInv
  <2>4. /\ child' = [child EXCEPT ![w].phase = "run", ![w].request = r,
                                  ![w].armed = @ \cup {r}]
        /\ writer' = [writer EXCEPT ![w] = << >>]
        /\ UNCHANGED <<proc, reader, status>> /\ proc[w] = "up"
    BY <1>1, <2>2 DEF Read
  <2>5. /\ child'[w].phase = "run" /\ child'[w].request = r
        /\ child'[w].armed = {r} /\ child'[w].fired = c.fired
        /\ writer'[w] = << >>
    BY <1>0, <2>3, <2>4 DEF Children, WorkerTypes
  <2>6. c.fired \subseteq Requests
    BY <1>0 DEF Children
  <2>7. WorkerInv(w)'
    BY <2>1, <2>3, <2>4, <2>5, <2>6, TypesOfInputs DEF WorkerInv
  <2> QED
    BY <1>0, <2>4, <2>7 DEF WorkerTypes, Progress
<1>2. CASE MainAnswers(w)
  <2>0. c.phase = "answer" /\ proc[w] = "up"
    BY <1>2 DEF MainAnswers
  <2>1. /\ c.phase = "answer" /\ c.request = r /\ c.armed = {} /\ c.ret \in Endings
        /\ r \in Requests /\ writer[w] = << >> /\ proc[w] = "up"
        /\ \/ reader[w] = << >> /\ status[r] = "RUNNING"
           \/ reader[w] = <<Answer(r, "TIMEOUT")>> /\ status[r] = "TIMEOUT"
        /\ \A q \in c.fired : q = r \/ status[q] # "RUNNING"
    BY <1>0, <2>0 DEF WorkerInv
  <2>2. /\ child'[w].phase = "read" /\ child'[w].request = None /\ child'[w].armed = {}
        /\ child'[w].fired = c.fired
        /\ UNCHANGED <<proc, writer>>
    BY <1>0, <1>2, <2>1 DEF MainAnswers, Children, WorkerTypes
  <2>3. /\ Kept /\ Progress /\ Rest /\ status'[r] # "RUNNING"
    BY <1>0, <1>2, <2>1 DEF MainAnswers, WorkerTypes, Progress
  <2>4. \A q \in c.fired : status'[q] # "RUNNING"
    BY <1>0, <2>1, <2>3 DEF Progress, Children
  <2>5. \E is \in Endings \cup {"TIMEOUT"} : reader'[w] = <<Answer(r, is)>>
    <3>1. CASE status[r] = "RUNNING"
      <4>1. Append(reader[w], Answer(r, c.ret)) = <<Answer(r, c.ret)>>
        <5>1. reader[w] = << >>
          BY <2>1, <3>1
        <5>2. \A x : Append(<< >>, x) = <<x>>
          OBVIOUS
        <5> QED
          BY <5>1, <5>2
      <4>2. reader' = [reader EXCEPT ![w] = Append(@, Answer(r, c.ret))]
        BY <1>2, <2>1, <3>1 DEF MainAnswers
      <4>3. reader'[w] = Append(reader[w], Answer(r, c.ret))
        BY <1>0, <4>2 DEF WorkerTypes
      <4> QED
        BY <2>1, <4>1, <4>3, Zenon
    <3>2. CASE status[r] # "RUNNING"
      BY <1>2, <2>1, <3>2 DEF MainAnswers
    <3> QED
      BY <3>1, <3>2
  <2>6. WorkerInv(w)'
    BY <2>1, <2>2, <2>4, <2>5, TypesOfInputs DEF WorkerInv
  <2> QED
    BY <2>3, <2>6
<1>3. ASSUME NEW q \in Requests, TimerFires(w, q) PROVE WorkerInv(w)' /\ Rest /\ Kept /\ Progress
  <2>1. c.phase = "run" /\ c.request = r /\ q = r
    BY <1>0, <1>3 DEF TimerFires, WorkerInv, Children
  <2>2. /\ child'[w].phase = "run" /\ child'[w].request = r /\ child'[w].armed = c.armed \ {q}
        /\ child'[w].fired = c.fired \cup {q}
        /\ UNCHANGED <<proc, writer, reader, status>> /\ Rest
    BY <1>0, <1>3, <2>1 DEF TimerFires, Children, WorkerTypes
  <2>3. WorkerInv(w)'
    BY <1>0, <2>1, <2>2 DEF WorkerInv
  <2> QED
    BY <2>2, <2>3 DEF Progress
<1>4. ASSUME NEW q \in Requests, TimerAnswers(w, q) PROVE WorkerInv(w)' /\ Rest /\ Kept /\ Progress
  <2>1. /\ child'[w].phase = c.phase /\ child'[w].request = c.request
        /\ child'[w].armed = c.armed /\ child'[w].ret = c.ret
        /\ child'[w].fired = c.fired \ {q}
        /\ UNCHANGED <<proc, writer>> /\ Rest
    BY <1>0, <1>4 DEF TimerAnswers, Children, WorkerTypes
  <2>2. CASE status[q] = "RUNNING"
    <3>1. q = c.request /\ c.request # None
      BY <1>0, <1>4, <2>2, TypesOfInputs DEF TimerAnswers, WorkerInv
    <3>2. c.phase # "read" /\ q = r /\ reader[w] = << >> /\ writer[w] = << >>
      BY <1>0, <2>2, <3>1 DEF WorkerInv
    <3>3. reader'[w] = <<Answer(r, "TIMEOUT")>> /\ status' = [status EXCEPT ![r] = "TIMEOUT"]
      BY <1>0, <1>4, <2>2, <3>2 DEF TimerAnswers, WorkerTypes
    <3>4. status'[r] = "TIMEOUT" /\ Kept /\ Progress
      BY <1>0, <3>2, <3>3 DEF WorkerTypes, Progress
    <3>5. \A x \in c.fired \ {q} : status'[x] # "RUNNING"
      BY <1>0, <3>1, <3>4 DEF WorkerInv, Progress, Children
    <3>6. WorkerInv(w)'
      BY <1>0, <2>1, <3>2, <3>3, <3>4, <3>5 DEF WorkerInv
    <3> QED
      BY <2>1, <3>4, <3>6
  <2>3. CASE status[q] # "RUNNING"
    <3>1. UNCHANGED <<reader, status>>
      BY <1>4, <2>3 DEF TimerAnswers
    <3>2. WorkerInv(w)'
      BY <1>0, <2>1, <3>1 DEF WorkerInv
    <3> QED
      BY <2>1, <3>1, <3>2 DEF Progress
  <2> QED
    BY <2>2, <2>3
<1>5. ASSUME NEW is \in Endings, RunEnds(w, is)
      PROVE  WorkerInv(w)' /\ Rest /\ Kept /\ Progress
  <2>1. c.phase = "run" /\ c.request = r /\ c.armed \subseteq {r}
    BY <1>0, <1>5 DEF RunEnds, WorkerInv
  <2>2. /\ child'[w].phase = "answer" /\ child'[w].request = r /\ child'[w].armed = {}
        /\ child'[w].ret = is /\ child'[w].fired = c.fired
        /\ UNCHANGED <<proc, writer, reader, status>> /\ Rest
    BY <1>0, <1>5, <2>1 DEF RunEnds, Children, WorkerTypes
  <2>3. WorkerInv(w)'
    BY <1>0, <1>5, <2>1, <2>2 DEF WorkerInv
  <2> QED
    BY <2>2, <2>3 DEF Progress
<1>6. CASE Die(w)
  <2>1. /\ proc[w] = "up" /\ proc'[w] = "down" /\ child'[w] = NewChild /\ writer'[w] = << >>
        /\ UNCHANGED status /\ Rest
    BY <1>0, <1>6 DEF Die, WorkerTypes
  <2>2. reader'[w] = reader[w] \/ (r # None /\ reader'[w] = <<Cut>>)
    <3>1. CASE UNCHANGED reader
      BY <3>1
    <3>2. CASE Answering(w) /\ reader' = [reader EXCEPT ![w] = Append(@, Cut)]
      <4>1. r # None /\ reader[w] = << >>
        BY <1>0, <3>2, TypesOfInputs DEF Answering, WorkerInv, Children
      <4>2. reader'[w] = Append(reader[w], Cut)
        BY <1>0, <3>2 DEF WorkerTypes
      <4>3. Append(<< >>, Cut) = <<Cut>>
        OBVIOUS
      <4> QED
        BY <4>1, <4>2, <4>3
    <3> QED
      BY <1>6, <3>1, <3>2 DEF Die
  <2>3. WorkerInv(w)'
    BY <1>0, <2>1, <2>2 DEF WorkerInv, NewChild
  <2> QED
    BY <2>1, <2>3 DEF Progress
<1> QED
  BY <1>1, <1>2, <1>3, <1>4, <1>5, <1>6 DEF ChildStep, FunctionEnds

-----------------------------------------------------------------------------
(* The batch.                                                               *)

LEMMA TasksApart == ASSUME TypeOK, Owners PROVE Apart
<1> SUFFICES ASSUME NEW v \in Workers, NEW w \in Workers, v # w,
                    task[w] # None, task[v] = task[w]
             PROVE  FALSE
  BY DEF Apart
<1>1. \A t \in Threads : task[t] # None => \E j \in Nat : task[t] = Build(j)
  BY TypesOfInputs DEF Owners, TypeOK, BatchTypes
<1>2. task[Runner] # None => \E j \in Inputs : task[Runner] = Run(j)
  BY DEF Owners
<1>3. \A i, j : Build(i) # Run(j)
  BY DEF Build, Run
<1> QED
  BY <1>1, <1>2, <1>3, TypesOfInputs DEF Owners

LEMMA StillWorking == ASSUME TypeOK, Workings, UNCHANGED <<worker, task>> PROVE Workings'
BY Untouched DEF Workings, worker, Progress

LEMMA WorkingsStep == ASSUME MeasureInv, [Next]_vars PROVE Workings'
<1> USE DEF MeasureInv
<1>1. ASSUME NEW w \in Workers, StartBuild(w) PROVE Workings'
  <2>1. submitted + 1 \in Inputs /\ submitted \in Nat
    BY <1>1, TypesOfInputs DEF StartBuild, TypeOK, BatchTypes
  <2>2. Build(submitted + 1) \in Requests /\ status[Build(submitted + 1)] = "RUNNING"
    BY <2>1, TypesOfInputs DEF Fresh
  <2> QED
    BY <1>1, <2>2, SendKeeps DEF StartBuild
<1>2. ASSUME NEW w \in Workers, FinishBuild(w) PROVE Workings'
  BY <1>2, RecvKeeps DEF FinishBuild
<1>3. ASSUME NEW j \in Inputs, CollectBuild(j) PROVE Workings'
  BY <1>3, StillWorking DEF CollectBuild
<1>4. ASSUME FinishBuilds \/ Return PROVE Workings'
  BY <1>4, KillKeeps, TypesOfInputs DEF FinishBuilds, Return
<1>5. CASE SkipRun
  BY <1>5, StillWorking DEF SkipRun
<1>6. CASE StartRun
  <2>1. Turn \in Inputs /\ task[Runner] # Run(Turn) /\ Turn >= Turn
    BY <1>6, TypesOfInputs DEF StartRun
  <2>2. Run(Turn) \in Requests /\ status[Run(Turn)] = "RUNNING"
    BY <2>1, TypesOfInputs DEF Fresh
  <2> QED
    BY <1>6, <2>2, SendKeeps, TypesOfInputs DEF StartRun
<1>7. CASE FinishRun
  BY <1>7, RecvKeeps, TypesOfInputs DEF FinishRun
<1>8. ASSUME NEW w \in Workers, ChildStep(w) \/ FunctionEnds(w) \/ Die(w), UNCHANGED batch
      PROVE  Workings'
  BY <1>8, ChildKeeps, TasksApart DEF batch
<1>9. CASE PrepareFails
  BY <1>9, StillWorking DEF PrepareFails
<1>10. CASE UNCHANGED vars
  BY <1>10, StillWorking DEF vars, batch
<1> QED
  BY <1>1, <1>2, <1>3, <1>4, <1>5, <1>6, <1>7, <1>8, <1>9, <1>10 DEF Next

LEMMA AllBuilt == ASSUME TypeOK, Owners, Results, Len(build_results) = NInputs
                  PROVE  \A w \in Threads : task[w] = None
<1> SUFFICES ASSUME NEW w \in Threads, NEW j \in 1 .. submitted, outcome[j] = Pending PROVE FALSE
  BY DEF Owners
<1>1. j \in 1 .. Len(build_results)
  BY TypesOfInputs DEF TypeOK, BatchTypes
<1>2. outcome[j].is \in {"NO_ERROR", "ERROR", "TIMEOUT"}
  BY <1>1 DEF Results
<1> QED
  BY <1>2 DEF Pending, Answer

LEMMA OwnersStep == ASSUME MeasureInv, [Next]_vars PROVE Owners'
<1> USE DEF MeasureInv
<1>0. /\ submitted \in Nat /\ submitted <= NInputs /\ NInputs \in Nat
      /\ Threads \subseteq Workers /\ Runner \in Workers /\ Runner \notin Threads
      /\ task \in [Workers -> Requests \cup {None}]
      /\ outcome \in [Inputs -> Answers] /\ Inputs = 1 .. NInputs
      /\ \A w \in Threads : task[w] # None =>
            \E j \in 1 .. submitted : task[w] = Build(j) /\ outcome[j] = Pending
      /\ \A w, v \in Threads : task[w] = task[v] /\ task[w] # None => w = v
  BY TypesOfInputs DEF TypeOK, BatchTypes, Owners
<1>1. ASSUME NEW w \in Workers, StartBuild(w) PROVE Owners'
  <2> DEFINE j == submitted + 1
  <2>1. /\ j \in Inputs /\ outcome[j] = Pending /\ pc = "build" /\ w \in Threads
        /\ task' = [task EXCEPT ![w] = Build(j)]
        /\ submitted' = j /\ UNCHANGED <<pc, outcome, build_results, run_results>>
    BY <1>0, <1>1 DEF StartBuild, Fresh
  <2>2. task[Runner] = None /\ task'[Runner] = None
    BY <1>0, <2>1 DEF Owners
  <2>3. task'[w] = Build(j) /\ \A v \in Threads \ {w} : task'[v] = task[v]
    BY <1>0, <2>1
  <2>4. \A i \in 1 .. submitted : Build(i) # Build(j)
    BY <1>0, <2>1, TypesOfInputs
  <2>5. \A v \in Threads : task'[v] # None =>
          \E i \in 1 .. submitted' : task'[v] = Build(i) /\ outcome'[i] = Pending
    BY <1>0, <2>1, <2>3
  <2>6. \A u, v \in Threads : task'[u] = task'[v] /\ task'[u] # None => u = v
    BY <1>0, <2>3, <2>4
  <2> QED
    BY <2>1, <2>2, <2>5, <2>6 DEF Owners
<1>2. ASSUME NEW w \in Workers, FinishBuild(w) PROVE Owners'
  <2>1. PICK j \in 1 .. submitted : task[w] = Build(j)
    BY <1>0, <1>2 DEF FinishBuild
  <2>2. task[w][2] = j
    BY <2>1 DEF Build
  <2>3. /\ pc = "build" /\ w \in Threads /\ task[w] # None
        /\ task' = [task EXCEPT ![w] = None]
        /\ outcome' = [outcome EXCEPT ![j] = Received(w)]
        /\ UNCHANGED <<pc, submitted, build_results, run_results>>
    BY <1>2, <2>2 DEF FinishBuild
  <2>4. task[Runner] = None /\ task'[Runner] = None
    BY <1>0, <2>3 DEF Owners
  <2>5. task'[w] = None /\ \A v \in Threads \ {w} : task'[v] = task[v] /\ task[v] # task[w]
    BY <1>0, <2>3
  <2>6. \A v \in Threads : task'[v] # None =>
          \E i \in 1 .. submitted : task'[v] = Build(i) /\ outcome'[i] = Pending
    <3> SUFFICES ASSUME NEW v \in Threads, task'[v] # None
                 PROVE  \E i \in 1 .. submitted : task'[v] = Build(i) /\ outcome'[i] = Pending
      OBVIOUS
    <3>1. v # w /\ task'[v] = task[v] /\ task[v] # Build(j)
      BY <2>1, <2>5
    <3>2. PICK i \in 1 .. submitted : task[v] = Build(i) /\ outcome[i] = Pending
      BY <1>0, <3>1
    <3>3. i # j /\ outcome'[i] = outcome[i]
      BY <1>0, <2>3, <3>1, <3>2
    <3> QED
      BY <3>1, <3>2, <3>3
  <2>7. \A u, v \in Threads : task'[u] = task'[v] /\ task'[u] # None => u = v
    BY <1>0, <2>5
  <2> QED
    BY <2>3, <2>4, <2>6, <2>7 DEF Owners
<1>3. ASSUME NEW j \in Inputs, CollectBuild(j) PROVE Owners'
  <2>1. pc = "build" /\ pc' \in {"build", "raised"} /\ UNCHANGED <<submitted, task, outcome>>
    BY <1>3 DEF CollectBuild
  <2>2. task[Runner] = None
    BY <2>1 DEF Owners
  <2> QED
    BY <2>1, <2>2 DEF Owners
<1>4. CASE FinishBuilds
  <2>1. \A w \in Threads : task[w] = None
    BY <1>4, AllBuilt DEF FinishBuilds
  <2>2. task[Runner] = None
    BY <1>4 DEF FinishBuilds, Owners
  <2> QED
    BY <1>4, <2>1, <2>2 DEF FinishBuilds, Owners
<1>5. CASE SkipRun
  BY <1>5 DEF SkipRun, Owners
<1>6. CASE StartRun
  <2>1. task'[Runner] = Run(Turn) /\ \A w \in Threads : task'[w] = task[w] /\ task[w] = None
    BY <1>0, <1>6 DEF StartRun, Owners
  <2>2. pc' = "run" /\ Turn \in Inputs /\ MayRun(Turn) /\ Turn' = Turn /\ MayRun(Turn)'
    BY <1>6 DEF StartRun, Turn, MayRun
  <2> QED
    BY <2>1, <2>2 DEF Owners
<1>7. CASE FinishRun
  <2>1. task'[Runner] = None /\ \A w \in Threads : task'[w] = task[w] /\ task[w] = None
    BY <1>0, <1>7 DEF FinishRun, Owners
  <2> QED
    BY <2>1 DEF Owners
<1>8. CASE Return
  <2>1. Turn \notin Inputs /\ task[Runner] = None
    BY <1>0, <1>8 DEF Return, Turn, Owners
  <2> QED
    BY <1>8, <2>1 DEF Return, Owners
<1>9. CASE PrepareFails
  BY <1>9 DEF PrepareFails, Owners
<1>10. ASSUME UNCHANGED batch PROVE Owners'
  BY <1>10 DEF batch, Owners, Turn, MayRun
<1> QED
  BY <1>1, <1>2, <1>3, <1>4, <1>5, <1>6, <1>7, <1>8, <1>9, <1>10 DEF Next, vars

LEMMA FreshStep == ASSUME MeasureInv, [Next]_vars PROVE Fresh'
<1> USE DEF MeasureInv
<1>0. /\ submitted \in Nat /\ submitted <= NInputs /\ NInputs \in Nat
      /\ Inputs = 1 .. NInputs /\ Len(run_results) \in Nat
      /\ outcome \in [Inputs -> Answers]
      /\ \A w \in Threads : task[w] # None => \E j \in 1 .. submitted : task[w] = Build(j)
  BY TypesOfInputs DEF TypeOK, BatchTypes, Owners
<1>1. ASSUME NEW w \in Workers, StartBuild(w) PROVE Fresh'
  <2>1. /\ submitted' = submitted + 1 /\ UNCHANGED <<status, outcome, run_results>>
        /\ task'[Runner] = task[Runner]
    BY <1>1, TypesOfInputs DEF StartBuild, Send, TypeOK, BatchTypes
  <2> QED
    BY <1>0, <2>1 DEF Fresh, Turn
<1>2. ASSUME NEW w \in Workers, FinishBuild(w) PROVE Fresh'
  <2>1. PICK j \in 1 .. submitted : task[w] = Build(j)
    BY <1>0, <1>2 DEF FinishBuild
  <2>2. task[w][2] = j
    BY <2>1 DEF Build
  <2>3. /\ outcome' = [outcome EXCEPT ![j] = Received(w)]
        /\ UNCHANGED <<submitted, status, run_results>> /\ task'[Runner] = task[Runner]
    BY <1>2, <2>2, TypesOfInputs DEF FinishBuild, Recv, KillAll, TypeOK, BatchTypes
  <2> QED
    BY <1>0, <2>3 DEF Fresh, Turn
<1>3. ASSUME UNCHANGED <<submitted, status, outcome, run_results, task>> PROVE Fresh'
  BY <1>3 DEF Fresh, Turn
<1>4. CASE SkipRun
  <2>1. /\ UNCHANGED <<submitted, status, outcome, task>> /\ task[Runner] = None
        /\ Turn' = Turn + 1 /\ Turn \in Nat
    BY <1>0, <1>4 DEF SkipRun, worker, Turn, TypeOK, BatchTypes
  <2>2. \A j \in Inputs : Run(j) # None
    BY DEF Run, None
  <2> QED
    BY <1>0, <2>1, <2>2 DEF Fresh
<1>5. CASE StartRun
  <2>1. /\ UNCHANGED <<submitted, status, outcome, run_results>> /\ task[Runner] = None
    BY <1>5 DEF StartRun, Send
  <2>2. \A j \in Inputs : Run(j) # None
    BY DEF Run, None
  <2> QED
    BY <2>1, <2>2 DEF Fresh, Turn
<1>6. CASE FinishRun
  <2>1. /\ UNCHANGED <<submitted, status, outcome>> /\ task[Runner] = Run(Turn)
        /\ Turn' = Turn + 1 /\ Turn \in Nat
    BY <1>0, <1>6 DEF FinishRun, Recv, KillAll, Turn, TypeOK, BatchTypes, Owners
  <2>2. \A i, j : Run(i) = Run(j) => i = j
    BY DEF Run
  <2> QED
    BY <1>0, <2>1, <2>2 DEF Fresh
<1>7. ASSUME NEW w \in Workers, ChildStep(w) \/ FunctionEnds(w) \/ Die(w), UNCHANGED batch
      PROVE  Fresh'
  <2>1. /\ \A q \in Requests : q # task[w] => status'[q] = status[q]
        /\ UNCHANGED <<submitted, outcome, run_results, task>>
    BY <1>7, ChildKeeps, TasksApart DEF batch
  <2>2. ASSUME NEW j \in Inputs, j > submitted PROVE Build(j) # task[w]
    BY <1>0, <2>2, TypesOfInputs DEF Build, Run, Owners, None
  <2>3. ASSUME NEW j \in Inputs, task[Runner] # Run(j) PROVE Run(j) # task[w]
    BY <1>0, <2>3, TypesOfInputs DEF Build, Run, None
  <2> QED
    BY <2>1, <2>2, <2>3, TypesOfInputs DEF Fresh, Turn
<1>8. FinishBuilds \/ Return \/ PrepareFails =>
        UNCHANGED <<submitted, status, outcome, run_results, task>>
  BY DEF FinishBuilds, Return, PrepareFails, KillAll, worker
<1>9. \A j \in Inputs : CollectBuild(j) => UNCHANGED <<submitted, status, outcome, run_results, task>>
  BY DEF CollectBuild, worker
<1>10. UNCHANGED vars => UNCHANGED <<submitted, status, outcome, run_results, task>>
  BY DEF vars, worker, batch
<1> QED
  BY <1>1, <1>2, <1>3, <1>4, <1>5, <1>6, <1>7, <1>8, <1>9, <1>10 DEF Next

LEMMA ResultsStep == ASSUME MeasureInv, [Next]_vars PROVE Results'
<1> USE DEF MeasureInv
<1>0. /\ NInputs \in Nat /\ Inputs = 1 .. NInputs
      /\ Len(run_results) \in Nat /\ Len(build_results) \in Nat
      /\ outcome \in [Inputs -> Answers]
      /\ build_results \in Seq(Answers) /\ run_results \in Seq(RunResults)
      /\ Runner \in Workers
  BY TypesOfInputs DEF TypeOK, BatchTypes
<1>1. ASSUME UNCHANGED <<pc, outcome, build_results, run_results>> PROVE Results'
  BY <1>1 DEF Results, MayRun
<1>2. ASSUME NEW w \in Workers, FinishBuild(w) PROVE Results'
  <2>1. PICK j \in 1 .. submitted : task[w] = Build(j) /\ outcome[j] = Pending
    BY <1>2 DEF FinishBuild, Owners
  <2>2. task[w][2] = j /\ j \in Inputs
    BY <2>1, TypesOfInputs DEF Build, TypeOK, BatchTypes
  <2>3. /\ outcome' = [outcome EXCEPT ![j] = Received(w)]
        /\ UNCHANGED <<pc, build_results, run_results>>
    BY <1>2, <2>2 DEF FinishBuild
  <2>4. Received(w) \in {Dead, Cut} \/ Received(w).of = Build(j)
    BY <1>2, <2>1, ReceivedOf DEF FinishBuild
  <2>5. j \notin 1 .. Len(build_results)
    <3>1. outcome[j].is = "none"
      BY <2>1 DEF Pending, Answer
    <3> QED
      BY <3>1 DEF Results
  <2>6. \A i \in 1 .. Len(build_results) : outcome'[i] = outcome[i]
    BY <1>0, <2>3, <2>5 DEF Results
  <2>7. \A i \in Inputs : outcome'[i].is \notin {"DEAD", "CUT", "none"} => outcome'[i].of = Build(i)
    BY <1>0, <2>3, <2>4 DEF Results, Dead, Cut, Answer
  <2> QED
    BY <2>3, <2>6, <2>7 DEF Results, MayRun
<1>3. ASSUME NEW j \in Inputs, CollectBuild(j) PROVE Results'
  <2>1. j = Len(build_results) + 1 /\ pc = "build" /\ UNCHANGED <<outcome, run_results>>
    BY <1>3 DEF CollectBuild, Collectable
  <2>2. CASE outcome[j].is \in {"NO_ERROR", "ERROR", "TIMEOUT"}
    <3>1. build_results' = Append(build_results, outcome[j]) /\ UNCHANGED pc
      BY <1>3, <2>2 DEF CollectBuild
    <3>2. /\ Len(build_results') = Len(build_results) + 1 /\ build_results'[j] = outcome[j]
          /\ \A i \in 1 .. Len(build_results) : build_results'[i] = build_results[i]
      BY <1>0, <2>1, <3>1
    <3>3. \A i \in 1 .. Len(build_results') : i = j \/ i \in 1 .. Len(build_results)
      BY <1>0, <2>1, <3>2
    <3>4. run_results = << >> /\ Len(run_results) = 0
      BY <2>1 DEF Results
    <3> QED
      BY <1>0, <2>1, <2>2, <3>1, <3>2, <3>3, <3>4 DEF Results
  <2>3. CASE outcome[j].is \notin {"NO_ERROR", "ERROR", "TIMEOUT"}
    <3>1. pc' = "raised" /\ UNCHANGED build_results
      BY <1>3, <2>3 DEF CollectBuild
    <3> QED
      BY <2>1, <3>1 DEF Results, MayRun
  <2> QED
    BY <2>2, <2>3
<1>4. CASE FinishBuilds
  BY <1>4 DEF FinishBuilds, Results, MayRun
<1>5. ASSUME NEW a, a \in RunResults, run_results' = Append(run_results, a), pc = "run",
             Turn \in Inputs, UNCHANGED <<pc, outcome, build_results>>,
             IF MayRun(Turn) THEN a.of \in {Run(Turn), None} ELSE a.of = Build(Turn)
      PROVE  Results'
  <2>1. Turn = Len(run_results) + 1
    BY DEF Turn
  <2>2. /\ Len(run_results') = Len(run_results) + 1 /\ run_results'[Turn] = a
        /\ \A i \in 1 .. Len(run_results) : run_results'[i] = run_results[i]
    BY <1>0, <1>5, <2>1
  <2>3. \A i \in 1 .. Len(run_results') : i = Turn \/ i \in 1 .. Len(run_results)
    BY <1>0, <2>1, <2>2
  <2>4. \A i : MayRun(i)' = MayRun(i)
    BY <1>5 DEF MayRun
  <2>5. ASSUME NEW i \in 1 .. Len(run_results')
        PROVE  IF MayRun(i)' THEN run_results'[i].of \in {Run(i), None}
               ELSE run_results'[i].of = Build(i)
    <3>1. CASE i = Turn
      BY <1>5, <2>2, <2>4, <3>1
    <3>2. CASE i \in 1 .. Len(run_results)
      BY <2>2, <2>4, <3>2 DEF Results
    <3> QED
      BY <2>3, <3>1, <3>2
  <2> QED
    BY <1>0, <1>5, <2>1, <2>2, <2>5 DEF Results
<1>6. CASE SkipRun
  <2>1. Build(Turn) \in Requests
    BY <1>6, TypesOfInputs DEF SkipRun
  <2>2. Answer(Build(Turn), "BUILD_ERROR").of = Build(Turn)
    BY DEF Answer
  <2> QED
    BY <1>5, <1>6, <2>1, <2>2, AnswersTyped DEF SkipRun
<1>7. CASE FinishRun
  <2> DEFINE a == Answer(Received(Runner).of, RunError(Received(Runner)))
  <2>1. task[Runner] # None /\ task[Runner] = Run(Turn) /\ Turn \in Inputs /\ MayRun(Turn)
    BY <1>7 DEF FinishRun, Owners
  <2>2. Received(Runner).of \in {Run(Turn), None}
    BY <1>0, <1>7, <2>1, ReceivedOf DEF FinishRun, Dead, Cut, Answer
  <2>3. a \in RunResults
    <3>1. Received(Runner) \in Answers
      BY <1>0, ReceivedTyped DEF TypeOK
    <3> QED
      BY <3>1, AnswersTyped
  <2>4. a.of = Received(Runner).of
    BY DEF Answer
  <2>5. /\ run_results' = Append(run_results, a) /\ pc = "run"
        /\ UNCHANGED <<pc, outcome, build_results>>
    BY <1>7 DEF FinishRun
  <2> HIDE DEF a
  <2>6. IF MayRun(Turn) THEN a.of \in {Run(Turn), None} ELSE a.of = Build(Turn)
    BY <2>1, <2>2, <2>4
  <2> QED
    BY <1>5, <2>1, <2>3, <2>5, <2>6
<1>8. CASE Return
  BY <1>8 DEF Return, Results, MayRun
<1>9. CASE PrepareFails
  BY <1>9 DEF PrepareFails, Results, MayRun
<1>10. ASSUME NEW w \in Workers, StartBuild(w) PROVE Results'
  <2>1. UNCHANGED <<pc, outcome, build_results, run_results>>
    BY <1>10 DEF StartBuild
  <2> QED
    BY <1>1, <2>1
<1>11. CASE StartRun
  <2>1. UNCHANGED <<pc, outcome, build_results, run_results>>
    BY <1>11 DEF StartRun
  <2> QED
    BY <1>1, <2>1
<1>12. ASSUME UNCHANGED batch PROVE Results'
  <2>1. UNCHANGED <<pc, outcome, build_results, run_results>>
    BY <1>12 DEF batch
  <2> QED
    BY <1>1, <2>1
<1> QED
  BY <1>2, <1>3, <1>4, <1>6, <1>7, <1>8, <1>9, <1>10, <1>11, <1>12 DEF Next, vars

(* A process that dies is found dead at most once, and then forgotten; an   *)
(* answer cut short is read once.                                           *)

LEMMA Numbers ==
  ASSUME TypeOK
  PROVE  /\ IsFiniteSet(LostBuilds) /\ IsFiniteSet(LostRuns)
         /\ IsFiniteSet(Crashed) /\ IsFiniteSet(CutShort)
         /\ Cardinality(LostBuilds) \in Nat /\ Cardinality(LostRuns) \in Nat
         /\ Cardinality(Crashed) \in Nat /\ Cardinality(CutShort) \in Nat
         /\ deaths \in Nat /\ cuts \in Nat
<1>1. IsFiniteSet(Inputs)
  BY TypesOfInputs, FS_Interval
<1>2. IsFiniteSet(LostBuilds)
  BY <1>1, FS_Subset DEF LostBuilds
<1>3. DOMAIN run_results = 1 .. Len(run_results) /\ Len(run_results) \in Nat
  BY DEF TypeOK, BatchTypes
<1>4. IsFiniteSet(DOMAIN run_results)
  BY <1>3, FS_Interval
<1>5. IsFiniteSet(LostRuns)
  BY <1>4, FS_Subset DEF LostRuns
<1>6. IsFiniteSet(Crashed) /\ IsFiniteSet(CutShort)
  BY TypesOfInputs, FS_Subset DEF Crashed, CutShort
<1> QED
  BY <1>2, <1>5, <1>6, FS_CardinalityType DEF TypeOK, WorkerTypes

LEMMA CountGrows ==
  ASSUME NEW S, NEW T, NEW e, IsFiniteSet(S), T \subseteq S \cup {e}
  PROVE  Cardinality(T) \in Nat /\ Cardinality(T) <= Cardinality(S) + 1
<1>0. Cardinality(S) \in Nat
  BY FS_CardinalityType
<1>1. /\ IsFiniteSet(S \cup {e})
      /\ Cardinality(S \cup {e}) = IF e \in S THEN Cardinality(S) ELSE Cardinality(S) + 1
  BY FS_AddElement
<1>2. IsFiniteSet(T) /\ Cardinality(T) <= Cardinality(S \cup {e})
  BY <1>1, FS_Subset
<1>3. Cardinality(T) \in Nat
  BY <1>2, FS_CardinalityType
<1> QED
  BY <1>0, <1>1, <1>2, <1>3

LEMMA CountShrinks ==
  ASSUME NEW S, NEW T, NEW e \in S, IsFiniteSet(S), T \subseteq S \ {e}
  PROVE  Cardinality(T) \in Nat /\ Cardinality(T) + 1 <= Cardinality(S)
<1>0. Cardinality(S) \in Nat
  BY FS_CardinalityType
<1>1. IsFiniteSet(S \ {e}) /\ Cardinality(S \ {e}) = Cardinality(S) - 1
  BY FS_RemoveElement
<1>2. IsFiniteSet(T) /\ Cardinality(T) <= Cardinality(S \ {e})
  BY <1>1, FS_Subset
<1>3. Cardinality(T) \in Nat
  BY <1>2, FS_CardinalityType
<1> QED
  BY <1>0, <1>1, <1>2, <1>3

LEMMA CountKept ==
  ASSUME NEW S, NEW T, IsFiniteSet(S), T \subseteq S
  PROVE  Cardinality(T) \in Nat /\ Cardinality(T) <= Cardinality(S)
BY FS_Subset, FS_CardinalityType

(* Which processes are dead, and which answers cut short, after each step. *)
LEMMA DeadAfter ==
  ASSUME TypeOK
  PROVE  /\ \A w \in Workers : \A r \in Requests :
              Send(w, r) => /\ Crashed' \subseteq Crashed /\ CutShort' \subseteq CutShort
                            /\ UNCHANGED <<deaths, cuts>>
         /\ \A W \in SUBSET Workers :
              KillAll(W) => /\ Crashed' \subseteq Crashed \ W /\ CutShort' \subseteq CutShort
                            /\ UNCHANGED <<deaths, cuts>>
         /\ \A w \in Workers : ChildStep(w) \/ FunctionEnds(w) =>
              UNCHANGED <<proc, deaths, cuts>> /\ CutShort' \subseteq CutShort
         /\ \A w \in Workers : Die(w) =>
              /\ Crashed' \subseteq Crashed \cup {w} /\ deaths' = deaths + 1
              /\ \/ CutShort' \subseteq CutShort /\ UNCHANGED cuts
                 \/ CutShort' \subseteq CutShort \cup {w} /\ cuts' = cuts + 1
<1>0. /\ proc \in [Workers -> {"none", "up", "down"}] /\ child \in [Workers -> Children]
      /\ reader \in [Workers -> Seq(Answers)]
  BY DEF TypeOK, WorkerTypes
<1>1. ASSUME NEW w \in Workers, NEW r \in Requests, Send(w, r)
      PROVE  /\ Crashed' \subseteq Crashed /\ CutShort' \subseteq CutShort
             /\ UNCHANGED <<deaths, cuts>>
  BY <1>0, <1>1 DEF Send, Crashed, CutShort
<1>2. ASSUME NEW W \in SUBSET Workers, KillAll(W)
      PROVE  /\ Crashed' \subseteq Crashed \ W /\ CutShort' \subseteq CutShort
             /\ UNCHANGED <<deaths, cuts>>
  BY <1>0, <1>2 DEF KillAll, Crashed, CutShort
<1>3. ASSUME NEW w \in Workers, ChildStep(w) \/ FunctionEnds(w)
      PROVE  UNCHANGED <<proc, deaths, cuts>> /\ CutShort' \subseteq CutShort
  <2> DEFINE Wrote ==
               \/ UNCHANGED reader
               \/ \E r \in Requests \cup {None}, is \in Returns \cup {"TIMEOUT", "none"} :
                    reader' = [reader EXCEPT ![w] = Append(@, Answer(r, is))]
  <2>a. child[w].request \in Requests \cup {None} /\ child[w].ret \in Returns \cup {"none"}
    BY <1>0 DEF Children, Returns
  <2>b. Read(w) \/ FunctionEnds(w) => UNCHANGED <<proc, deaths, cuts>> /\ UNCHANGED reader
    <3>1. Read(w) => UNCHANGED <<proc, deaths, cuts>> /\ UNCHANGED reader
      BY DEF Read
    <3>2. FunctionEnds(w) => UNCHANGED <<proc, deaths, cuts>> /\ UNCHANGED reader
      BY DEF FunctionEnds, RunEnds
    <3> QED
      BY <3>1, <3>2
  <2>c. MainAnswers(w) =>
          /\ UNCHANGED <<proc, deaths, cuts>>
          /\ \/ UNCHANGED reader
             \/ reader' = [reader EXCEPT ![w] = Append(@, Answer(child[w].request, child[w].ret))]
    BY DEF MainAnswers
  <2>d. ASSUME NEW q \in Requests, TimerFires(w, q) \/ TimerAnswers(w, q)
        PROVE  /\ UNCHANGED <<proc, deaths, cuts>>
               /\ UNCHANGED reader \/ reader' = [reader EXCEPT ![w] = Append(@, Answer(q, "TIMEOUT"))]
    BY <2>d DEF TimerFires, TimerAnswers
  <2>1. UNCHANGED <<proc, deaths, cuts>>
    BY <1>3, <2>b, <2>c, <2>d DEF ChildStep
  <2>2. Wrote
    BY <1>3, <2>a, <2>b, <2>c, <2>d DEF ChildStep
  <2>3. ASSUME NEW r \in Requests \cup {None}, NEW is \in Returns \cup {"TIMEOUT", "none"}
        PROVE  Append(reader[w], Answer(r, is)) # <<Cut>>
    <3>1. Answer(r, is) # Cut
      BY DEF Answer, Cut, Returns
    <3>2. Answer(r, is) \in Answers
      BY DEF Answer, Answers, Returns
    <3>3. reader[w] \in Seq(Answers)
      BY <1>0
    <3>4. Append(reader[w], Answer(r, is))[Len(reader[w]) + 1] = Answer(r, is)
      BY <3>2, <3>3
    <3>5. Len(Append(reader[w], Answer(r, is))) = Len(reader[w]) + 1 /\ Len(reader[w]) \in Nat
      BY <3>2, <3>3
    <3>6. Len(<<Cut>>) = 1 /\ <<Cut>>[1] = Cut
      OBVIOUS
    <3> QED
      BY <3>1, <3>4, <3>5, <3>6
  <2> QED
    BY <1>0, <2>1, <2>2, <2>3 DEF CutShort
<1>4. ASSUME NEW w \in Workers, Die(w)
      PROVE  /\ Crashed' \subseteq Crashed \cup {w} /\ deaths' = deaths + 1
             /\ \/ CutShort' \subseteq CutShort /\ UNCHANGED cuts
                \/ CutShort' \subseteq CutShort \cup {w} /\ cuts' = cuts + 1
  BY <1>0, <1>4 DEF Die, Crashed, CutShort
<1> QED
  BY <1>1, <1>2, <1>3, <1>4

(* What recv() finds of a dead process, it does not find again.            *)
LEMMA DeadReceived ==
  ASSUME TypeOK, Workings, NEW w \in Workers, Recv(w)
  PROVE  /\ Crashed' \subseteq Crashed /\ CutShort' \subseteq CutShort
         /\ UNCHANGED <<deaths, cuts>>
         /\ Received(w) = Dead /\ proc[w] = "down" =>
              w \in Crashed /\ Crashed' \subseteq Crashed \ {w}
         /\ reader[w] = <<Cut>> => w \in CutShort /\ CutShort' \subseteq CutShort \ {w}
<1>0. reader \in [Workers -> Seq(Answers)]
  BY DEF TypeOK, WorkerTypes
<1>1. Fatal(Dead) /\ ~ Fatal(Cut)
  BY DEF Fatal, Dead, Cut, Answer
<1>2. CASE Fatal(Received(w))
  <2>1. KillAll({w}) /\ {w} \in SUBSET Workers
    BY <1>2 DEF Recv
  <2>2. reader[w] # <<Cut>>
    BY <1>1, <1>2 DEF Received
  <2> QED
    BY <2>1, <2>2, DeadAfter DEF Crashed
<1>3. CASE ~ Fatal(Received(w))
  <2>1. /\ reader' = [reader EXCEPT ![w] = IF @ = << >> THEN @ ELSE Tail(@)]
        /\ UNCHANGED <<proc, deaths, cuts>>
    BY <1>3 DEF Recv
  <2>2. Received(w) # Dead
    BY <1>1, <1>3
  <2>3. PICK a : reader[w] = <<a>>
    BY <2>2 DEF Received, Workings, WorkerInv
  <2>4. reader' = [reader EXCEPT ![w] = << >>]
    BY <1>0, <2>1, <2>3
  <2>5. CutShort' \subseteq CutShort \ {w}
    BY <1>0, <2>4 DEF CutShort
  <2> QED
    BY <2>1, <2>2, <2>5 DEF Crashed, CutShort
<1> QED
  BY <1>2, <1>3

LEMMA AppendedRun ==
  ASSUME TypeOK, NEW a \in RunResults, run_results' = Append(run_results, a)
  PROVE  /\ LostRuns' \subseteq LostRuns \cup {Turn}
         /\ a.of # None => LostRuns' \subseteq LostRuns
<1>1. run_results \in Seq(RunResults) /\ Turn = Len(run_results) + 1
  BY DEF TypeOK, BatchTypes, Turn
<1>2. /\ DOMAIN run_results' = DOMAIN run_results \cup {Turn}
      /\ \A j \in DOMAIN run_results : run_results'[j] = run_results[j]
      /\ run_results'[Turn] = a
  BY <1>1
<1> QED
  BY <1>2 DEF LostRuns

LEMMA CrashesStep == ASSUME MeasureInv, [Next]_vars PROVE Crashes'
<1>0. IsFiniteSet(LostBuilds) /\ IsFiniteSet(LostRuns) /\ IsFiniteSet(Crashed) /\ IsFiniteSet(CutShort)
  BY Numbers DEF MeasureInv
<1> PICK b \in Nat, r \in Nat, c \in Nat, x \in Nat, d \in Nat, k \in Nat :
      /\ b = Cardinality(LostBuilds) /\ r = Cardinality(LostRuns)
      /\ c = Cardinality(Crashed) /\ x = Cardinality(CutShort)
      /\ d = deaths /\ k = cuts /\ b + r + c + x <= d + k
  BY Numbers DEF MeasureInv, Crashes
<1> DEFINE Counts ==
             \E b2, r2, c2, x2, d2, k2 \in Nat :
               /\ b2 = Cardinality(LostBuilds)' /\ r2 = Cardinality(LostRuns)'
               /\ c2 = Cardinality(Crashed)' /\ x2 = Cardinality(CutShort)'
               /\ d2 = deaths' /\ k2 = cuts' /\ b2 + r2 + c2 + x2 <= d2 + k2
<1> SUFFICES Counts
  BY DEF Crashes
(* Nothing is found dead that was not. *)
<1>1. ASSUME UNCHANGED <<deaths, cuts>>, LostBuilds' \subseteq LostBuilds, LostRuns' \subseteq LostRuns,
             Crashed' \subseteq Crashed, CutShort' \subseteq CutShort
      PROVE  Counts
  <2>1. \E b2, r2, c2, x2 \in Nat :
          /\ b2 = Cardinality(LostBuilds)' /\ r2 = Cardinality(LostRuns)'
          /\ c2 = Cardinality(Crashed)' /\ x2 = Cardinality(CutShort)'
          /\ b2 <= b /\ r2 <= r /\ c2 <= c /\ x2 <= x
    BY <1>0, <1>1, CountKept
  <2> QED
    BY <1>1, <2>1
(* A build or a run is lost, to a process found dead or an answer cut short. *)
<1>2. ASSUME UNCHANGED <<deaths, cuts>>, NEW e,
             \/ LostBuilds' \subseteq LostBuilds \cup {e} /\ LostRuns' \subseteq LostRuns
             \/ LostBuilds' \subseteq LostBuilds /\ LostRuns' \subseteq LostRuns \cup {e},
             NEW w,
             \/ w \in Crashed /\ Crashed' \subseteq Crashed \ {w} /\ CutShort' \subseteq CutShort
             \/ w \in CutShort /\ CutShort' \subseteq CutShort \ {w} /\ Crashed' \subseteq Crashed
      PROVE  Counts
  <2>1. PICK c2 \in Nat, x2 \in Nat :
          /\ c2 = Cardinality(Crashed)' /\ x2 = Cardinality(CutShort)'
          /\ (c2 + 1 <= c /\ x2 <= x) \/ (x2 + 1 <= x /\ c2 <= c)
    BY <1>0, <1>2, CountShrinks, CountKept
  <2>2. PICK b2 \in Nat, r2 \in Nat :
          /\ b2 = Cardinality(LostBuilds)' /\ r2 = Cardinality(LostRuns)'
          /\ (b2 <= b + 1 /\ r2 <= r) \/ (b2 <= b /\ r2 <= r + 1)
    BY <1>0, <1>2, CountGrows, CountKept
  <2>3. b2 + r2 + c2 + x2 <= d + k
    BY <2>1, <2>2
  <2> QED
    BY <1>2, <2>1, <2>2, <2>3
(* A process dies, and may cut an answer short. *)
<1>3. ASSUME NEW w, deaths' = deaths + 1, LostBuilds' \subseteq LostBuilds,
             LostRuns' \subseteq LostRuns, Crashed' \subseteq Crashed \cup {w},
             \/ CutShort' \subseteq CutShort /\ UNCHANGED cuts
             \/ CutShort' \subseteq CutShort \cup {w} /\ cuts' = cuts + 1
      PROVE  Counts
  <2>1. PICK b2 \in Nat, r2 \in Nat, c2 \in Nat :
          /\ b2 = Cardinality(LostBuilds)' /\ r2 = Cardinality(LostRuns)'
          /\ c2 = Cardinality(Crashed)' /\ b2 <= b /\ r2 <= r /\ c2 <= c + 1
    BY <1>0, <1>3, CountKept, CountGrows
  <2>2. PICK x2 \in Nat, k2 \in Nat :
          /\ x2 = Cardinality(CutShort)' /\ k2 = cuts'
          /\ (x2 <= x /\ k2 = k) \/ (x2 <= x + 1 /\ k2 = k + 1)
    <3>1. CASE CutShort' \subseteq CutShort /\ UNCHANGED cuts
      <4>1. Cardinality(CutShort)' \in Nat /\ Cardinality(CutShort)' <= x
        BY <1>0, <3>1, CountKept
      <4> QED
        BY <3>1, <4>1
    <3>2. CASE CutShort' \subseteq CutShort \cup {w} /\ cuts' = cuts + 1
      <4>1. Cardinality(CutShort)' \in Nat /\ Cardinality(CutShort)' <= x + 1
        BY <1>0, <3>2, CountGrows
      <4>2. cuts' = k + 1 /\ k + 1 \in Nat
        BY <3>2
      <4> QED
        BY <4>1, <4>2
    <3> QED
      BY <1>3, <3>1, <3>2
  <2>3. b2 + r2 + c2 + x2 <= (d + 1) + k2 /\ deaths' = d + 1 /\ d + 1 \in Nat
    BY <1>3, <2>1, <2>2
  <2> QED
    BY <2>1, <2>2, <2>3
<1> HIDE DEF Counts
<1>4. /\ UNCHANGED outcome => LostBuilds' \subseteq LostBuilds
      /\ UNCHANGED run_results => LostRuns' \subseteq LostRuns
      /\ UNCHANGED proc => Crashed' \subseteq Crashed
      /\ UNCHANGED reader => CutShort' \subseteq CutShort
  BY DEF LostBuilds, LostRuns, Crashed, CutShort
<1>5. /\ TypeOK /\ Workings /\ Owners /\ Inputs = 1 .. NInputs
      /\ outcome \in [Inputs -> Answers] /\ Runner \in Workers
      /\ submitted \in Nat /\ submitted <= NInputs /\ NInputs \in Nat
  <2>1. TypeOK /\ Workings /\ Owners
    BY DEF MeasureInv
  <2>2. outcome \in [Inputs -> Answers] /\ submitted \in 0 .. NInputs
    BY <2>1 DEF TypeOK, BatchTypes
  <2>3. Inputs = 1 .. NInputs /\ Runner \in Workers /\ NInputs \in Nat
    BY TypesOfInputs
  <2> QED
    BY <2>1, <2>2, <2>3
<1>6. ASSUME NEW w \in Workers, StartBuild(w) PROVE Counts
  <2>1. submitted + 1 \in Inputs /\ Send(w, Build(submitted + 1)) /\ UNCHANGED <<outcome, run_results>>
    BY <1>6 DEF StartBuild
  <2>2. Build(submitted + 1) \in Requests
    BY <2>1, TypesOfInputs
  <2>3. /\ Crashed' \subseteq Crashed /\ CutShort' \subseteq CutShort
        /\ UNCHANGED <<deaths, cuts>>
    <3>1. \E q \in Requests : Send(w, q)
      BY <2>1, <2>2
    <3> QED
      BY <1>5, <3>1, DeadAfter, Zenon
  <2> QED
    BY <1>1, <1>4, <2>1, <2>3
<1>7. ASSUME NEW w \in Workers, FinishBuild(w) PROVE Counts
  <2>1. PICK j \in 1 .. submitted : task[w] = Build(j)
    BY <1>7 DEF FinishBuild, MeasureInv, Owners
  <2>2. task[w][2] = j /\ j \in Inputs
    BY <1>5, <2>1 DEF Build
  <2>3. Recv(w) /\ task[w] # None /\ outcome' = [outcome EXCEPT ![j] = Received(w)] /\ UNCHANGED run_results
    BY <1>7, <2>2 DEF FinishBuild
  <2>4. LostBuilds' \subseteq LostBuilds \cup {j}
    BY <1>5, <2>3 DEF LostBuilds
  <2>5. CASE (Received(w) = Dead /\ proc[w] = "down") \/ reader[w] = <<Cut>>
    <3>1. /\ UNCHANGED <<deaths, cuts>>
          /\ \/ w \in Crashed /\ Crashed' \subseteq Crashed \ {w} /\ CutShort' \subseteq CutShort
             \/ w \in CutShort /\ CutShort' \subseteq CutShort \ {w} /\ Crashed' \subseteq Crashed
      BY <1>5, <2>3, <2>5, DeadReceived
    <3>2. UNCHANGED run_results
      BY <2>3
    <3> QED
      BY <1>2, <1>4, <2>4, <3>1, <3>2
  <2>6. CASE \E is \in Returns \cup {"TIMEOUT"} : Received(w) = Answer(task[w], is)
    <3>1. Received(w).is \notin {"DEAD", "CUT"}
      BY <2>6 DEF Answer, Returns
    <3>2. LostBuilds' \subseteq LostBuilds
      BY <1>5, <2>2, <2>3, <3>1 DEF LostBuilds
    <3> QED
      BY <1>1, <1>4, <1>5, <2>3, <3>2, DeadReceived
  <2> QED
    BY <1>5, <2>3, <2>5, <2>6, ReceivedIs
<1>8. ASSUME FinishRun PROVE Counts
  <2> DEFINE a == Answer(Received(Runner).of, RunError(Received(Runner)))
  <2>1. task[Runner] # None /\ task[Runner] = Run(Turn) /\ Run(Turn) # None
    BY <1>5, <1>8 DEF FinishRun, Owners, Run, None
  <2>2. Received(Runner) \in Answers
    BY <1>5, ReceivedTyped DEF TypeOK
  <2>3. a \in RunResults
    BY <2>2, AnswersTyped
  <2>4. a.of = Received(Runner).of
    BY DEF Answer
  <2>5. Recv(Runner) /\ run_results' = Append(run_results, a) /\ UNCHANGED outcome
    BY <1>8 DEF FinishRun
  <2> HIDE DEF a
  <2>6. CASE (Received(Runner) = Dead /\ proc[Runner] = "down") \/ reader[Runner] = <<Cut>>
    <3>1. /\ UNCHANGED <<deaths, cuts>>
          /\ \/ /\ Runner \in Crashed /\ Crashed' \subseteq Crashed \ {Runner}
                /\ CutShort' \subseteq CutShort
             \/ /\ Runner \in CutShort /\ CutShort' \subseteq CutShort \ {Runner}
                /\ Crashed' \subseteq Crashed
      BY <1>5, <2>5, <2>6, DeadReceived
    <3>2. LostRuns' \subseteq LostRuns \cup {Turn}
      BY <1>5, <2>3, <2>5, AppendedRun
    <3> QED
      BY <1>2, <1>4, <2>5, <3>1, <3>2
  <2>7. CASE \E is \in Returns \cup {"TIMEOUT"} : Received(Runner) = Answer(task[Runner], is)
    <3>1. Received(Runner).of = task[Runner]
      BY <2>7 DEF Answer
    <3>2. LostRuns' \subseteq LostRuns
      BY <1>5, <2>1, <2>3, <2>4, <2>5, <3>1, AppendedRun
    <3>3. /\ Crashed' \subseteq Crashed /\ CutShort' \subseteq CutShort
          /\ UNCHANGED <<deaths, cuts>>
      BY <1>5, <2>5, DeadReceived
    <3> QED
      BY <1>1, <1>4, <2>5, <3>2, <3>3
  <2> QED
    BY <1>5, <2>1, <2>5, <2>6, <2>7, ReceivedIs
<1>9. ASSUME SkipRun PROVE Counts
  <2>1. Build(Turn) \in Requests /\ Build(Turn) # None
    BY <1>9, TypesOfInputs DEF SkipRun
  <2>2. /\ run_results' = Append(run_results, Answer(Build(Turn), "BUILD_ERROR"))
        /\ UNCHANGED <<outcome, proc, reader, deaths, cuts>>
    BY <1>9 DEF SkipRun, worker
  <2>3. /\ Answer(Build(Turn), "BUILD_ERROR") \in RunResults
        /\ Answer(Build(Turn), "BUILD_ERROR").of = Build(Turn)
    BY <2>1, AnswersTyped DEF Answer
  <2>4. LostRuns' \subseteq LostRuns
    BY <1>5, <2>1, <2>2, <2>3, AppendedRun
  <2> QED
    BY <1>1, <1>4, <2>2, <2>4
<1>10. ASSUME StartRun PROVE Counts
  <2>1. Run(Turn) \in Requests /\ Send(Runner, Run(Turn)) /\ UNCHANGED <<outcome, run_results>>
    BY <1>10, TypesOfInputs DEF StartRun
  <2>2. /\ Crashed' \subseteq Crashed /\ CutShort' \subseteq CutShort
        /\ UNCHANGED <<deaths, cuts>>
    BY <1>5, <2>1, DeadAfter
  <2> QED
    BY <1>1, <1>4, <2>1, <2>2
<1>11. ASSUME FinishBuilds \/ Return PROVE Counts
  <2>1. \E W \in SUBSET Workers : KillAll(W)
    BY <1>11, TypesOfInputs DEF FinishBuilds, Return
  <2>2. /\ Crashed' \subseteq Crashed /\ CutShort' \subseteq CutShort
        /\ UNCHANGED <<deaths, cuts>>
    BY <1>5, <2>1, DeadAfter
  <2>3. UNCHANGED <<outcome, run_results>>
    BY <1>11 DEF FinishBuilds, Return
  <2> QED
    BY <1>1, <1>4, <2>2, <2>3
<1>12. ASSUME NEW w \in Workers, Die(w), UNCHANGED batch PROVE Counts
  BY <1>3, <1>4, <1>5, <1>12, DeadAfter DEF batch
<1>13. ASSUME UNCHANGED <<proc, reader, deaths, cuts, outcome, run_results>> PROVE Counts
  BY <1>1, <1>4, <1>13
<1>14. /\ \A j \in Inputs : CollectBuild(j) =>
            UNCHANGED <<proc, reader, deaths, cuts, outcome, run_results>>
       /\ PrepareFails \/ UNCHANGED vars =>
            UNCHANGED <<proc, reader, deaths, cuts, outcome, run_results>>
  BY DEF CollectBuild, PrepareFails, vars, worker, batch
<1>15. ASSUME NEW w \in Workers, ChildStep(w) \/ FunctionEnds(w), UNCHANGED batch PROVE Counts
  <2>1. UNCHANGED <<outcome, run_results>>
    BY <1>15 DEF batch
  <2>2. UNCHANGED <<proc, deaths, cuts>> /\ CutShort' \subseteq CutShort
    BY <1>5, <1>15, DeadAfter
  <2> QED
    BY <1>1, <1>4, <2>1, <2>2
<1> QED
  BY <1>6, <1>7, <1>8, <1>9, <1>10, <1>11, <1>12, <1>13, <1>14, <1>15 DEF Next

-----------------------------------------------------------------------------
LEMMA InitInv == Init => MeasureInv
<1> SUFFICES ASSUME Init PROVE MeasureInv
  OBVIOUS
<1>0. TypeOK
  BY InitTypes
<1>1. Workings
  <2>1. ASSUME NEW w \in Workers PROVE WorkerInv(w)
    <3>1. child[w] = NewChild /\ writer[w] = << >> /\ reader[w] = << >>
      BY DEF Init, InitWorker
    <3> QED
      BY <3>1 DEF WorkerInv, NewChild
  <2> QED
    BY <2>1, Zenon DEF Workings
<1>2. Owners
  BY TypesOfInputs DEF Init, Owners
<1>3. Fresh
  BY TypesOfInputs DEF Init, InitWorker, Fresh
<1>4. Results
  BY TypesOfInputs DEF Init, Results, Pending, Answer
<1>5. Crashes
  <2>1. /\ LostBuilds = {} /\ LostRuns = {} /\ Crashed = {} /\ CutShort = {}
        /\ deaths = 0 /\ cuts = 0
    BY DEF Init, InitWorker, LostBuilds, LostRuns, Crashed, CutShort, Pending, Answer
  <2> QED
    BY <2>1, FS_EmptySet DEF Crashes
<1> QED
  BY <1>0, <1>1, <1>2, <1>3, <1>4, <1>5 DEF MeasureInv

LEMMA InvStep == MeasureInv /\ [Next]_vars => MeasureInv'
BY TypeStep, WorkingsStep, OwnersStep, FreshStep, ResultsStep, CrashesStep DEF MeasureInv

LEMMA MeasureInvariant == Spec => []MeasureInv
BY InitInv, InvStep, PTL DEF Spec

LEMMA InvMatches == MeasureInv => AnswersMatch
<1> DEFINE Matches(w) ==
             /\ Len(reader[w]) <= 1
             /\ reader[w] # << >> =>
                  /\ task[w] # None
                  /\ reader[w][1].of = task[w] \/ (reader[w][1] = Cut /\ proc[w] = "down")
<1>0. (\A w \in Workers : Matches(w)) => AnswersMatch
  BY Zenon DEF AnswersMatch
<1> SUFFICES ASSUME MeasureInv, NEW w \in Workers PROVE Matches(w)
  BY <1>0
<1>1. CASE reader[w] = << >>
  <2>1. Len(reader[w]) = 0
    BY <1>1
  <2> QED
    BY <1>1, <2>1
<1>2. CASE reader[w] # << >>
  <2>1. /\ task[w] # None
        /\ \E a : /\ reader[w] = <<a>>
                  /\ (\E is : a = Answer(task[w], is)) \/ (a = Cut /\ proc[w] = "down")
    BY <1>2 DEF MeasureInv, Workings, WorkerInv
  <2>2. PICK a : /\ reader[w] = <<a>>
                 /\ (\E is : a = Answer(task[w], is)) \/ (a = Cut /\ proc[w] = "down")
    BY <2>1
  <2>3. Len(reader[w]) = 1 /\ reader[w][1] = a
    BY <2>2
  <2> QED
    BY <2>1, <2>2, <2>3 DEF Answer
<1> QED
  BY <1>1, <1>2

LEMMA InvOrders == MeasureInv => ResultsInOrder
<1> SUFFICES ASSUME MeasureInv PROVE ResultsInOrder
  OBVIOUS
<1>1. /\ DOMAIN build_results = 1 .. Len(build_results)
      /\ DOMAIN run_results = 1 .. Len(run_results)
  BY DEF MeasureInv, TypeOK, BatchTypes
<1>2. ASSUME NEW j \in 1 .. Len(build_results) PROVE build_results[j].of = Build(j)
  <2>1. j \in Inputs
    BY TypesOfInputs DEF MeasureInv, Results, TypeOK, BatchTypes
  <2> QED
    BY <2>1 DEF MeasureInv, Results
<1> QED
  BY <1>1, <1>2 DEF ResultsInOrder, MeasureInv, Results

LEMMA InvStops == MeasureInv => FinishedWorkStops
<1> SUFFICES ASSUME MeasureInv PROVE FinishedWorkStops
  OBVIOUS
<1>0. Turn = Len(run_results) + 1 /\ Len(run_results) \in Nat
      /\ DOMAIN run_results = 1 .. Len(run_results)
  BY DEF MeasureInv, TypeOK, BatchTypes, Turn
<1>1. \A r \in Requests : Executing(r) => \E w \in Workers : task[w] = r
  BY DEF MeasureInv, Workings, WorkerInv, Executing
<1>2. ASSUME NEW j \in Inputs, Executing(Build(j)) PROVE outcome[j] = Pending /\ pc # "run"
  <2>1. PICK w \in Workers : task[w] = Build(j) /\ task[w] # None
    BY <1>1, <1>2, TypesOfInputs
  <2>2. w # Runner
    BY <2>1, TypesOfInputs DEF MeasureInv, Owners
  <2>3. PICK i \in 1 .. submitted : task[w] = Build(i) /\ outcome[i] = Pending
    BY <2>1, <2>2, TypesOfInputs DEF MeasureInv, Owners
  <2>4. i \in Inputs
    BY TypesOfInputs DEF MeasureInv, TypeOK, BatchTypes
  <2> QED
    BY <2>1, <2>2, <2>3, <2>4, TypesOfInputs DEF MeasureInv, Owners
<1>3. ASSUME NEW j \in DOMAIN run_results, Executing(Run(j)) PROVE FALSE
  <2>0. j \in Inputs
    BY <1>0, TypesOfInputs DEF MeasureInv, Results
  <2>1. PICK w \in Workers : task[w] = Run(j) /\ task[w] # None
    BY <1>1, <1>3, <2>0, TypesOfInputs
  <2>2. ASSUME w # Runner PROVE FALSE
    <3>1. PICK i \in 1 .. submitted : task[w] = Build(i)
      BY <2>1, <2>2, TypesOfInputs DEF MeasureInv, Owners
    <3> QED
      BY <2>1, <3>1 DEF Build, Run
  <2>3. Turn \in Inputs /\ Run(j) = Run(Turn)
    BY <2>1, <2>2 DEF MeasureInv, Owners
  <2> QED
    BY <1>0, <2>0, <2>3, TypesOfInputs
<1> QED
  BY <1>2, <1>3 DEF FinishedWorkStops, Settled

-----------------------------------------------------------------------------
(* The pipes, the statuses and the results have the types of measure.py    *)
(* and utils.py, whatever happens to the processes.                        *)
THEOREM MeasureTyped == Spec => []TypeOK
BY MeasureInvariant, PTL DEF MeasureInv

(* recv() never returns the answer to another request than the one its     *)
(* caller waits for: main thread and timer exclude each other by the       *)
(* status, and a process that did not answer in time is killed with its    *)
(* pipes (utils.py, PopenWorker).                                          *)
THEOREM MeasureAnswers == Spec => []AnswersMatch
BY MeasureInvariant, InvMatches, PTL

(* The results of local_builder_build and local_run are, position by       *)
(* position, about the inputs they were given.                             *)
THEOREM MeasureOrder == Spec => []ResultsInOrder
BY MeasureInvariant, InvOrders, PTL

(* A build or a run whose result is known, or was given up as timed out,   *)
(* is not executing in any process.                                        *)
THEOREM MeasureStops == Spec => []FinishedWorkStops
BY MeasureInvariant, InvStops, PTL

(* A process that dies costs one result, or two if it dies in the middle   *)
(* of an answer: recv() forgets a process it finds dead, but not one whose *)
(* answer was cut short, which the next request finds dead.                *)
THEOREM MeasureCrashes == Spec => []CrashesCostLittle
<1>1. MeasureInv => CrashesCostLittle
  <2> SUFFICES ASSUME MeasureInv PROVE CrashesCostLittle
    OBVIOUS
  <2> PICK b \in Nat, r \in Nat, c \in Nat, x \in Nat, d \in Nat, k \in Nat :
        /\ b = Cardinality(LostBuilds) /\ r = Cardinality(LostRuns)
        /\ c = Cardinality(Crashed) /\ x = Cardinality(CutShort)
        /\ d = deaths /\ k = cuts /\ b + r + c + x <= d + k
    BY Numbers DEF MeasureInv, Crashes
  <2> QED
    BY DEF CrashesCostLittle, Lost
<1> QED
  BY <1>1, MeasureInvariant, PTL

-----------------------------------------------------------------------------
(* The tracker. *)

(* The values that servers offer, and those of them with one match key. *)
Values == [server : Servers, conn : Nat, key : Nat]
SameKey(v, w) == v.server = w.server /\ v.key = w.key

(* A sequence of offers has every match key of a server once. *)
OfferSeqs == {q \in Seq(Values) : \A i, j \in DOMAIN q : SameKey(q[i], q[j]) => i = j}

(* The requests are of different clients, by priority. *)
RequestSeqs == {q \in Seq(Clients) : \A i, j \in DOMAIN q :
                  /\ q[i] = q[j] => i = j
                  /\ i < j => Priority[q[i]] >= Priority[q[j]]}

ClientStates == {"start", "queued", "granted", "arrived", "session", "done", "failed", "dead"}

ServerTypes ==
  /\ serverState \in [Servers -> {"connect", "wait", "ping", "serve", "offer"}]
  /\ tracker_conn \in [Servers -> Nat] /\ opened \in [Servers -> Nat]
  /\ matchkey \in [Servers -> Nat] /\ unmatch_period_count \in [Servers -> Nat]

ClientTypes ==
  clientState \in [Clients -> ClientStates] /\ grant \in [Clients -> Values \cup {NoGrant}]

TrackerTypes ==
  /\ ServerTypes /\ ClientTypes
  /\ connections \in SUBSET (Servers \X Nat)
  /\ values \in OfferSeqs /\ requests \in RequestSeqs
  /\ pending_matchkeys \in [Servers -> SUBSET Nat]

(* A server numbers its connections and its match keys upwards, and what   *)
(* the tracker offers came over a connection that is still there.          *)
Known(v) == v.key <= matchkey[v.server]
NumbersKnown ==
  /\ \A k \in connections : k[2] <= opened[k[1]]
  /\ \A v \in Range(values) : Known(v) /\ <<v.server, v.conn>> \in connections

(* A value given to a client is not on offer, nor given to another one,    *)
(* also when the client has died on its way to the server.                 *)
GrantsApart ==
  \A c \in Clients :
    /\ Holds(c) => grant[c] # NoGrant
    /\ grant[c] # NoGrant =>
         /\ Known(grant[c])
         /\ \A v \in Range(values) : ~SameKey(v, grant[c])
         /\ \A d \in Clients \ {c} : grant[d] # NoGrant => ~SameKey(grant[c], grant[d])

(* Only a client that waits for an answer has a request, unless it died. *)
RequestsWait == \A c \in Range(requests) : clientState[c] \in {"queued", "dead"}

(* On its present connection a server offers its present match key, and    *)
(* not while it serves the client that came with it.                       *)
OffersCurrent ==
  \A s \in Servers :
    /\ Registered(s) => /\ pending_matchkeys[s] = KeysOffered(s, tracker_conn[s])
                        /\ pending_matchkeys[s] \subseteq {matchkey[s]}
    /\ serverState[s] \in {"serve", "offer"} =>
         \A v \in Range(values) : v.server = s => v.key # matchkey[s]

TrackerInv == /\ TrackerTypes /\ NumbersKnown /\ GrantsApart /\ RequestsWait
              /\ OffersCurrent /\ NoIdleDevice /\ CountMeansTaken

-----------------------------------------------------------------------------
(* Offers and requests in a row.                                           *)

LEMMA OneOfferAKey ==
  ASSUME NEW q \in OfferSeqs, NEW v \in Range(q), NEW w \in Range(q), SameKey(v, w)
  PROVE  v = w
  BY DEF OfferSeqs, Range

LEMMA OffersIn ==
  ASSUME NEW q \in OfferSeqs
  PROVE  /\ q \in Seq(Values) /\ Len(q) \in Nat /\ DOMAIN q = 1 .. Len(q)
         /\ Range(q) \subseteq Values /\ (q # << >> => Len(q) >= 1)
         /\ \A i \in 1 .. Len(q) : q[i] \in Range(q) /\ q[i] \in Values
         /\ \A v \in Range(q) : \E i \in 1 .. Len(q) : v = q[i]
<1>1. q \in Seq(Values) /\ Len(q) \in Nat /\ DOMAIN q = 1 .. Len(q)
  BY DEF OfferSeqs
<1>2. \A i \in 1 .. Len(q) : q[i] \in Values
  BY <1>1
<1> QED
  BY <1>1, <1>2 DEF Range

LEMMA FirstOffer ==
  ASSUME NEW q \in OfferSeqs, q # << >>
  PROVE  /\ Head(q) \in Values /\ Tail(q) \in OfferSeqs
         /\ Range(q) = Range(Tail(q)) \cup {Head(q)} /\ Head(q) \notin Range(Tail(q))
<1>1. q \in Seq(Values) /\ Len(q) >= 1 /\ Len(q) \in Nat /\ DOMAIN q = 1 .. Len(q)
  BY OffersIn
<1>2. /\ Tail(q) \in Seq(Values) /\ Len(Tail(q)) = Len(q) - 1
      /\ \A i \in 1 .. Len(q) - 1 : Tail(q)[i] = q[i + 1]
      /\ Head(q) = q[1] /\ q[1] \in Values /\ DOMAIN Tail(q) = 1 .. Len(q) - 1
  BY <1>1
<1>3. Tail(q) \in OfferSeqs
  <2> SUFFICES ASSUME NEW i \in 1 .. Len(q) - 1, NEW j \in 1 .. Len(q) - 1,
                      SameKey(Tail(q)[i], Tail(q)[j])
               PROVE  i = j
    BY <1>2 DEF OfferSeqs
  <2>1. i + 1 \in DOMAIN q /\ j + 1 \in DOMAIN q /\ SameKey(q[i + 1], q[j + 1])
    BY <1>1, <1>2
  <2> QED
    BY <1>1, <2>1 DEF OfferSeqs
<1>4. Range(q) \subseteq Range(Tail(q)) \cup {Head(q)}
  <2> SUFFICES ASSUME NEW i \in 1 .. Len(q) PROVE q[i] \in Range(Tail(q)) \cup {Head(q)}
    BY <1>1 DEF Range
  <2>1. CASE i = 1
    BY <1>2, <2>1
  <2>2. CASE i # 1
    <3>1. i - 1 \in DOMAIN Tail(q) /\ Tail(q)[i - 1] = q[i]
      BY <1>1, <1>2, <2>2
    <3> QED
      BY <3>1 DEF Range
  <2> QED
    BY <2>1, <2>2
<1>5. Range(Tail(q)) \cup {Head(q)} \subseteq Range(q)
  <2>1. Head(q) \in Range(q)
    BY <1>1, <1>2 DEF Range
  <2>2. ASSUME NEW i \in DOMAIN Tail(q) PROVE Tail(q)[i] \in Range(q)
    <3>1. i + 1 \in DOMAIN q /\ Tail(q)[i] = q[i + 1]
      BY <1>1, <1>2
    <3> QED
      BY <3>1 DEF Range
  <2> QED
    BY <2>1, <2>2 DEF Range
<1>6. Head(q) \notin Range(Tail(q))
  <2> SUFFICES ASSUME NEW i \in DOMAIN Tail(q), Tail(q)[i] = q[1] PROVE FALSE
    BY <1>2 DEF Range
  <2>1. i + 1 \in DOMAIN q /\ 1 \in DOMAIN q /\ q[i + 1] = q[1] /\ i + 1 # 1
    BY <1>1, <1>2
  <2>2. SameKey(q[i + 1], q[1])
    BY <2>1 DEF SameKey
  <2> QED
    BY <2>1, <2>2 DEF OfferSeqs
<1> QED
  BY <1>2, <1>3, <1>4, <1>5, <1>6

LEMMA MoreOffers ==
  ASSUME NEW q \in OfferSeqs, NEW v \in Values, \A w \in Range(q) : ~SameKey(w, v)
  PROVE  Append(q, v) \in OfferSeqs /\ Range(Append(q, v)) = Range(q) \cup {v}
<1> DEFINE a == Append(q, v)
<1>1. q \in Seq(Values) /\ Len(q) \in Nat /\ DOMAIN q = 1 .. Len(q)
  BY OffersIn
<1>2. /\ a \in Seq(Values) /\ Len(a) = Len(q) + 1 /\ DOMAIN a = 1 .. Len(q) + 1
      /\ \A i \in 1 .. Len(q) : a[i] = q[i]
      /\ a[Len(q) + 1] = v
  BY <1>1
<1> HIDE DEF a
<1>3. ASSUME NEW i \in 1 .. Len(q) PROVE q[i] \in Range(q)
  BY <1>1 DEF Range
<1>4. a \in OfferSeqs
  <2> SUFFICES ASSUME NEW i \in DOMAIN a, NEW j \in DOMAIN a, SameKey(a[i], a[j]) PROVE i = j
    BY <1>2 DEF OfferSeqs
  <2>1. ASSUME NEW l \in 1 .. Len(q) PROVE ~SameKey(a[l], v) /\ ~SameKey(v, a[l])
    BY <1>2, <1>3 DEF SameKey
  <2>2. CASE i \in 1 .. Len(q) /\ j \in 1 .. Len(q)
    BY <1>1, <1>2, <2>2 DEF OfferSeqs
  <2>3. CASE i = Len(q) + 1 /\ j \in 1 .. Len(q)
    BY <1>2, <2>1, <2>3
  <2>4. CASE j = Len(q) + 1 /\ i \in 1 .. Len(q)
    BY <1>2, <2>1, <2>4
  <2> QED
    BY <1>1, <1>2, <2>2, <2>3, <2>4
<1>5. Range(a) \subseteq Range(q) \cup {v}
  <2> SUFFICES ASSUME NEW i \in 1 .. Len(q) + 1 PROVE a[i] \in Range(q) \cup {v}
    BY <1>2 DEF Range
  <2> QED
    BY <1>1, <1>2, <1>3
<1>6. Range(q) \cup {v} \subseteq Range(a)
  <2>1. Len(q) + 1 \in DOMAIN a /\ \A i \in 1 .. Len(q) : i \in DOMAIN a
    BY <1>1, <1>2
  <2> QED
    BY <1>1, <1>2, <2>1 DEF Range
<1> QED
  BY <1>4, <1>5, <1>6 DEF a

LEMMA RequeuedOffers ==
  ASSUME NEW q \in OfferSeqs, q # << >>
  PROVE  Requeued(q) \in OfferSeqs /\ Range(Requeued(q)) = Range(q)
<1>1. /\ Head(q) \in Values /\ Tail(q) \in OfferSeqs
      /\ Range(q) = Range(Tail(q)) \cup {Head(q)} /\ Head(q) \notin Range(Tail(q))
  BY FirstOffer
<1>2. ASSUME NEW w \in Range(Tail(q)) PROVE ~SameKey(w, Head(q))
  <2>1. w \in Range(q) /\ Head(q) \in Range(q) /\ w # Head(q)
    BY <1>1
  <2> QED
    BY <2>1, OneOfferAKey
<1> QED
  BY <1>1, <1>2, MoreOffers DEF Requeued

LEMMA RequestsIn ==
  ASSUME NEW q \in RequestSeqs
  PROVE  /\ q \in Seq(Clients) /\ Len(q) \in Nat /\ DOMAIN q = 1 .. Len(q)
         /\ Range(q) \subseteq Clients
         /\ \A i \in 1 .. Len(q) : q[i] \in Range(q) /\ q[i] \in Clients
<1>1. q \in Seq(Clients) /\ Len(q) \in Nat /\ DOMAIN q = 1 .. Len(q)
  BY DEF RequestSeqs
<1>2. \A i \in 1 .. Len(q) : q[i] \in Clients
  BY <1>1
<1> QED
  BY <1>1, <1>2 DEF Range

LEMMA MoreRequests ==
  ASSUME NEW q \in RequestSeqs, NEW c \in Clients, c \notin Range(q),
         \A r \in Range(q) : Priority[r] >= Priority[c]
  PROVE  Append(q, c) \in RequestSeqs /\ Range(Append(q, c)) = Range(q) \cup {c}
<1> DEFINE a == Append(q, c)
<1>1. q \in Seq(Clients) /\ Len(q) \in Nat /\ DOMAIN q = 1 .. Len(q)
      /\ \A i \in 1 .. Len(q) : q[i] \in Range(q)
  BY RequestsIn
<1>2. /\ a \in Seq(Clients) /\ Len(a) = Len(q) + 1 /\ DOMAIN a = 1 .. Len(q) + 1
      /\ \A i \in 1 .. Len(q) : a[i] = q[i]
      /\ a[Len(q) + 1] = c
  BY <1>1
<1> HIDE DEF a
<1>3. a \in RequestSeqs
  <2> SUFFICES ASSUME NEW i \in DOMAIN a, NEW j \in DOMAIN a
               PROVE  /\ a[i] = a[j] => i = j
                      /\ i < j => Priority[a[i]] >= Priority[a[j]]
    BY <1>2 DEF RequestSeqs
  <2>1. CASE i \in 1 .. Len(q) /\ j \in 1 .. Len(q)
    BY <1>1, <1>2, <2>1 DEF RequestSeqs
  <2>2. CASE i = Len(q) + 1 /\ j \in 1 .. Len(q)
    BY <1>1, <1>2, <2>2
  <2>3. CASE j = Len(q) + 1 /\ i \in 1 .. Len(q)
    BY <1>1, <1>2, <2>3
  <2> QED
    BY <1>1, <1>2, <2>1, <2>2, <2>3
<1>4. Range(a) \subseteq Range(q) \cup {c}
  <2> SUFFICES ASSUME NEW i \in 1 .. Len(q) + 1 PROVE a[i] \in Range(q) \cup {c}
    BY <1>2 DEF Range
  <2> QED
    BY <1>1, <1>2
<1>5. Range(q) \cup {c} \subseteq Range(a)
  <2>1. Len(q) + 1 \in DOMAIN a /\ \A i \in 1 .. Len(q) : i \in DOMAIN a
    BY <1>1, <1>2
  <2> QED
    BY <1>1, <1>2, <2>1 DEF Range
<1> QED
  BY <1>3, <1>4, <1>5 DEF a

-----------------------------------------------------------------------------
(* Dealing values to requests.                                             *)

Deals == [values : OfferSeqs, requests : RequestSeqs, given : SUBSET (Clients \X Values)]

(* What the first n requests that waited leave of the offers.              *)
DealtTo(n, d, offers, waiting) ==
  /\ d \in Deals
  /\ Range(d.values) \subseteq Range(offers)
  /\ \A v \in Range(offers) : v \in Range(d.values) \/ \E g \in d.given : g[2] = v
  /\ \A g \in d.given :
       /\ g[2] \in Range(offers) /\ g[2] \notin Range(d.values)
       /\ (\E i \in 1 .. n : g[1] = waiting[i]) /\ g[1] \notin Range(d.requests)
  /\ \A g, h \in d.given : g[1] = h[1] \/ g[2] = h[2] => g = h
  /\ \A g \in d.given : \A r \in Range(d.requests) : Priority[g[1]] >= Priority[r]
  /\ \A r \in Range(d.requests) : \E i \in 1 .. n : r = waiting[i]
  /\ d.values = << >> \/ d.requests = << >>

LEMMA DealStarts ==
  ASSUME NEW offers \in OfferSeqs, NEW waiting
  PROVE  DealtTo(0, [values |-> offers, requests |-> << >>, given |-> {}], offers, waiting)
<1> DEFINE d == [values |-> offers, requests |-> << >>, given |-> {}]
<1>1. << >> \in RequestSeqs /\ Range(<< >>) = {}
  BY DEF RequestSeqs, Range
<1>2. d \in Deals
  BY <1>1 DEF Deals
<1> QED
  BY <1>1, <1>2 DEF DealtTo

LEMMA ServedKeeps ==
  ASSUME NEW offers \in OfferSeqs, NEW waiting \in RequestSeqs, NEW n \in 1 .. Len(waiting),
         NEW d, DealtTo(n - 1, d, offers, waiting), NEW heard
  PROVE  DealtTo(n, Served(d, waiting[n], heard), offers, waiting)
<1> DEFINE c == waiting[n]
           e == Served(d, c, heard)
<1>1. /\ d \in Deals /\ d.values \in OfferSeqs /\ d.requests \in RequestSeqs
      /\ d.given \in SUBSET (Clients \X Values)
  BY DEF DealtTo, Deals
<1>2. c \in Clients /\ n \in Nat /\ Len(waiting) \in Nat /\ DOMAIN waiting = 1 .. Len(waiting)
  BY RequestsIn
<1>3. \A i \in 1 .. n - 1 : waiting[i] # c /\ i \in 1 .. n
  BY <1>2 DEF RequestSeqs
<1>4. n \in 1 .. n
  BY <1>2
<1>5. c \notin Range(d.requests) /\ \A g \in d.given : g[1] # c
  BY <1>3 DEF DealtTo
<1>6. \A i \in 1 .. n - 1 : Priority[waiting[i]] >= Priority[c]
  BY <1>2 DEF RequestSeqs
<1>7. CASE d.values = << >>
  <2>1. e = [d EXCEPT !.requests = Append(d.requests, c)]
    BY <1>7 DEF Served
  <2>2. Append(d.requests, c) \in RequestSeqs
        /\ Range(Append(d.requests, c)) = Range(d.requests) \cup {c}
    <3>1. \A r \in Range(d.requests) : Priority[r] >= Priority[c]
      BY <1>6 DEF DealtTo
    <3> QED
      BY <1>1, <1>2, <1>5, <3>1, MoreRequests
  <2>3. /\ e \in Deals /\ e.values = d.values /\ e.given = d.given
        /\ e.requests = Append(d.requests, c)
    BY <1>1, <2>1, <2>2 DEF Deals
  <2> HIDE DEF e, c
  <2>4. ASSUME NEW r \in Range(e.requests) PROVE \E i \in 1 .. n : r = waiting[i]
    BY <1>3, <1>4, <2>2, <2>3 DEF DealtTo, c
  <2>5. \A g \in e.given : (\E i \in 1 .. n : g[1] = waiting[i]) /\ g[1] \notin Range(e.requests)
    BY <1>3, <1>5, <2>2, <2>3 DEF DealtTo
  <2>6. \A g \in e.given : \A r \in Range(e.requests) : Priority[g[1]] >= Priority[r]
    BY <1>6, <2>2, <2>3 DEF DealtTo
  <2>7. DealtTo(n, e, offers, waiting)
    BY <1>7, <2>3, <2>4, <2>5, <2>6 DEF DealtTo
  <2> QED
    BY <2>7 DEF e, c
<1>8. CASE d.values # << >> /\ Reached(c, heard)
  <2> DEFINE v == Head(d.values)
  <2>1. e = [d EXCEPT !.values = Tail(d.values), !.given = d.given \cup {<<c, v>>}]
    BY <1>8 DEF Served
  <2>2. /\ v \in Values /\ Tail(d.values) \in OfferSeqs
        /\ Range(d.values) = Range(Tail(d.values)) \cup {v} /\ v \notin Range(Tail(d.values))
    BY <1>1, <1>8, FirstOffer
  <2>3. /\ e \in Deals /\ e.values = Tail(d.values) /\ e.requests = d.requests
        /\ e.given = d.given \cup {<<c, v>>}
    <3> HIDE DEF e, c, v
    <3>1. d.given \cup {<<c, v>>} \in SUBSET (Clients \X Values)
      BY <1>1, <1>2, <2>2
    <3> DEFINE t == Tail(d.values)
               gs == d.given \cup {<<c, v>>}
    <3> HIDE DEF t, gs
    <3>2. e = [d EXCEPT !.values = t, !.given = gs] /\ t \in OfferSeqs
          /\ gs \in SUBSET (Clients \X Values)
      BY <2>1, <2>2, <3>1 DEF t, gs
    <3>3. e \in Deals /\ e.values = t /\ e.requests = d.requests /\ e.given = gs
      BY <1>1, <3>2 DEF Deals
    <3> QED
      BY <3>3 DEF t, gs
  <2> HIDE DEF e, c, v
  <2>4. Range(e.values) \subseteq Range(offers) /\ v \in Range(offers)
    BY <2>2, <2>3 DEF DealtTo
  <2>5. ASSUME NEW w \in Range(offers)
        PROVE  w \in Range(e.values) \/ \E g \in e.given : g[2] = w
    <3>1. CASE w \in Range(d.values)
      <4>1. <<c, v>> \in e.given /\ <<c, v>>[2] = v
        BY <2>3
      <4>2. w = v \/ w \in Range(e.values)
        BY <2>2, <2>3, <3>1
      <4> QED
        BY <4>1, <4>2
    <3>2. CASE \E g \in d.given : g[2] = w
      BY <2>3, <3>2
    <3> QED
      BY <3>1, <3>2 DEF DealtTo
  <2>6. ASSUME NEW g \in e.given
        PROVE  /\ g[2] \in Range(offers) /\ g[2] \notin Range(e.values)
               /\ (\E i \in 1 .. n : g[1] = waiting[i]) /\ g[1] \notin Range(e.requests)
    <3>1. CASE g \in d.given
      BY <1>3, <2>2, <2>3, <3>1 DEF DealtTo
    <3>2. CASE g = <<c, v>>
      <4>1. g[1] = c /\ g[2] = v /\ g[1] = waiting[n]
        BY <3>2 DEF c
      <4> QED
        BY <1>4, <1>5, <2>2, <2>3, <2>4, <4>1
    <3> QED
      BY <2>3, <3>1, <3>2
  <2>7. ASSUME NEW g \in d.given PROVE g[1] # c /\ g[2] # v
    BY <1>5, <2>2 DEF DealtTo
  <2>8. \A g, h \in e.given : g[1] = h[1] \/ g[2] = h[2] => g = h
    <3> SUFFICES ASSUME NEW g \in e.given, NEW h \in e.given, g[1] = h[1] \/ g[2] = h[2]
                 PROVE  g = h
      OBVIOUS
    <3>1. CASE g \in d.given /\ h \in d.given
      BY <3>1 DEF DealtTo
    <3>2. CASE g = <<c, v>> /\ h \in d.given
      BY <2>7, <3>2
    <3>3. CASE h = <<c, v>> /\ g \in d.given
      BY <2>7, <3>3
    <3> QED
      BY <2>3, <3>1, <3>2, <3>3
  <2>9. d.requests = << >> /\ \A r \in Range(e.requests) : \E i \in 1 .. n : r = waiting[i]
    BY <1>3, <1>8, <2>3 DEF DealtTo
  <2>10. Range(e.requests) = {}
    BY <2>3, <2>9 DEF Range
  <2>11. DealtTo(n, e, offers, waiting)
    BY <2>3, <2>4, <2>5, <2>6, <2>8, <2>9, <2>10 DEF DealtTo
  <2> QED
    BY <2>11 DEF e, c
<1>9. CASE d.values # << >> /\ ~Reached(c, heard)
  <2>1. e = [d EXCEPT !.values = Requeued(d.values)]
    BY <1>9 DEF Served
  <2>2. Requeued(d.values) \in OfferSeqs /\ Range(Requeued(d.values)) = Range(d.values)
    BY <1>1, <1>9, RequeuedOffers
  <2>3. e \in Deals /\ e.values = Requeued(d.values) /\ e.requests = d.requests /\ e.given = d.given
    BY <1>1, <2>1, <2>2 DEF Deals
  <2> HIDE DEF e, c
  <2>4. d.requests = << >> /\ \A r \in Range(e.requests) : \E i \in 1 .. n : r = waiting[i]
    BY <1>3, <1>9, <2>3 DEF DealtTo
  <2>5. \A g \in e.given : \E i \in 1 .. n : g[1] = waiting[i]
    BY <1>3, <2>3 DEF DealtTo
  <2>6. DealtTo(n, e, offers, waiting)
    BY <2>2, <2>3, <2>4, <2>5 DEF DealtTo
  <2> QED
    BY <2>6 DEF e, c
<1> QED
  BY <1>7, <1>8, <1>9

(* However many requests are popped, in _schedule.                         *)
LEMMA DealIs ==
  ASSUME NEW offers \in OfferSeqs, NEW waiting \in RequestSeqs, NEW heard
  PROVE  DealtTo(Len(waiting), Deal(offers, waiting, heard), offers, waiting)
<1> DEFINE n == Len(waiting)
           S == [values : Seq(Values), requests : Seq(Clients), given : SUBSET (Clients \X Values)]
           b == [values |-> offers, requests |-> << >>, given |-> {}]
           Go(d, l) == Served(d, waiting[l], heard)
           h == [p \in S \X (1 .. n) |-> Go(p[1], p[2])]
           Eq(f) == f = [l \in 0 .. n |-> IF l = 0 THEN b ELSE Go(f[l - 1], l)]
           dealt == CHOOSE f : Eq(f)
<1>1. n \in Nat /\ \A l \in 1 .. n : waiting[l] \in Clients
  BY RequestsIn
<1>2. Deal(offers, waiting, heard) = dealt[n]
  BY DEF Deal
<1>3. DealtTo(0, b, offers, waiting)
  BY DealStarts
<1>4. b \in S
  <2>1. offers \in Seq(Values)
    BY OffersIn
  <2> QED
    BY <2>1
<1> HIDE DEF b
<1>5. \A d \in S, l \in 1 .. n : Go(d, l) \in S
  <2> SUFFICES ASSUME NEW d \in S, NEW l \in 1 .. n PROVE Go(d, l) \in S
    OBVIOUS
  <2> DEFINE c == waiting[l]
  <2>1. c \in Clients /\ d.values \in Seq(Values) /\ d.requests \in Seq(Clients)
    BY <1>1
  <2> HIDE DEF c
  <2>2. Append(d.requests, c) \in Seq(Clients)
    BY <2>1
  <2>3. CASE d.values = << >>
    <3>1. Served(d, c, heard) = [d EXCEPT !.requests = Append(d.requests, c)]
      BY <2>3 DEF Served
    <3> QED
      BY <2>2, <3>1 DEF c
  <2>4. CASE d.values # << >>
    <3>1. Head(d.values) \in Values /\ Tail(d.values) \in Seq(Values)
      BY <2>1, <2>4
    <3>2. Requeued(d.values) \in Seq(Values)
      BY <3>1 DEF Requeued
    <3> DEFINE gs == d.given \cup {<<c, Head(d.values)>>}
    <3>3. gs \in SUBSET (Clients \X Values)
      BY <2>1, <3>1
    <3>4. \/ Served(d, c, heard) = [d EXCEPT !.values = Tail(d.values), !.given = gs]
          \/ Served(d, c, heard) = [d EXCEPT !.values = Requeued(d.values)]
      BY <2>4 DEF Served
    <3> HIDE DEF gs
    <3>5. CASE Served(d, c, heard) = [d EXCEPT !.values = Tail(d.values), !.given = gs]
      BY <3>1, <3>3, <3>5 DEF c
    <3>6. CASE Served(d, c, heard) = [d EXCEPT !.values = Requeued(d.values)]
      BY <3>2, <3>6 DEF c
    <3> QED
      BY <3>4, <3>5, <3>6
  <2> QED
    BY <2>3, <2>4
<1> HIDE DEF S, Go
<1>6. StepsTo(h, S, n)
  BY <1>5 DEF StepsTo
<1>7. PICK f : Tabulates(f, S, b, h, n)
  <2> HIDE DEF h, n
  <2> QED
    BY <1>1, <1>4, <1>6, BoundedRecursion
<1>8. f \in [0 .. n -> S]
  BY <1>7 DEF Tabulates
<1> HIDE DEF n
<1>9. \A j \in 1 .. n : j - 1 \in 0 .. n /\ j \in 0 .. n /\ j # 0
  BY <1>1
<1>10. \A j \in 0 .. n : f[j] = IF j = 0 THEN b ELSE Go(f[j - 1], j)
  <2> TAKE j \in 0 .. n
  <2>1. CASE j = 0
    BY <1>7, <2>1 DEF Tabulates
  <2>2. CASE j # 0
    <3>1. j \in 1 .. n /\ f[j - 1] \in S
      BY <1>1, <1>8, <1>9, <2>2
    <3>2. f[j] = h[<<f[j - 1], j>>]
      BY <1>7, <2>2 DEF Tabulates
    <3>3. h[<<f[j - 1], j>>] = Go(f[j - 1], j)
      BY <3>1
    <3> QED
      BY <2>2, <3>2, <3>3
  <2> QED
    BY <2>1, <2>2
<1>11. Eq(f)
  BY <1>8, <1>10
<1>12. Eq(dealt)
  <2> HIDE DEF Eq
  <2> QED
    BY <1>11
<1> HIDE DEF dealt, h
<1>13. dealt[0] = b /\ \A j \in 1 .. n : dealt[j] = Go(dealt[j - 1], j)
  <2>1. 0 \in 0 .. n
    BY <1>1
  <2> QED
    BY <1>9, <1>12, <2>1
<1> DEFINE P == {j \in Nat : DealtTo(j, dealt[j], offers, waiting)}
<1>14. 0 \in P
  BY <1>3, <1>13
<1>15. ASSUME NEW j \in 0 .. n - 1, j \in P PROVE j + 1 \in P
  <2>1. j + 1 \in 1 .. n /\ (j + 1) - 1 = j /\ j + 1 \in Nat
    BY <1>1
  <2>2. dealt[j + 1] = Go(dealt[j], j + 1)
    BY <1>13, <2>1
  <2>3. DealtTo((j + 1) - 1, dealt[j], offers, waiting)
    BY <1>15, <2>1
  <2>4. DealtTo(j + 1, Go(dealt[j], j + 1), offers, waiting)
    BY <2>1, <2>3, ServedKeeps DEF n, Go
  <2> QED
    BY <2>1, <2>2, <2>4
<1> HIDE DEF P
<1>16. 0 .. n \subseteq P
  BY <1>1, <1>14, <1>15, IntervalInduction
<1>17. DealtTo(n, dealt[n], offers, waiting)
  BY <1>1, <1>16 DEF P
<1> QED
  BY <1>2, <1>17 DEF n

(* What _schedule leaves: got are the clients it answered. *)
Scheduled(offers, waiting, pending, states, got) ==
  /\ values' \in OfferSeqs /\ Range(values') \subseteq Range(offers)
  /\ requests' \in RequestSeqs /\ Range(requests') \subseteq Range(waiting)
  /\ values' = << >> \/ requests' = << >>
  /\ pending_matchkeys' \in [Servers -> SUBSET Nat]
  /\ ClientTypes'
  /\ \A s \in Servers : \A k \in Nat :
       k \in pending_matchkeys'[s] <=>
         /\ k \in pending[s]
         /\ \A v \in Range(offers) : v.server = s /\ v.key = k => v \in Range(values')
  /\ got \in SUBSET Clients
  /\ \A c \in Clients \ got : clientState'[c] = states[c] /\ grant'[c] = grant[c]
  /\ \A c \in got : /\ states[c] = "queued" /\ clientState'[c] = "granted"
                    /\ c \notin Range(requests')
                    /\ grant'[c] \in Range(offers) /\ grant'[c] \notin Range(values')
                    /\ \A r \in Range(requests') : Priority[r] <= Priority[c]
  /\ \A c, d \in got : grant'[c] = grant'[d] => c = d

LEMMA ScheduleIs ==
  ASSUME NEW offers \in OfferSeqs, NEW waiting \in RequestSeqs,
         NEW pending \in [Servers -> SUBSET Nat], NEW states \in [Clients -> ClientStates],
         NEW heard, grant \in [Clients -> Values \cup {NoGrant}],
         Schedule(offers, waiting, pending, states, heard)
  PROVE  \E got : Scheduled(offers, waiting, pending, states, got)
<1> DEFINE d == Deal(offers, waiting, heard)
           taken == {g[2] : g \in d.given}
           got == {c \in Clients : states[c] = "queued" /\ \E g \in d.given : g[1] = c}
           Of(c) == CHOOSE g \in d.given : g[1] = c
<1>1. DealtTo(Len(waiting), d, offers, waiting)
  BY DealIs
<1>2. /\ values' = d.values /\ requests' = d.requests
      /\ pending_matchkeys' =
           [s \in Servers |-> pending[s] \ {v.key : v \in {w \in taken : w.server = s}}]
      /\ clientState' = [c \in Clients |-> IF c \in got THEN "granted" ELSE states[c]]
      /\ grant' = [c \in Clients |-> IF c \in got THEN Of(c)[2] ELSE grant[c]]
  BY DEF Schedule
<1>3. /\ d.values \in OfferSeqs /\ d.requests \in RequestSeqs
      /\ d.given \in SUBSET (Clients \X Values)
  BY <1>1 DEF DealtTo, Deals
<1> HIDE DEF d
<1>4. ASSUME NEW c \in got PROVE Of(c) \in d.given /\ Of(c)[1] = c /\ c \in Clients
  OBVIOUS
<1> HIDE DEF got, Of
<1>5. got \in SUBSET Clients
  BY DEF got
<1>6. \A v \in taken : v \in Values
  BY <1>3
<1>7. \A v \in Range(offers) : v \in Range(d.values) <=> v \notin taken
  <2> SUFFICES ASSUME NEW v \in Range(offers)
               PROVE  v \in Range(d.values) <=> v \notin taken
    OBVIOUS
  <2>1. v \in Range(d.values) \/ v \in taken
    BY <1>1 DEF DealtTo
  <2>2. v \in taken => v \notin Range(d.values)
    BY <1>1 DEF DealtTo
  <2> QED
    BY <2>1, <2>2
<1>8. taken \subseteq Range(offers)
  BY <1>1 DEF DealtTo
<1>9. /\ Range(d.values) \subseteq Range(offers) /\ (d.values = << >> \/ d.requests = << >>)
  BY <1>1 DEF DealtTo
<1>10. Range(d.requests) \subseteq Range(waiting)
  <2> SUFFICES ASSUME NEW r \in Range(d.requests) PROVE r \in Range(waiting)
    OBVIOUS
  <2>1. PICK i \in 1 .. Len(waiting) : r = waiting[i]
    BY <1>1 DEF DealtTo
  <2> QED
    BY <2>1, RequestsIn
<1>11. ASSUME NEW c \in got
       PROVE  /\ Of(c)[2] \in Values /\ Of(c)[2] \in taken /\ c \notin Range(d.requests)
              /\ \A r \in Range(d.requests) : Priority[r] <= Priority[c]
  <2>1. Of(c) \in d.given /\ Of(c)[1] = c /\ c \in Clients
    BY <1>4
  <2>2. Range(d.requests) \subseteq Clients /\ \A e \in Clients : Priority[e] \in Nat
    BY <1>3, RequestsIn, TrackerAssumption
  <2>3. \A r \in Range(d.requests) : Priority[r] <= Priority[c]
    BY <1>1, <2>1, <2>2 DEF DealtTo
  <2> QED
    BY <1>1, <1>3, <2>1, <2>3 DEF DealtTo
<1> HIDE DEF taken
<1>12. \A s \in Servers : pending_matchkeys'[s] = pending[s] \ {v.key : v \in {w \in taken : w.server = s}}
  BY <1>2
<1>13. pending_matchkeys' \in [Servers -> SUBSET Nat]
  BY <1>2
<1>14. \A s \in Servers : \A k \in Nat :
         k \in pending_matchkeys'[s] <=>
           /\ k \in pending[s]
           /\ \A v \in Range(offers) : v.server = s /\ v.key = k => v \in Range(d.values)
  <2> SUFFICES ASSUME NEW s \in Servers, NEW k \in Nat
               PROVE  k \in pending_matchkeys'[s] <=>
                        /\ k \in pending[s]
                        /\ \A v \in Range(offers) : v.server = s /\ v.key = k => v \in Range(d.values)
    OBVIOUS
  <2>1. k \in pending_matchkeys'[s] <=> k \in pending[s] /\ \A v \in taken : v.server = s => v.key # k
    BY <1>12
  <2>2. (\A v \in taken : v.server = s => v.key # k)
        <=> (\A v \in Range(offers) : v.server = s /\ v.key = k => v \in Range(d.values))
    BY <1>7, <1>8
  <2> QED
    BY <2>1, <2>2
<1>15. \A c \in Clients \ got : clientState'[c] = states[c] /\ grant'[c] = grant[c]
  BY <1>2
<1>16. \A c \in got : clientState'[c] = "granted" /\ grant'[c] = Of(c)[2] /\ states[c] = "queued"
  <2>1. \A c \in got : c \in Clients /\ states[c] = "queued"
    BY DEF got
  <2> QED
    BY <1>2, <2>1
<1>17. \A c \in got : grant'[c] \in Range(offers) /\ grant'[c] \notin Range(d.values)
  BY <1>7, <1>8, <1>11, <1>16
<1>18. \A c, e \in got : grant'[c] = grant'[e] => c = e
  <2> SUFFICES ASSUME NEW c \in got, NEW e \in got, grant'[c] = grant'[e] PROVE c = e
    OBVIOUS
  <2>1. Of(c)[2] = Of(e)[2]
    BY <1>16
  <2>2. Of(c) \in d.given /\ Of(c)[1] = c /\ Of(e) \in d.given /\ Of(e)[1] = e
    BY <1>4
  <2>3. Of(c) = Of(e)
    BY <1>1, <2>1, <2>2 DEF DealtTo
  <2> QED
    BY <2>2, <2>3
<1>19. clientState' \in [Clients -> ClientStates]
  BY <1>2 DEF ClientStates
<1>20. grant' \in [Clients -> Values \cup {NoGrant}]
  BY <1>2, <1>11
<1>21. /\ values' \in OfferSeqs /\ Range(values') \subseteq Range(offers)
       /\ requests' \in RequestSeqs /\ Range(requests') \subseteq Range(waiting)
       /\ values' = << >> \/ requests' = << >>
  BY <1>2, <1>3, <1>9, <1>10
<1>22. \A s \in Servers : \A k \in Nat :
         k \in pending_matchkeys'[s] <=>
           /\ k \in pending[s]
           /\ \A v \in Range(offers) : v.server = s /\ v.key = k => v \in Range(values')
  BY <1>2, <1>14, Zenon
<1>23. \A c \in got : /\ states[c] = "queued" /\ clientState'[c] = "granted"
                      /\ c \notin Range(requests')
                      /\ grant'[c] \in Range(offers) /\ grant'[c] \notin Range(values')
                      /\ \A r \in Range(requests') : Priority[r] <= Priority[c]
  BY <1>2, <1>11, <1>16, <1>17, Zenon
<1>24. Scheduled(offers, waiting, pending, states, got)
  BY <1>5, <1>13, <1>15, <1>18, <1>19, <1>20, <1>21, <1>22, <1>23, Zenon DEF Scheduled, ClientTypes
<1> QED
  BY <1>24

(* The insertion of a request into the heap.                               *)
LEMMA QueuedIs ==
  ASSUME requests \in RequestSeqs, NEW c \in Clients, c \notin Range(requests)
  PROVE  Queued(c) \in RequestSeqs /\ Range(Queued(c)) = Range(requests) \cup {c}
<1> DEFINE L == Len(requests)
           n == Cardinality({i \in DOMAIN requests : Priority[requests[i]] >= Priority[c]})
           q == [i \in 1 .. L + 1 |-> IF i <= n THEN requests[i]
                                      ELSE IF i = n + 1 THEN c ELSE requests[i - 1]]
<1>1. Queued(c) = q
  BY DEF Queued
<1>2. L \in Nat /\ DOMAIN requests = 1 .. L
      /\ \A i \in 1 .. L : requests[i] \in Clients /\ requests[i] \in Range(requests)
  BY RequestsIn
<1>3. n \in 0 .. L /\ \A i \in 1 .. L : i <= n <=> Priority[requests[i]] >= Priority[c]
  <2> DEFINE before == {i \in DOMAIN requests : Priority[requests[i]] >= Priority[c]}
             T == {i \in 1 .. L + 1 : i \notin before}
  <2>1. T \in SUBSET Nat /\ L + 1 \in T
    BY <1>2
  <2> HIDE DEF T
  <2>2. PICK m \in T : \A i \in T : m <= i
    BY <2>1, NatMinimum
  <2>3. m \in 1 .. L + 1 /\ m \notin before
    BY DEF T
  <2>4. \A i \in 1 .. m - 1 : i \in before
    BY <1>2, <2>2, <2>3 DEF T
  <2>5. ASSUME NEW i \in m .. L PROVE i \notin before
    <3>1. m \in 1 .. L /\ i \in 1 .. L
      BY <1>2, <2>3
    <3>2. requests[m] \in Clients /\ requests[i] \in Clients
      BY <1>2, <3>1
    <3>3. Priority[requests[m]] \in Nat /\ Priority[requests[i]] \in Nat /\ Priority[c] \in Nat
      BY <3>2, TrackerAssumption
    <3>4. Priority[requests[m]] < Priority[c]
      BY <1>2, <2>3, <3>1, <3>3
    <3>5. m = i \/ Priority[requests[m]] >= Priority[requests[i]]
      BY <1>2, <3>1 DEF RequestSeqs
    <3> QED
      BY <3>3, <3>4, <3>5
  <2>6. before = 1 .. m - 1
    <3>1. before \subseteq 1 .. L
      BY <1>2
    <3>2. \A i \in 1 .. L : i \in 1 .. m - 1 \/ i \in m .. L
      BY <1>2, <2>3
    <3> HIDE DEF before, L
    <3>3. before \subseteq 1 .. m - 1
      BY <2>5, <3>1, <3>2
    <3> QED
      BY <2>4, <3>3
  <2>7. Cardinality(1 .. m - 1) = m - 1
    BY <1>2, <2>3, FS_Interval
  <2>8. n = m - 1
    BY <2>6, <2>7
  <2> HIDE DEF n
  <2>9. \A i \in 1 .. L : i \in before <=> Priority[requests[i]] >= Priority[c]
    BY <1>2
  <2> HIDE DEF before
  <2> QED
    BY <1>2, <2>3, <2>6, <2>8, <2>9
<1> HIDE DEF n, L
<1>4. ASSUME NEW i \in 1 .. L + 1 PROVE q[i] \in Range(requests) \cup {c} /\ q[i] \in Clients
  <2>1. CASE i <= n
    BY <1>2, <1>3, <2>1
  <2>2. CASE i = n + 1
    BY <1>2, <1>3, <2>2
  <2>3. CASE i > n + 1
    <3>1. i - 1 \in 1 .. L /\ q[i] = requests[i - 1]
      BY <1>2, <1>3, <2>3
    <3> QED
      BY <1>2, <3>1
  <2> QED
    BY <1>2, <1>3, <2>1, <2>2, <2>3
<1>5. q \in Seq(Clients) /\ DOMAIN q = 1 .. L + 1 /\ L + 1 \in Nat
  <2>1. q \in [1 .. L + 1 -> Clients] /\ L + 1 \in Nat
    BY <1>2, <1>4
  <2> QED
    BY <2>1
<1>sorted. ASSUME NEW k \in 1 .. L, NEW l \in 1 .. L, k < l
           PROVE  requests[k] # requests[l] /\ Priority[requests[k]] >= Priority[requests[l]]
  BY <1>2, <1>sorted DEF RequestSeqs
<1>6. ASSUME NEW i \in 1 .. L + 1, NEW j \in 1 .. L + 1, i < j
      PROVE  q[i] # q[j] /\ Priority[q[i]] >= Priority[q[j]]
  <2>1. n \in Nat /\ L \in Nat /\ i \in Nat /\ j \in Nat /\ n <= L
        /\ Priority[c] \in Nat /\ \A l \in 1 .. L : Priority[requests[l]] \in Nat
    BY <1>2, <1>3, TrackerAssumption
  <2>2. CASE j <= n
    <3>1. q[i] = requests[i] /\ q[j] = requests[j] /\ i \in 1 .. L /\ j \in 1 .. L
      BY <1>6, <2>1, <2>2
    <3> QED
      BY <1>6, <1>sorted, <3>1
  <2>3. CASE j = n + 1
    <3>1. q[i] = requests[i] /\ q[j] = c /\ i \in 1 .. L /\ i <= n
      BY <1>6, <2>1, <2>3
    <3> QED
      BY <1>2, <1>3, <3>1
  <2>4. CASE j > n + 1 /\ i <= n
    <3>1. q[i] = requests[i] /\ q[j] = requests[j - 1] /\ i \in 1 .. L /\ j - 1 \in 1 .. L
          /\ i < j - 1
      BY <1>6, <2>1, <2>4
    <3> QED
      BY <1>sorted, <3>1
  <2>5. CASE j > n + 1 /\ i = n + 1
    <3>1. q[i] = c /\ q[j] = requests[j - 1] /\ j - 1 \in 1 .. L /\ ~(j - 1 <= n)
      BY <1>6, <2>1, <2>5
    <3> QED
      BY <1>2, <1>3, <2>1, <3>1
  <2>6. CASE i > n + 1
    <3>1. q[i] = requests[i - 1] /\ q[j] = requests[j - 1] /\ i - 1 \in 1 .. L /\ j - 1 \in 1 .. L
          /\ i - 1 < j - 1
      BY <1>6, <2>1, <2>6
    <3> QED
      BY <1>sorted, <3>1
  <2> QED
    BY <1>6, <2>1, <2>2, <2>3, <2>4, <2>5, <2>6
<1>7. Range(requests) \cup {c} \subseteq Range(q)
  <2>1. n + 1 \in 1 .. L + 1 /\ q[n + 1] = c
    BY <1>2, <1>3
  <2>2. ASSUME NEW i \in 1 .. L PROVE \E j \in 1 .. L + 1 : q[j] = requests[i]
    <3>1. CASE i <= n
      <4>1. i \in 1 .. L + 1 /\ q[i] = requests[i]
        BY <1>2, <1>3, <3>1
      <4> QED
        BY <4>1
    <3>2. CASE i > n
      <4>1. i + 1 \in 1 .. L + 1 /\ (i + 1) - 1 = i /\ ~(i + 1 <= n) /\ i + 1 # n + 1
        BY <1>2, <1>3, <3>2
      <4>2. q[i + 1] = requests[i]
        BY <4>1
      <4> QED
        BY <4>1, <4>2
    <3> QED
      BY <1>2, <1>3, <3>1, <3>2
  <2> HIDE DEF q
  <2> QED
    BY <1>2, <1>5, <2>1, <2>2 DEF Range
<1>8. Range(q) \subseteq Range(requests) \cup {c}
  <2> HIDE DEF q
  <2> QED
    BY <1>4, <1>5 DEF Range
<1>9. q \in RequestSeqs
  <2> HIDE DEF q
  <2> SUFFICES ASSUME NEW i \in 1 .. L + 1, NEW j \in 1 .. L + 1
               PROVE  /\ q[i] = q[j] => i = j
                      /\ i < j => Priority[q[i]] >= Priority[q[j]]
    BY <1>5 DEF RequestSeqs
  <2>1. (i < j \/ j < i => q[i] # q[j]) /\ (i < j => Priority[q[i]] >= Priority[q[j]])
    BY <1>6
  <2> QED
    BY <1>5, <2>1
<1> QED
  BY <1>1, <1>7, <1>8, <1>9

(* remove() takes what a connection had put, and nothing else.             *)
LEMMA WithoutConnIs ==
  ASSUME values \in OfferSeqs, NEW s, NEW e
  PROVE  /\ WithoutConn(s, e) \in OfferSeqs
         /\ Range(WithoutConn(s, e)) = {v \in Range(values) : ~(v.server = s /\ v.conn = e)}
<1> DEFINE n == Len(values)
           PutOn(v) == v.server = s /\ v.conn = e
           S == Seq(Values)
           Go(q, l) == IF PutOn(values[l]) THEN q ELSE Append(q, values[l])
           h == [p \in S \X (1 .. n) |-> Go(p[1], p[2])]
           Eq(f) == f = [l \in 0 .. n |-> IF l = 0 THEN << >>
                                          ELSE IF PutOn(values[l]) THEN f[l - 1]
                                          ELSE Append(f[l - 1], values[l])]
           kept == CHOOSE f : Eq(f)
<1>1. n \in Nat /\ DOMAIN values = 1 .. n
      /\ (\A l \in 1 .. n : values[l] \in Values /\ values[l] \in Range(values))
      /\ \A v \in Range(values) : \E l \in 1 .. n : v = values[l]
  BY OffersIn
<1>2. WithoutConn(s, e) = kept[n]
  BY DEF WithoutConn
<1>3. << >> \in S
  OBVIOUS
<1>4. \A q \in S, l \in 1 .. n : Go(q, l) \in S
  <2> SUFFICES ASSUME NEW q \in S, NEW l \in 1 .. n PROVE Go(q, l) \in S
    OBVIOUS
  <2>1. values[l] \in Values
    BY <1>1
  <2>2. Append(q, values[l]) \in S
    BY <2>1
  <2> HIDE DEF S, PutOn
  <2> QED
    BY <2>2
<1> HIDE DEF S, PutOn
<1>5. StepsTo(h, S, n)
  BY <1>4 DEF StepsTo
<1>6. PICK f : Tabulates(f, S, << >>, h, n)
  <2> HIDE DEF h, n
  <2> QED
    BY <1>1, <1>3, <1>5, BoundedRecursion
<1>7. f \in [0 .. n -> S]
  BY <1>6 DEF Tabulates
<1> HIDE DEF n
<1>8. \A j \in 1 .. n : j - 1 \in 0 .. n /\ j \in 0 .. n /\ j # 0
  BY <1>1
<1>9. \A j \in 0 .. n : f[j] = IF j = 0 THEN << >> ELSE Go(f[j - 1], j)
  <2> TAKE j \in 0 .. n
  <2>1. CASE j = 0
    BY <1>6, <2>1 DEF Tabulates
  <2>2. CASE j # 0
    <3>1. j \in 1 .. n /\ f[j - 1] \in S
      BY <1>1, <1>7, <1>8, <2>2
    <3>2. f[j] = h[<<f[j - 1], j>>]
      BY <1>6, <2>2 DEF Tabulates
    <3>3. h[<<f[j - 1], j>>] = Go(f[j - 1], j)
      <4> HIDE DEF Go
      <4> QED
        BY <3>1
    <3> HIDE DEF h, Go
    <3> QED
      BY <2>2, <3>2, <3>3
  <2> HIDE DEF Go
  <2> QED
    BY <2>1, <2>2
<1>10. Eq(f)
  BY <1>7, <1>9
<1>11. Eq(kept)
  <2> HIDE DEF Eq
  <2> QED
    BY <1>10
<1> HIDE DEF kept, h
<1>12. kept[0] = << >> /\ \A j \in 1 .. n : kept[j] = Go(kept[j - 1], j)
  <2>1. 0 \in 0 .. n
    BY <1>1
  <2> QED
    BY <1>8, <1>11, <2>1
<1> DEFINE Good(q, j) == /\ q \in OfferSeqs
                         /\ Range(q) \subseteq {values[l] : l \in 1 .. j}
                         /\ \A l \in 1 .. j : values[l] \in Range(q) <=> ~PutOn(values[l])
           P == {j \in Nat : Good(kept[j], j)}
<1>13. 0 \in P
  <2>1. Range(<< >>) = {} /\ << >> \in OfferSeqs
    BY DEF Range, OfferSeqs
  <2> QED
    BY <1>12, <2>1
<1>14. ASSUME NEW j \in 0 .. n - 1, j \in P PROVE j + 1 \in P
  <2> DEFINE q == kept[j]
             v == values[j + 1]
  <2>1. j + 1 \in 1 .. n /\ (j + 1) - 1 = j /\ j + 1 \in Nat /\ j \in Nat
    BY <1>1
  <2>2. kept[j + 1] = IF PutOn(v) THEN q ELSE Append(q, v)
    BY <1>12, <2>1
  <2>3. Good(q, j)
    BY <1>14
  <2>4. v \in Values /\ \A l \in 1 .. j : l \in 1 .. n /\ l \in 1 .. j + 1 /\ l # j + 1
    BY <1>1, <2>1
  <2>5. ASSUME NEW l \in 1 .. j PROVE ~SameKey(values[l], v)
    BY <1>1, <2>1, <2>4 DEF OfferSeqs
  <2>6. \A w \in Range(q) : ~SameKey(w, v)
    BY <2>3, <2>5
  <2>7. v \notin Range(q) /\ \A l \in 1 .. j : values[l] # v
    BY <2>5, <2>6 DEF SameKey
  <2>8. \A l \in 1 .. j + 1 : l \in 1 .. j \/ l = j + 1
    BY <2>1
  <2>9. j + 1 \in 1 .. j + 1
    BY <2>1
  <2> HIDE DEF q
  <2>10. CASE PutOn(v)
    <3>1. Good(q, j + 1)
      <4>1. Range(q) \subseteq {values[l] : l \in 1 .. j + 1}
        BY <2>3, <2>4
      <4>2. \A l \in 1 .. j + 1 : values[l] \in Range(q) <=> ~PutOn(values[l])
        BY <2>3, <2>7, <2>8, <2>10
      <4> QED
        BY <2>3, <4>1, <4>2
    <3> QED
      BY <2>1, <2>2, <2>10, <3>1
  <2>11. CASE ~PutOn(v)
    <3>1. Append(q, v) \in OfferSeqs /\ Range(Append(q, v)) = Range(q) \cup {v}
      BY <2>3, <2>4, <2>6, MoreOffers
    <3>2. Range(Append(q, v)) \subseteq {values[l] : l \in 1 .. j + 1}
      BY <2>3, <2>4, <2>9, <3>1
    <3>3. \A l \in 1 .. j + 1 : values[l] \in Range(Append(q, v)) <=> ~PutOn(values[l])
      BY <2>3, <2>7, <2>8, <2>11, <3>1
    <3>4. Good(Append(q, v), j + 1)
      BY <3>1, <3>2, <3>3
    <3> QED
      BY <2>1, <2>2, <2>11, <3>4
  <2> QED
    BY <2>10, <2>11
<1> HIDE DEF P
<1>15. 0 .. n \subseteq P
  BY <1>1, <1>13, <1>14, IntervalInduction
<1>16. Good(kept[n], n)
  BY <1>1, <1>15 DEF P
<1>17. Range(kept[n]) = {v \in Range(values) : ~PutOn(v)}
  BY <1>1, <1>16
<1> QED
  BY <1>2, <1>16, <1>17 DEF PutOn

-----------------------------------------------------------------------------
(* The invariant.                                                          *)

LEMMA ValuesHaveServers ==
  /\ NoGrant \notin Values
  /\ \A v \in Values : v.server \in Servers /\ v.conn \in Nat /\ v.key \in Nat
  BY TrackerAssumption DEF NoGrant, Values

KeysIn(q, s, e) == {v.key : v \in {w \in Range(q) : w.server = s /\ w.conn = e}}

(* What must hold of the offers, the requests, the pending keys and the    *)
(* states of the clients when _schedule starts, with the servers as they   *)
(* are after the event.                                                    *)
Ready(offers, waiting, pending, states) ==
  /\ ServerTypes' /\ connections' \in SUBSET (Servers \X Nat)
  /\ offers \in OfferSeqs /\ waiting \in RequestSeqs
  /\ pending \in [Servers -> SUBSET Nat] /\ states \in [Clients -> ClientStates]
  /\ \A k \in connections' : k[2] <= opened'[k[1]]
  /\ \A v \in Range(offers) :
       v.key <= matchkey'[v.server] /\ <<v.server, v.conn>> \in connections'
  /\ \A c \in Clients :
       /\ states[c] \in {"granted", "arrived", "session"} => grant[c] # NoGrant
       /\ grant[c] # NoGrant =>
            /\ grant[c].key <= matchkey'[grant[c].server]
            /\ \A v \in Range(offers) : ~SameKey(v, grant[c])
            /\ \A d \in Clients \ {c} : grant[d] # NoGrant => ~SameKey(grant[c], grant[d])
  /\ \A c \in Range(waiting) : states[c] \in {"queued", "dead"}
  /\ \A s \in Servers :
       /\ Registered(s)' => /\ pending[s] = KeysIn(offers, s, tracker_conn'[s])
                            /\ pending[s] \subseteq {matchkey'[s]}
                            /\ unmatch_period_count'[s] > 0 => matchkey'[s] \notin pending[s]
       /\ serverState'[s] \in {"serve", "offer"} =>
            \A v \in Range(offers) : v.server = s => v.key # matchkey'[s]

LEMMA ScheduleKeeps ==
  ASSUME grant \in [Clients -> Values \cup {NoGrant}],
         NEW offers, NEW waiting, NEW pending, NEW states, NEW heard,
         Ready(offers, waiting, pending, states),
         \A c \in Clients : states[c] = "granted" => clientState[c] = "granted",
         Schedule(offers, waiting, pending, states, heard)
  PROVE  TrackerInv' /\ ByPriority
<1>1. /\ ServerTypes' /\ connections' \in SUBSET (Servers \X Nat)
      /\ offers \in OfferSeqs /\ waiting \in RequestSeqs
      /\ pending \in [Servers -> SUBSET Nat] /\ states \in [Clients -> ClientStates]
  BY DEF Ready
<1>2. PICK got : Scheduled(offers, waiting, pending, states, got)
  BY <1>1, ScheduleIs
<1>3. /\ values' \in OfferSeqs /\ Range(values') \subseteq Range(offers)
      /\ requests' \in RequestSeqs /\ Range(requests') \subseteq Range(waiting)
      /\ pending_matchkeys' \in [Servers -> SUBSET Nat] /\ ClientTypes'
      /\ got \in SUBSET Clients
  BY <1>2 DEF Scheduled
<1>4. Range(offers) \subseteq Values
  BY <1>1, OffersIn
<1>5. TrackerTypes'
  BY <1>1, <1>3 DEF TrackerTypes
<1>6. NumbersKnown'
  <2>1. \A v \in Range(offers) :
          v.key <= matchkey'[v.server] /\ <<v.server, v.conn>> \in connections'
    BY DEF Ready
  <2>2. \A k \in connections' : k[2] <= opened'[k[1]]
    BY DEF Ready
  <2> QED
    BY <1>3, <2>1, <2>2 DEF NumbersKnown, Known
<1>7. GrantsApart'
  <2>1. ASSUME NEW c \in got
        PROVE  grant'[c] \in Range(offers) /\ grant'[c] \notin Range(values')
    BY <1>2 DEF Scheduled
  <2>2. ASSUME NEW c \in Clients, c \notin got
        PROVE  grant'[c] = grant[c] /\ clientState'[c] = states[c]
    BY <1>2, <2>2 DEF Scheduled
  <2>3. ASSUME NEW c \in Clients, grant[c] # NoGrant
        PROVE  /\ grant[c].key <= matchkey'[grant[c].server]
               /\ \A v \in Range(offers) : ~SameKey(v, grant[c])
               /\ \A d \in Clients \ {c} : grant[d] # NoGrant => ~SameKey(grant[c], grant[d])
    BY <2>3 DEF Ready
  <2>4. ASSUME NEW c \in Clients, Holds(c)' PROVE grant'[c] # NoGrant
    <3>1. CASE c \in got
      BY <1>4, <2>1, <3>1, ValuesHaveServers
    <3>2. CASE c \notin got
      <4>1. states[c] \in {"granted", "arrived", "session"}
        BY <2>2, <2>4, <3>2 DEF Holds
      <4> QED
        BY <2>2, <3>2, <4>1 DEF Ready
    <3> QED
      BY <3>1, <3>2
  <2>5. ASSUME NEW c \in Clients, grant'[c] # NoGrant
        PROVE  /\ grant'[c].key <= matchkey'[grant'[c].server]
               /\ \A v \in Range(values') : ~SameKey(v, grant'[c])
    <3>1. CASE c \in got
      <4>1. grant'[c] \in Range(offers) /\ grant'[c] \notin Range(values')
        BY <2>1, <3>1
      <4>2. ASSUME NEW v \in Range(values'), SameKey(v, grant'[c]) PROVE FALSE
        <5>1. v \in Range(offers) /\ v # grant'[c]
          BY <1>3, <4>1
        <5> QED
          BY <1>1, <4>1, <4>2, <5>1, OneOfferAKey
      <4> QED
        BY <4>1, <4>2 DEF Ready
    <3>2. CASE c \notin got
      BY <1>3, <2>2, <2>3, <2>5, <3>2
    <3> QED
      BY <3>1, <3>2
  <2>6. ASSUME NEW c \in Clients, grant'[c] # NoGrant, NEW d \in Clients, d # c,
               grant'[d] # NoGrant, SameKey(grant'[c], grant'[d])
        PROVE  FALSE
    <3>1. CASE c \in got /\ d \in got
      <4>1. grant'[c] \in Range(offers) /\ grant'[d] \in Range(offers)
        BY <2>1, <3>1
      <4>2. grant'[c] = grant'[d]
        BY <1>1, <2>6, <4>1, OneOfferAKey
      <4> QED
        BY <1>2, <2>6, <3>1, <4>2 DEF Scheduled
    <3>2. CASE c \in got /\ d \notin got
      <4>1. grant'[c] \in Range(offers) /\ grant'[d] = grant[d]
        BY <2>1, <2>2, <3>2
      <4> QED
        BY <2>3, <2>6, <4>1
    <3>3. CASE c \notin got /\ d \in got
      <4>1. grant'[d] \in Range(offers) /\ grant'[c] = grant[c]
        BY <2>1, <2>2, <3>3
      <4>2. SameKey(grant'[d], grant'[c])
        BY <2>6 DEF SameKey
      <4> QED
        BY <2>3, <2>6, <4>1, <4>2
    <3>4. CASE c \notin got /\ d \notin got
      <4>1. grant'[c] = grant[c] /\ grant'[d] = grant[d] /\ d \in Clients \ {c}
        BY <2>2, <2>6, <3>4
      <4> QED
        BY <2>3, <2>6, <4>1
    <3> QED
      BY <3>1, <3>2, <3>3, <3>4
  <2> QED
    BY <2>4, <2>5, <2>6 DEF GrantsApart, Known
<1>8. RequestsWait'
  <2>1. ASSUME NEW c \in Range(requests') PROVE clientState'[c] \in {"queued", "dead"}
    <3>1. c \in Range(waiting) /\ c \in Clients
      BY <1>1, <1>3, RequestsIn
    <3>2. c \notin got
      BY <1>2 DEF Scheduled
    <3>3. clientState'[c] = states[c]
      BY <1>2, <3>1, <3>2 DEF Scheduled
    <3> QED
      BY <3>1, <3>3 DEF Ready
  <2> QED
    BY <2>1 DEF RequestsWait
<1>9. ASSUME NEW s \in Servers, Registered(s)'
      PROVE  /\ pending_matchkeys'[s] = KeysOffered(s, tracker_conn[s])'
             /\ pending_matchkeys'[s] \subseteq pending[s]
             /\ pending_matchkeys'[s] \subseteq {matchkey'[s]}
             /\ unmatch_period_count'[s] > 0 => matchkey'[s] \notin pending_matchkeys'[s]
  <2>1. /\ pending[s] = KeysIn(offers, s, tracker_conn'[s]) /\ pending[s] \subseteq {matchkey'[s]}
        /\ unmatch_period_count'[s] > 0 => matchkey'[s] \notin pending[s]
    BY <1>9 DEF Ready
  <2>2. \A k \in Nat : k \in pending_matchkeys'[s] <=>
          /\ k \in pending[s]
          /\ \A v \in Range(offers) : v.server = s /\ v.key = k => v \in Range(values')
    BY <1>2 DEF Scheduled
  <2>3. pending_matchkeys'[s] \subseteq Nat /\ pending[s] \subseteq Nat
    BY <1>1, <1>3
  <2>4. KeysIn(values', s, tracker_conn'[s]) \subseteq Nat
    BY <1>3, <1>4, ValuesHaveServers DEF KeysIn
  <2>5. ASSUME NEW k \in Nat, k \in pending_matchkeys'[s]
        PROVE  k \in KeysIn(values', s, tracker_conn'[s])
    <3>1. PICK v \in Range(offers) : v.server = s /\ v.conn = tracker_conn'[s] /\ v.key = k
      BY <2>1, <2>2, <2>5 DEF KeysIn
    <3>2. v \in Range(values')
      BY <2>2, <2>5, <3>1
    <3> QED
      BY <3>1, <3>2 DEF KeysIn
  <2>6. ASSUME NEW k \in Nat, k \in KeysIn(values', s, tracker_conn'[s])
        PROVE  k \in pending_matchkeys'[s]
    <3>1. PICK v \in Range(values') : v.server = s /\ v.conn = tracker_conn'[s] /\ v.key = k
      BY <2>6 DEF KeysIn
    <3>2. v \in Range(offers) /\ k \in pending[s]
      BY <1>3, <2>1, <3>1 DEF KeysIn
    <3>3. ASSUME NEW w \in Range(offers), w.server = s, w.key = k PROVE w \in Range(values')
      <4>1. SameKey(v, w)
        BY <3>1, <3>3 DEF SameKey
      <4> QED
        BY <1>1, <3>1, <3>2, <4>1, OneOfferAKey
    <3> QED
      BY <2>2, <3>2, <3>3
  <2>7. pending_matchkeys'[s] = KeysIn(values', s, tracker_conn'[s])
    BY <2>3, <2>4, <2>5, <2>6
  <2>8. pending_matchkeys'[s] \subseteq pending[s]
    BY <2>2, <2>3
  <2> QED
    BY <2>1, <2>7, <2>8 DEF KeysIn, KeysOffered
<1>10. OffersCurrent'
  <2>1. ASSUME NEW s \in Servers, serverState'[s] \in {"serve", "offer"}, NEW v \in Range(values'),
               v.server = s
        PROVE  v.key # matchkey'[s]
    BY <1>3, <2>1 DEF Ready
  <2> QED
    BY <1>9, <2>1 DEF OffersCurrent
<1>11. NoIdleDevice'
  BY <1>2 DEF Scheduled, NoIdleDevice
<1>12. CountMeansTaken'
  BY <1>9 DEF CountMeansTaken
<1>13. ByPriority
  <2> SUFFICES ASSUME NEW c \in Clients, clientState[c] # "granted", clientState'[c] = "granted",
                      NEW d \in Range(requests')
               PROVE  Priority[d] <= Priority[c]
    BY DEF ByPriority
  <2>1. c \in got
    BY <1>2 DEF Scheduled
  <2> QED
    BY <1>2, <2>1 DEF Scheduled
<1> QED
  BY <1>5, <1>6, <1>7, <1>8, <1>10, <1>11, <1>12, <1>13 DEF TrackerInv

LEMMA TrackerStarts == InitTracker => TrackerInv
<1> SUFFICES ASSUME InitTracker PROVE TrackerInv
  OBVIOUS
<1>1. values = << >> /\ requests = << >> /\ Range(<< >>) = {}
  BY DEF InitTracker, Range
<1>2. << >> \in OfferSeqs /\ << >> \in RequestSeqs
  BY DEF OfferSeqs, RequestSeqs
<1>3. TrackerTypes
  BY <1>1, <1>2 DEF InitTracker, TrackerTypes, ServerTypes, ClientTypes, ClientStates
<1>4. NumbersKnown /\ RequestsWait /\ NoIdleDevice
  BY <1>1 DEF InitTracker, NumbersKnown, RequestsWait, NoIdleDevice
<1>5. GrantsApart
  BY DEF InitTracker, GrantsApart, Holds
<1>6. OffersCurrent /\ CountMeansTaken
  BY DEF InitTracker, OffersCurrent, CountMeansTaken, Registered
<1> QED
  BY <1>3, <1>4, <1>5, <1>6 DEF TrackerInv

(* A step that changes nothing at the tracker, and lets no server announce *)
(* a key: clients only give up what they were given, or die with it.       *)
LEMMA AwayFromTracker ==
  ASSUME TrackerInv, UNCHANGED <<opened, matchkey, tracker>>, ServerTypes', ClientTypes',
         \A s \in Servers : Registered(s)' =>
           /\ Registered(s) /\ tracker_conn'[s] = tracker_conn[s]
           /\ unmatch_period_count'[s] > 0 => matchkey[s] \notin KeysOffered(s, tracker_conn[s]),
         \A s \in Servers : serverState'[s] \in {"serve", "offer"} =>
           \A v \in Range(values) : v.server = s => v.key # matchkey[s],
         \A c \in Clients :
           /\ grant'[c] \in {grant[c], NoGrant}
           /\ Holds(c)' => Holds(c) /\ grant'[c] = grant[c]
           /\ clientState'[c] = "granted" => clientState[c] = "granted"
           /\ clientState[c] \in {"queued", "dead"} /\ c \in Range(requests) =>
                clientState'[c] \in {"queued", "dead"}
  PROVE  TrackerInv' /\ ByPriority
<1>1. /\ opened' = opened /\ matchkey' = matchkey /\ connections' = connections
      /\ values' = values /\ requests' = requests /\ pending_matchkeys' = pending_matchkeys
  BY DEF tracker
<1>2. TrackerTypes /\ NumbersKnown /\ GrantsApart /\ RequestsWait /\ OffersCurrent /\ NoIdleDevice
  BY DEF TrackerInv
<1>3. TrackerTypes'
  BY <1>1, <1>2 DEF TrackerTypes
<1>4. NumbersKnown'
  BY <1>1, <1>2 DEF NumbersKnown, Known
<1>5. GrantsApart'
  <2>1. ASSUME NEW c \in Clients, Holds(c)' PROVE grant'[c] # NoGrant
    BY <1>2, <2>1 DEF GrantsApart
  <2>2. ASSUME NEW c \in Clients, grant'[c] # NoGrant
        PROVE  /\ grant'[c] = grant[c] /\ Known(grant[c])
               /\ \A v \in Range(values) : ~SameKey(v, grant[c])
               /\ \A d \in Clients \ {c} : grant[d] # NoGrant => ~SameKey(grant[c], grant[d])
    BY <1>2, <2>2 DEF GrantsApart
  <2>3. ASSUME NEW c \in Clients, NEW d \in Clients \ {c}, grant'[c] # NoGrant, grant'[d] # NoGrant
        PROVE  ~SameKey(grant'[c], grant'[d])
    BY <2>2, <2>3
  <2> QED
    BY <1>1, <2>1, <2>2, <2>3 DEF GrantsApart, Known
<1>6. RequestsWait'
  <2>1. Range(requests) \subseteq Clients
    BY <1>2, RequestsIn DEF TrackerTypes
  <2> QED
    BY <1>1, <1>2, <2>1 DEF RequestsWait
<1>7. ASSUME NEW s \in Servers PROVE KeysOffered(s, tracker_conn[s])' = KeysOffered(s, tracker_conn'[s])
  BY <1>1 DEF KeysOffered
<1>8. OffersCurrent'
  BY <1>1, <1>2, <1>7 DEF OffersCurrent
<1>9. NoIdleDevice'
  BY <1>1, <1>2 DEF NoIdleDevice
<1>10. CountMeansTaken'
  BY <1>1, <1>7 DEF CountMeansTaken
<1>11. ByPriority
  BY DEF ByPriority
<1> QED
  BY <1>3, <1>4, <1>5, <1>6, <1>8, <1>9, <1>10, <1>11 DEF TrackerInv

(* A fresh key, on a connection with nothing on offer, can be put.         *)
LEMMA PutReady ==
  ASSUME TrackerInv, NEW s \in Servers, NEW e \in Nat,
         serverState' = [serverState EXCEPT ![s] = "wait"],
         matchkey' = [matchkey EXCEPT ![s] = NewKey(s)],
         unmatch_period_count' = [unmatch_period_count EXCEPT ![s] = 0],
         tracker_conn' = [tracker_conn EXCEPT ![s] = e],
         opened' \in [Servers -> Nat], connections' = connections \cup {<<s, e>>},
         \A k \in connections' : k[2] <= opened'[k[1]],
         NEW pending \in [Servers -> SUBSET Nat], pending[s] = {},
         \A t \in Servers \ {s} : pending[t] = pending_matchkeys[t],
         \A v \in Range(values) : ~(v.server = s /\ v.conn = e)
  PROVE  Ready(Append(values, [server |-> s, conn |-> e, key |-> NewKey(s)]), requests,
               [pending EXCEPT ![s] = @ \cup {NewKey(s)}], clientState)
<1> DEFINE u == [server |-> s, conn |-> e, key |-> NewKey(s)]
           q == Append(values, u)
           p == [pending EXCEPT ![s] = @ \cup {NewKey(s)}]
<1>1. TrackerTypes /\ NumbersKnown /\ GrantsApart /\ RequestsWait /\ OffersCurrent /\ CountMeansTaken
  BY DEF TrackerInv
<1>2. /\ ServerTypes /\ ClientTypes /\ connections \in SUBSET (Servers \X Nat)
      /\ values \in OfferSeqs /\ requests \in RequestSeqs
  BY <1>1 DEF TrackerTypes
<1>3. Range(values) \subseteq Values
  BY <1>2, OffersIn
<1>4. matchkey[s] \in Nat /\ NewKey(s) = matchkey[s] + 1 /\ NewKey(s) \in Nat /\ NewKey(s) > matchkey[s]
  BY <1>2 DEF NewKey, ServerTypes
<1>5. u \in Values
  BY <1>4 DEF Values
<1>6. ASSUME NEW v \in Values, Known(v) PROVE v.key <= matchkey'[v.server] /\ ~SameKey(v, u)
  <2>1. v.server \in Servers /\ v.key \in Nat /\ matchkey[v.server] \in Nat
    BY <1>2, ValuesHaveServers DEF ServerTypes
  <2>2. CASE v.server = s
    <3>1. v.key <= matchkey[s] /\ matchkey'[v.server] = NewKey(s)
      BY <1>2, <1>6, <2>2 DEF Known, ServerTypes
    <3> QED
      BY <1>4, <2>1, <3>1 DEF SameKey
  <2>3. CASE v.server # s
    <3>1. matchkey'[v.server] = matchkey[v.server]
      BY <1>2, <2>1, <2>3 DEF ServerTypes
    <3> QED
      BY <1>6, <2>3, <3>1 DEF SameKey, Known
  <2> QED
    BY <2>2, <2>3
<1>7. ASSUME NEW v \in Range(values) PROVE v \in Values /\ Known(v)
  BY <1>1, <1>3 DEF NumbersKnown
<1>8. q \in OfferSeqs /\ Range(q) = Range(values) \cup {u}
  <2>1. \A v \in Range(values) : ~SameKey(v, u)
    BY <1>6, <1>7
  <2> HIDE DEF u
  <2> QED
    BY <1>2, <1>5, <2>1, MoreOffers
<1>9. u.server = s /\ u.conn = e /\ u.key = NewKey(s) /\ matchkey'[s] = NewKey(s)
  BY <1>2 DEF ServerTypes
<1>10. ServerTypes' /\ connections' \in SUBSET (Servers \X Nat)
  BY <1>2, <1>4 DEF ServerTypes
<1>11. p \in [Servers -> SUBSET Nat] /\ p[s] = {NewKey(s)}
       /\ \A t \in Servers \ {s} : p[t] = pending_matchkeys[t]
  BY <1>4
<1> HIDE DEF u, q, p
<1>12. ASSUME NEW v \in Range(q)
       PROVE  v.key <= matchkey'[v.server] /\ <<v.server, v.conn>> \in connections'
  <2>1. CASE v \in Range(values)
    <3>1. <<v.server, v.conn>> \in connections
      BY <1>1, <2>1 DEF NumbersKnown
    <3> QED
      BY <1>6, <1>7, <2>1, <3>1
  <2>2. CASE v = u
    BY <1>4, <1>9, <2>2
  <2> QED
    BY <1>8, <2>1, <2>2
<1>13. ASSUME NEW c \in Clients
       PROVE  /\ clientState[c] \in {"granted", "arrived", "session"} => grant[c] # NoGrant
              /\ grant[c] # NoGrant =>
                   /\ grant[c].key <= matchkey'[grant[c].server]
                   /\ \A v \in Range(q) : ~SameKey(v, grant[c])
                   /\ \A d \in Clients \ {c} : grant[d] # NoGrant => ~SameKey(grant[c], grant[d])
  <2>1. clientState[c] \in {"granted", "arrived", "session"} => grant[c] # NoGrant
    BY <1>1 DEF GrantsApart, Holds
  <2>2. ASSUME grant[c] # NoGrant
        PROVE  /\ grant[c].key <= matchkey'[grant[c].server]
               /\ \A v \in Range(q) : ~SameKey(v, grant[c])
               /\ \A d \in Clients \ {c} : grant[d] # NoGrant => ~SameKey(grant[c], grant[d])
    <3>1. grant[c] \in Values /\ Known(grant[c])
      BY <1>1, <1>2, <2>2 DEF GrantsApart, ClientTypes
    <3>2. grant[c].key <= matchkey'[grant[c].server] /\ ~SameKey(u, grant[c])
      BY <1>6, <3>1 DEF SameKey
    <3>3. \A v \in Range(values) : ~SameKey(v, grant[c])
      BY <1>1, <2>2 DEF GrantsApart
    <3> QED
      BY <1>1, <1>8, <2>2, <3>2, <3>3 DEF GrantsApart
  <2> QED
    BY <2>1, <2>2
<1>14. \A c \in Range(requests) : clientState[c] \in {"queued", "dead"}
  BY <1>1 DEF RequestsWait
<1>15. ASSUME NEW t \in Servers, Registered(t)'
       PROVE  /\ p[t] = KeysIn(q, t, tracker_conn'[t])
              /\ p[t] \subseteq {matchkey'[t]}
              /\ unmatch_period_count'[t] > 0 => matchkey'[t] \notin p[t]
  <2>1. CASE t = s
    <3>1. tracker_conn'[t] = e /\ unmatch_period_count'[t] = 0
      BY <1>2, <2>1 DEF ServerTypes
    <3>2. \A v \in Range(q) : v.server = s /\ v.conn = e <=> v = u
      BY <1>8, <1>9
    <3>3. u \in Range(q) /\ u.key = NewKey(s)
      BY <1>8, <1>9
    <3>4. KeysIn(q, s, e) = {NewKey(s)}
      <4>1. {w \in Range(q) : w.server = s /\ w.conn = e} = {u}
        BY <3>2, <3>3
      <4>2. {v.key : v \in {u}} = {u.key}
        OBVIOUS
      <4> QED
        BY <3>3, <4>1, <4>2 DEF KeysIn
    <3>5. p[t] = {NewKey(s)} /\ matchkey'[t] = NewKey(s)
      BY <1>9, <1>11, <2>1
    <3>6. KeysIn(q, t, tracker_conn'[t]) = {NewKey(s)}
      BY <2>1, <3>1, <3>4
    <3>7. ~(unmatch_period_count'[t] > 0)
      BY <3>1
    <3> QED
      BY <3>5, <3>6, <3>7
  <2>2. CASE t # s
    <3>1. /\ serverState'[t] = serverState[t] /\ tracker_conn'[t] = tracker_conn[t]
          /\ matchkey'[t] = matchkey[t] /\ unmatch_period_count'[t] = unmatch_period_count[t]
          /\ p[t] = pending_matchkeys[t]
      BY <1>2, <1>11, <2>2 DEF ServerTypes
    <3>2. Registered(t)
      BY <1>15, <2>2, <3>1 DEF Registered, Connected
    <3>3. KeysIn(q, t, tracker_conn[t]) = KeysOffered(t, tracker_conn[t])
      BY <1>8, <1>9, <2>2 DEF KeysIn, KeysOffered
    <3> QED
      BY <1>1, <3>1, <3>2, <3>3 DEF OffersCurrent, CountMeansTaken
  <2> QED
    BY <2>1, <2>2
<1>16. ASSUME NEW t \in Servers, serverState'[t] \in {"serve", "offer"}, NEW v \in Range(q), v.server = t
       PROVE  v.key # matchkey'[t]
  <2>1. t # s /\ serverState[t] = serverState'[t] /\ matchkey'[t] = matchkey[t]
    BY <1>2, <1>16 DEF ServerTypes
  <2>2. v \in Range(values)
    BY <1>8, <1>9, <1>16, <2>1
  <2> QED
    BY <1>1, <1>16, <2>1, <2>2 DEF OffersCurrent
<1>17. clientState \in [Clients -> ClientStates]
  BY <1>2 DEF ClientTypes
<1>18. Ready(q, requests, p, clientState)
  BY <1>2, <1>8, <1>10, <1>11, <1>12, <1>13, <1>14, <1>15, <1>16, <1>17 DEF Ready
<1> QED
  BY <1>18 DEF u, q, p

(* _accept_conn puts a fresh key.                                          *)
LEMMA OfferKeeps ==
  ASSUME TrackerInv, NEW s \in Servers, serverState[s] # "connect", Connected(s),
         matchkey[s] \notin pending_matchkeys[s], Offer(s)
  PROVE  TrackerInv' /\ ByPriority
<1>1. TrackerTypes /\ NumbersKnown /\ OffersCurrent
  BY DEF TrackerInv
<1>2. /\ ServerTypes /\ ClientTypes /\ pending_matchkeys \in [Servers -> SUBSET Nat]
      /\ tracker_conn[s] \in Nat /\ tracker_conn \in [Servers -> Nat]
  BY <1>1 DEF TrackerTypes, ServerTypes
<1>3. Registered(s)
  BY DEF Registered
<1>4. pending_matchkeys[s] = {} /\ KeysOffered(s, tracker_conn[s]) = {}
  BY <1>1, <1>3 DEF OffersCurrent
<1>5. \A v \in Range(values) : ~(v.server = s /\ v.conn = tracker_conn[s])
  BY <1>4 DEF KeysOffered
<1>6. /\ serverState' = [serverState EXCEPT ![s] = "wait"]
      /\ matchkey' = [matchkey EXCEPT ![s] = NewKey(s)]
      /\ unmatch_period_count' = [unmatch_period_count EXCEPT ![s] = 0]
      /\ tracker_conn' = tracker_conn /\ opened' = opened /\ connections' = connections
  BY DEF Offer
<1>7. tracker_conn' = [tracker_conn EXCEPT ![s] = tracker_conn[s]]
  BY <1>2, <1>6
<1>8. connections' = connections \cup {<<s, tracker_conn[s]>>}
  BY <1>6 DEF Connected
<1>9. opened' \in [Servers -> Nat] /\ \A k \in connections' : k[2] <= opened'[k[1]]
  BY <1>1, <1>2, <1>6 DEF NumbersKnown, ServerTypes
<1>10. Ready(Append(values, [server |-> s, conn |-> tracker_conn[s], key |-> NewKey(s)]), requests,
             [pending_matchkeys EXCEPT ![s] = @ \cup {NewKey(s)}], clientState)
  BY <1>2, <1>4, <1>5, <1>6, <1>7, <1>8, <1>9, PutReady
<1>11. \E heard \in Outcomes :
         Put(s, tracker_conn[s], NewKey(s), pending_matchkeys, heard)
  BY DEF Offer
<1> QED
  BY <1>2, <1>10, <1>11, ScheduleKeeps DEF Put, ClientTypes

LEMMA RegisterKeeps ==
  ASSUME TrackerInv, NEW s \in Servers, Register(s)
  PROVE  TrackerInv' /\ ByPriority
<1> DEFINE e == opened[s] + 1
           pending == [pending_matchkeys EXCEPT ![s] = {}]
<1>1. TrackerTypes /\ NumbersKnown
  BY DEF TrackerInv
<1>2. /\ ServerTypes /\ ClientTypes /\ pending_matchkeys \in [Servers -> SUBSET Nat]
      /\ opened \in [Servers -> Nat] /\ opened[s] \in Nat
      /\ connections \in SUBSET (Servers \X Nat)
  BY <1>1 DEF TrackerTypes, ServerTypes
<1>3. /\ serverState' = [serverState EXCEPT ![s] = "wait"]
      /\ matchkey' = [matchkey EXCEPT ![s] = NewKey(s)]
      /\ unmatch_period_count' = [unmatch_period_count EXCEPT ![s] = 0]
      /\ opened' = [opened EXCEPT ![s] = e] /\ opened'[s] = e
      /\ tracker_conn' = [tracker_conn EXCEPT ![s] = e]
      /\ connections' = connections \cup {<<s, e>>}
  BY <1>2 DEF Register
<1>4. \E heard \in Outcomes : Put(s, e, NewKey(s), pending, heard)
  BY <1>3 DEF Register
<1>5. e \in Nat /\ e > opened[s] /\ opened' \in [Servers -> Nat]
  BY <1>2, <1>3
<1>6. ASSUME NEW k \in connections' PROVE k[2] <= opened'[k[1]]
  <2>1. CASE k \in connections
    <3>1. k[2] <= opened[k[1]] /\ k[1] \in Servers /\ k[2] \in Nat /\ opened[k[1]] \in Nat
      BY <1>1, <1>2, <2>1 DEF NumbersKnown
    <3>2. opened'[k[1]] >= opened[k[1]]
      BY <1>2, <1>3, <1>5, <3>1
    <3> QED
      BY <1>5, <3>1, <3>2
  <2>2. CASE k = <<s, e>>
    BY <1>3, <1>5, <2>2
  <2> QED
    BY <1>3, <2>1, <2>2
<1>7. ASSUME NEW v \in Range(values), v.server = s, v.conn = e PROVE FALSE
  <2>1. <<s, e>> \in connections
    BY <1>1, <1>7 DEF NumbersKnown
  <2>2. <<s, e>>[2] <= opened[<<s, e>>[1]]
    BY <1>1, <2>1 DEF NumbersKnown
  <2> QED
    BY <1>2, <1>5, <2>2
<1>8. /\ pending \in [Servers -> SUBSET Nat] /\ pending[s] = {}
      /\ \A t \in Servers \ {s} : pending[t] = pending_matchkeys[t]
  BY <1>2
<1> HIDE DEF e, pending
<1>9. Ready(Append(values, [server |-> s, conn |-> e, key |-> NewKey(s)]), requests,
            [pending EXCEPT ![s] = @ \cup {NewKey(s)}], clientState)
  BY <1>3, <1>5, <1>6, <1>7, <1>8, PutReady
<1> QED
  BY <1>2, <1>4, <1>9, ScheduleKeeps DEF Put, ClientTypes

(* A server that closes its connection, alone or with the client whose     *)
(* handshake broke it.                                                     *)
LEMMA DropKeeps ==
  ASSUME TrackerInv, NEW s \in Servers, Drop(s), ClientTypes', clientState' = clientState,
         \A c \in Clients : grant'[c] \in {grant[c], NoGrant},
         \A c \in Clients : Holds(c) => grant'[c] = grant[c]
  PROVE  TrackerInv' /\ ByPriority
<1>1. TrackerTypes /\ OffersCurrent /\ CountMeansTaken
  BY DEF TrackerInv
<1>2. ServerTypes
  BY <1>1 DEF TrackerTypes
<1>3. /\ serverState' = [serverState EXCEPT ![s] = "connect"]
      /\ tracker_conn' = [tracker_conn EXCEPT ![s] = 0]
      /\ UNCHANGED <<opened, matchkey, unmatch_period_count, tracker>>
  BY DEF Drop
<1>4. ServerTypes' /\ connections' = connections
  BY <1>2, <1>3 DEF ServerTypes, tracker
<1>5. ASSUME NEW t \in Servers, Registered(t)'
      PROVE  /\ Registered(t) /\ tracker_conn'[t] = tracker_conn[t]
             /\ unmatch_period_count'[t] > 0 => matchkey[t] \notin KeysOffered(t, tracker_conn[t])
  <2>1. t # s
    BY <1>2, <1>3, <1>5 DEF Registered, ServerTypes
  <2>2. serverState'[t] = serverState[t] /\ tracker_conn'[t] = tracker_conn[t]
    BY <1>2, <1>3, <2>1 DEF ServerTypes
  <2>3. Registered(t)
    BY <1>4, <1>5, <2>2 DEF Registered, Connected
  <2> QED
    BY <1>1, <1>3, <2>2, <2>3 DEF CountMeansTaken
<1>6. ASSUME NEW t \in Servers, serverState'[t] \in {"serve", "offer"}, NEW v \in Range(values),
             v.server = t
      PROVE  v.key # matchkey[t]
  <2>1. serverState[t] \in {"serve", "offer"}
    BY <1>2, <1>3, <1>6 DEF ServerTypes
  <2> QED
    BY <1>1, <1>6, <2>1 DEF OffersCurrent
<1>7. \A c \in Clients : Holds(c)' => Holds(c) /\ grant'[c] = grant[c]
  BY DEF Holds
<1> QED
  BY <1>3, <1>4, <1>5, <1>6, <1>7, AwayFromTracker

(* A step of a client, or of a server that knows its key was granted.      *)
LEMMA LocalKeeps ==
  ASSUME TrackerInv, NEW s \in Servers, UNCHANGED <<tracker_conn, opened, matchkey, tracker>>,
         ClientTypes',
         \/ UNCHANGED <<serverState, unmatch_period_count>>
         \/ /\ serverState[s] # "connect"
            /\ \E to \in {"wait", "ping", "serve", "offer"} :
                 serverState' = [serverState EXCEPT ![s] = to]
            /\ \/ unmatch_period_count' = unmatch_period_count
               \/ \E n \in Nat : /\ unmatch_period_count' = [unmatch_period_count EXCEPT ![s] = n]
                                 /\ n > 0 => matchkey[s] \notin pending_matchkeys[s]
            /\ serverState'[s] \in {"serve", "offer"} =>
                 \A v \in Range(values) : v.server = s => v.key # matchkey[s],
         \A c \in Clients :
           /\ grant'[c] \in {grant[c], NoGrant}
           /\ Holds(c)' => Holds(c) /\ grant'[c] = grant[c]
           /\ clientState'[c] = "granted" => clientState[c] = "granted"
           /\ clientState[c] \in {"queued", "dead"} /\ c \in Range(requests) =>
                clientState'[c] \in {"queued", "dead"}
  PROVE  TrackerInv' /\ ByPriority
<1>1. TrackerTypes /\ OffersCurrent /\ CountMeansTaken
  BY DEF TrackerInv
<1>2. ServerTypes
  BY <1>1 DEF TrackerTypes
<1>3. connections' = connections /\ tracker_conn' = tracker_conn
  BY DEF tracker
<1>4. /\ ServerTypes'
      /\ \A t \in Servers : /\ serverState'[t] # "connect" <=> serverState[t] # "connect"
                            /\ t # s => /\ serverState'[t] = serverState[t]
                                        /\ unmatch_period_count'[t] = unmatch_period_count[t]
  BY <1>2 DEF ServerTypes
<1>5. unmatch_period_count'[s] = unmatch_period_count[s]
      \/ (unmatch_period_count'[s] > 0 => matchkey[s] \notin pending_matchkeys[s])
  BY <1>2 DEF ServerTypes
<1>6. serverState'[s] = serverState[s]
      \/ (serverState'[s] \in {"serve", "offer"} =>
            \A v \in Range(values) : v.server = s => v.key # matchkey[s])
  BY <1>2 DEF ServerTypes
<1>7. ASSUME NEW t \in Servers, Registered(t)'
      PROVE  /\ Registered(t) /\ tracker_conn'[t] = tracker_conn[t]
             /\ unmatch_period_count'[t] > 0 => matchkey[t] \notin KeysOffered(t, tracker_conn[t])
  <2>1. Registered(t)
    BY <1>3, <1>4, <1>7 DEF Registered, Connected
  <2>2. pending_matchkeys[t] = KeysOffered(t, tracker_conn[t])
    BY <1>1, <2>1 DEF OffersCurrent
  <2>3. unmatch_period_count[t] > 0 => matchkey[t] \notin KeysOffered(t, tracker_conn[t])
    BY <1>1, <2>1 DEF CountMeansTaken
  <2> QED
    BY <1>3, <1>4, <1>5, <2>1, <2>2, <2>3
<1>8. ASSUME NEW t \in Servers, serverState'[t] \in {"serve", "offer"}, NEW v \in Range(values),
             v.server = t
      PROVE  v.key # matchkey[t]
  BY <1>1, <1>4, <1>6, <1>8 DEF OffersCurrent
<1> QED
  BY <1>4, <1>7, <1>8, AwayFromTracker

LEMMA WelcomeKeeps ==
  ASSUME TrackerInv, NEW s \in Servers, NEW c \in Clients, Welcome(s, c)
  PROVE  TrackerInv' /\ ByPriority
<1>1. TrackerTypes /\ GrantsApart
  BY DEF TrackerInv
<1>2. ServerTypes /\ ClientTypes /\ values \in OfferSeqs
  BY <1>1 DEF TrackerTypes
<1>3. /\ serverState[s] = "wait" /\ clientState[c] \in {"arrived", "dead"}
      /\ grant[c].server = s /\ grant[c].key = matchkey[s]
      /\ serverState' = [serverState EXCEPT ![s] = "serve"]
      /\ clientState' = [clientState EXCEPT ![c] = IF Gone(c) THEN "dead" ELSE "session"]
      /\ grant' = [grant EXCEPT ![c] = IF Gone(c) THEN NoGrant ELSE grant[c]]
      /\ UNCHANGED <<tracker_conn, opened, matchkey, unmatch_period_count, tracker, tries>>
  BY DEF Welcome, Arrived
<1>4. ClientTypes'
  BY <1>2, <1>3 DEF ClientTypes, ClientStates, Gone
<1>5. ASSUME NEW v \in Range(values), v.server = s PROVE v.key # matchkey[s]
  <2>1. grant[c] # NoGrant
    BY <1>3, TrackerAssumption DEF NoGrant
  <2>2. ~SameKey(v, grant[c])
    BY <1>1, <2>1 DEF GrantsApart
  <2> QED
    BY <1>3, <1>5, <2>2 DEF SameKey
<1>6. ASSUME NEW d \in Clients
      PROVE  /\ grant'[d] \in {grant[d], NoGrant}
             /\ Holds(d)' => Holds(d) /\ grant'[d] = grant[d]
             /\ clientState'[d] = "granted" => clientState[d] = "granted"
             /\ clientState[d] \in {"queued", "dead"} /\ d \in Range(requests) =>
                  clientState'[d] \in {"queued", "dead"}
  BY <1>2, <1>3 DEF ClientTypes, Holds, Gone
<1> QED
  BY <1>3, <1>4, <1>5, <1>6, LocalKeeps

(* TryAgain, of a client that arrived, is dead, or has no request.         *)
LEMMA TryAgainKeeps ==
  ASSUME TrackerInv, NEW c \in Clients, TryAgain(c), UNCHANGED <<servers, tracker>>,
         clientState[c] \in {"arrived", "dead"} \/ c \notin Range(requests)
  PROVE  TrackerInv' /\ ByPriority
<1>1. ClientTypes
  BY DEF TrackerInv, TrackerTypes
<1>2. /\ clientState' = [clientState EXCEPT ![c] = IF Gone(c) THEN "dead"
                                                   ELSE IF tries[c] < MaxRetry THEN "start"
                                                   ELSE "failed"]
      /\ grant' = [grant EXCEPT ![c] = NoGrant]
  BY DEF TryAgain
<1>3. ClientTypes'
  BY <1>1, <1>2 DEF ClientTypes, ClientStates
<1>4. ASSUME NEW d \in Clients
      PROVE  /\ grant'[d] \in {grant[d], NoGrant}
             /\ Holds(d)' => Holds(d) /\ grant'[d] = grant[d]
             /\ clientState'[d] = "granted" => clientState[d] = "granted"
             /\ clientState[d] \in {"queued", "dead"} /\ d \in Range(requests) =>
                  clientState'[d] \in {"queued", "dead"}
  BY <1>1, <1>2 DEF ClientTypes, Holds, Gone
<1>5. UNCHANGED <<serverState, unmatch_period_count, tracker_conn, opened, matchkey, tracker>>
  BY DEF servers
<1>6. CASE Servers = {}
  <2>1. ServerTypes /\ ServerTypes'
    BY <1>5 DEF TrackerInv, TrackerTypes, ServerTypes
  <2> QED
    BY <1>3, <1>4, <1>5, <1>6, <2>1, AwayFromTracker
<1>7. ASSUME NEW s \in Servers PROVE TrackerInv' /\ ByPriority
  BY <1>3, <1>4, <1>5, LocalKeeps
<1> QED
  BY <1>6, <1>7

LEMMA EndSessionKeeps ==
  ASSUME TrackerInv, NEW s \in Servers, EndSession(s)
  PROVE  TrackerInv' /\ ByPriority
<1>1. TrackerTypes /\ OffersCurrent
  BY DEF TrackerInv
<1>2. ClientTypes
  BY <1>1 DEF TrackerTypes
<1>3. /\ serverState[s] = "serve" /\ serverState' = [serverState EXCEPT ![s] = "offer"]
      /\ clientState' = [c \in Clients |-> IF c \in InSession(s) THEN "failed" ELSE clientState[c]]
      /\ grant' = [c \in Clients |-> IF c \in InSession(s) THEN NoGrant ELSE grant[c]]
      /\ UNCHANGED <<tracker_conn, opened, matchkey, unmatch_period_count, tracker, tries>>
  BY DEF EndSession
<1>4. ClientTypes'
  BY <1>2, <1>3 DEF ClientTypes, ClientStates
<1>5. \A v \in Range(values) : v.server = s => v.key # matchkey[s]
  BY <1>1, <1>3 DEF OffersCurrent
<1>6. ASSUME NEW d \in Clients
      PROVE  /\ grant'[d] \in {grant[d], NoGrant}
             /\ Holds(d)' => Holds(d) /\ grant'[d] = grant[d]
             /\ clientState'[d] = "granted" => clientState[d] = "granted"
             /\ clientState[d] \in {"queued", "dead"} /\ d \in Range(requests) =>
                  clientState'[d] \in {"queued", "dead"}
  BY <1>2, <1>3 DEF ClientTypes, Holds, InSession
<1> QED
  BY <1>3, <1>4, <1>5, <1>6, LocalKeeps

LEMMA RequestKeeps ==
  ASSUME TrackerInv, NEW c \in Clients, Request(c)
  PROVE  TrackerInv' /\ ByPriority
<1> DEFINE states == [clientState EXCEPT ![c] = "queued"]
<1>1. /\ TrackerTypes /\ NumbersKnown /\ GrantsApart /\ RequestsWait /\ OffersCurrent
      /\ CountMeansTaken
  BY DEF TrackerInv
<1>2. /\ ServerTypes /\ ClientTypes /\ connections \in SUBSET (Servers \X Nat)
      /\ values \in OfferSeqs /\ requests \in RequestSeqs
      /\ pending_matchkeys \in [Servers -> SUBSET Nat]
  BY <1>1 DEF TrackerTypes
<1>3. /\ clientState[c] = "start"
      /\ \E heard \in Outcomes : Schedule(values, Queued(c), pending_matchkeys, states, heard)
      /\ UNCHANGED <<serverState, tracker_conn, opened, matchkey, unmatch_period_count,
                     connections>>
  BY DEF Request, servers
<1>4. c \notin Range(requests)
  BY <1>1, <1>3 DEF RequestsWait
<1>5. Queued(c) \in RequestSeqs /\ Range(Queued(c)) = Range(requests) \cup {c}
  BY <1>2, <1>4, QueuedIs
<1>6. /\ states \in [Clients -> ClientStates] /\ states[c] = "queued"
      /\ \A d \in Clients : d # c => states[d] = clientState[d]
  BY <1>2 DEF ClientTypes, ClientStates
<1> HIDE DEF states
<1>7. ServerTypes' /\ connections' \in SUBSET (Servers \X Nat)
  BY <1>2, <1>3 DEF ServerTypes
<1>8. /\ \A k \in connections' : k[2] <= opened'[k[1]]
      /\ \A v \in Range(values) :
           v.key <= matchkey'[v.server] /\ <<v.server, v.conn>> \in connections'
  BY <1>1, <1>3 DEF NumbersKnown, Known
<1>9. ASSUME NEW d \in Clients
      PROVE  /\ states[d] \in {"granted", "arrived", "session"} => grant[d] # NoGrant
             /\ grant[d] # NoGrant =>
                  /\ grant[d].key <= matchkey'[grant[d].server]
                  /\ \A v \in Range(values) : ~SameKey(v, grant[d])
                  /\ \A f \in Clients \ {d} : grant[f] # NoGrant => ~SameKey(grant[d], grant[f])
  BY <1>1, <1>3, <1>6 DEF GrantsApart, Holds, Known
<1>10. ASSUME NEW d \in Range(Queued(c)) PROVE states[d] \in {"queued", "dead"}
  BY <1>1, <1>2, <1>5, <1>6, RequestsIn DEF RequestsWait
<1>11. ASSUME NEW s \in Servers
       PROVE  /\ Registered(s)' =>
                   /\ pending_matchkeys[s] = KeysIn(values, s, tracker_conn'[s])
                   /\ pending_matchkeys[s] \subseteq {matchkey'[s]}
                   /\ unmatch_period_count'[s] > 0 => matchkey'[s] \notin pending_matchkeys[s]
              /\ serverState'[s] \in {"serve", "offer"} =>
                   \A v \in Range(values) : v.server = s => v.key # matchkey'[s]
  <2>1. Registered(s)' => Registered(s)
    BY <1>3 DEF Registered, Connected
  <2> QED
    BY <1>1, <1>3, <2>1 DEF OffersCurrent, CountMeansTaken, KeysIn, KeysOffered
<1>12. Ready(values, Queued(c), pending_matchkeys, states)
  BY <1>2, <1>5, <1>6, <1>7, <1>8, <1>9, <1>10, <1>11 DEF Ready
<1>13. \A d \in Clients : states[d] = "granted" => clientState[d] = "granted"
  BY <1>6
<1> QED
  BY <1>2, <1>3, <1>12, <1>13, ScheduleKeeps DEF ClientTypes

(* The tracker takes back what was put over a connection that ends.        *)
LEMMA CloseKeeps ==
  ASSUME TrackerInv, NEW k \in connections, Close(k[1], k[2])
  PROVE  TrackerInv' /\ ByPriority
<1> DEFINE s == k[1]
           e == k[2]
           left == WithoutConn(s, e)
<1>1. /\ TrackerTypes /\ NumbersKnown /\ GrantsApart /\ RequestsWait /\ OffersCurrent
      /\ CountMeansTaken
  BY DEF TrackerInv
<1>2. /\ ServerTypes /\ ClientTypes /\ connections \in SUBSET (Servers \X Nat)
      /\ values \in OfferSeqs /\ requests \in RequestSeqs
      /\ pending_matchkeys \in [Servers -> SUBSET Nat]
  BY <1>1 DEF TrackerTypes
<1>3. /\ tracker_conn[s] # e /\ connections' = connections \ {<<s, e>>}
      /\ \E heard \in Outcomes :
           Schedule(left, requests, pending_matchkeys, clientState, heard)
      /\ UNCHANGED <<serverState, tracker_conn, opened, matchkey, unmatch_period_count>>
  BY DEF Close, servers
<1>4. /\ left \in OfferSeqs
      /\ Range(left) = {v \in Range(values) : ~(v.server = s /\ v.conn = e)}
  BY <1>2, WithoutConnIs
<1> HIDE DEF left, s, e
<1>5. ServerTypes' /\ connections' \in SUBSET (Servers \X Nat)
  BY <1>2, <1>3 DEF ServerTypes
<1>6. \A l \in connections' : l[2] <= opened'[l[1]]
  BY <1>1, <1>3 DEF NumbersKnown
<1>7. ASSUME NEW v \in Range(left)
      PROVE  v.key <= matchkey'[v.server] /\ <<v.server, v.conn>> \in connections'
  <2>1. v \in Range(values) /\ <<v.server, v.conn>> # <<s, e>>
    BY <1>4
  <2> QED
    BY <1>1, <1>3, <2>1 DEF NumbersKnown, Known
<1>8. Range(left) \subseteq Range(values)
  BY <1>4
<1>9. ASSUME NEW d \in Clients
      PROVE  /\ clientState[d] \in {"granted", "arrived", "session"} => grant[d] # NoGrant
             /\ grant[d] # NoGrant =>
                  /\ grant[d].key <= matchkey'[grant[d].server]
                  /\ \A v \in Range(left) : ~SameKey(v, grant[d])
                  /\ \A f \in Clients \ {d} : grant[f] # NoGrant => ~SameKey(grant[d], grant[f])
  BY <1>1, <1>3, <1>8 DEF GrantsApart, Holds, Known
<1>10. \A d \in Range(requests) : clientState[d] \in {"queued", "dead"}
  BY <1>1 DEF RequestsWait
<1>11. ASSUME NEW t \in Servers, Registered(t)'
       PROVE  /\ pending_matchkeys[t] = KeysIn(left, t, tracker_conn'[t])
              /\ pending_matchkeys[t] \subseteq {matchkey'[t]}
              /\ unmatch_period_count'[t] > 0 => matchkey'[t] \notin pending_matchkeys[t]
  <2>1. Registered(t)
    BY <1>3, <1>11 DEF Registered, Connected
  <2>2. \A v \in Range(values) : v.server = t /\ v.conn = tracker_conn[t] => v \in Range(left)
    BY <1>3, <1>4
  <2>3. KeysIn(left, t, tracker_conn[t]) = KeysOffered(t, tracker_conn[t])
    BY <1>8, <2>2 DEF KeysIn, KeysOffered
  <2> QED
    BY <1>1, <1>3, <2>1, <2>3 DEF OffersCurrent, CountMeansTaken
<1>12. ASSUME NEW t \in Servers, serverState'[t] \in {"serve", "offer"}, NEW v \in Range(left),
              v.server = t
       PROVE  v.key # matchkey'[t]
  BY <1>1, <1>3, <1>8, <1>12 DEF OffersCurrent
<1>13. clientState \in [Clients -> ClientStates]
  BY <1>2 DEF ClientTypes
<1>14. Ready(left, requests, pending_matchkeys, clientState)
  BY <1>2, <1>4, <1>5, <1>6, <1>7, <1>9, <1>10, <1>11, <1>12, <1>13 DEF Ready
<1> QED
  BY <1>2, <1>3, <1>14, ScheduleKeeps DEF ClientTypes

LEMMA RestartKeeps ==
  ASSUME TrackerInv, Restart
  PROVE  TrackerInv' /\ ByPriority
<1>1. TrackerTypes /\ GrantsApart /\ OffersCurrent
  BY DEF TrackerInv
<1>2. /\ connections' = {} /\ values' = << >> /\ requests' = << >>
      /\ pending_matchkeys' = [s \in Servers |-> {}]
      /\ UNCHANGED <<servers, clients>> /\ Range(<< >>) = {}
  BY DEF Restart, Range
<1>3. << >> \in OfferSeqs /\ << >> \in RequestSeqs
  BY DEF OfferSeqs, RequestSeqs
<1>4. /\ serverState' = serverState /\ tracker_conn' = tracker_conn /\ opened' = opened
      /\ matchkey' = matchkey /\ unmatch_period_count' = unmatch_period_count
      /\ clientState' = clientState /\ grant' = grant
  BY <1>2 DEF servers, clients
<1>5. ServerTypes' /\ ClientTypes'
  BY <1>1, <1>4 DEF TrackerTypes, ServerTypes, ClientTypes
<1>6. TrackerTypes'
  BY <1>2, <1>3, <1>5 DEF TrackerTypes
<1>7. NumbersKnown' /\ RequestsWait' /\ NoIdleDevice'
  BY <1>2 DEF NumbersKnown, RequestsWait, NoIdleDevice
<1>8. GrantsApart'
  BY <1>1, <1>2, <1>4 DEF GrantsApart, Holds, Known
<1>9. \A s \in Servers : ~Registered(s)'
  BY <1>2 DEF Registered, Connected
<1>10. OffersCurrent' /\ CountMeansTaken'
  BY <1>2, <1>9 DEF OffersCurrent, CountMeansTaken
<1>11. ByPriority
  BY <1>4 DEF ByPriority
<1> QED
  BY <1>6, <1>7, <1>8, <1>10, <1>11 DEF TrackerInv

-----------------------------------------------------------------------------
LEMMA ServerStepKeeps ==
  ASSUME TrackerInv, NEW s \in Servers, ServerStep(s)
  PROVE  TrackerInv' /\ ByPriority
<1>1. TrackerTypes /\ OffersCurrent
  BY DEF TrackerInv
<1>2. ServerTypes /\ ClientTypes
  BY <1>1 DEF TrackerTypes
<1>3. CASE Register(s)
  BY <1>3, RegisterKeeps
<1>4. ASSUME Drop(s), UNCHANGED clients PROVE TrackerInv' /\ ByPriority
  <2>1. ClientTypes' /\ clientState' = clientState /\ grant' = grant
    BY <1>2, <1>4 DEF clients, ClientTypes
  <2> QED
    BY <1>4, <2>1, DropKeeps
<1>5. CASE OfferAgain(s)
  <2>1. serverState[s] = "offer"
    BY <1>5 DEF OfferAgain
  <2>2. CASE Connected(s)
    <3>1. Registered(s)
      BY <2>1, <2>2 DEF Registered
    <3>2. matchkey[s] \notin KeysOffered(s, tracker_conn[s])
      BY <1>1, <2>1 DEF OffersCurrent, KeysOffered
    <3>3. matchkey[s] \notin pending_matchkeys[s]
      BY <1>1, <3>1, <3>2 DEF OffersCurrent
    <3> QED
      BY <1>5, <2>1, <2>2, <3>3, OfferKeeps DEF OfferAgain
  <2> QED
    BY <1>4, <1>5, <2>2 DEF OfferAgain
<1>6. ASSUME UNCHANGED clients
      PROVE  /\ ClientTypes'
             /\ \A c \in Clients :
                  /\ grant'[c] \in {grant[c], NoGrant}
                  /\ Holds(c)' => Holds(c) /\ grant'[c] = grant[c]
                  /\ clientState'[c] = "granted" => clientState[c] = "granted"
                  /\ clientState[c] \in {"queued", "dead"} /\ c \in Range(requests) =>
                       clientState'[c] \in {"queued", "dead"}
  BY <1>2, <1>6 DEF clients, ClientTypes, Holds
<1>7. CASE Ping(s)
  <2>1. /\ serverState[s] # "connect" /\ serverState' = [serverState EXCEPT ![s] = "ping"]
        /\ UNCHANGED <<tracker_conn, opened, matchkey, unmatch_period_count, tracker, clients>>
        /\ serverState'[s] = "ping"
    BY <1>2, <1>7 DEF Ping, ServerTypes
  <2> QED
    BY <1>6, <2>1, LocalKeeps
<1>8. CASE Pong(s)
  <2>1. serverState[s] = "ping"
    BY <1>8 DEF Pong
  <2>2. unmatch_period_count[s] \in Nat /\ Counted(s) \in Nat
        /\ (Counted(s) > 0 => matchkey[s] \notin pending_matchkeys[s])
    BY <1>2 DEF Counted, ServerTypes
  <2>3. CASE ~Connected(s)
    BY <1>4, <1>8, <2>3 DEF Pong
  <2>4. CASE Connected(s) /\ Counted(s) > Patience
    <3>1. matchkey[s] \notin pending_matchkeys[s]
      BY <2>2, <2>4, TrackerAssumption
    <3>2. Offer(s)
      BY <1>8, <2>4 DEF Pong
    <3> QED
      BY <2>1, <2>4, <3>1, <3>2, OfferKeeps
  <2>5. CASE Connected(s) /\ ~(Counted(s) > Patience)
    <3>1. /\ serverState[s] # "connect" /\ serverState' = [serverState EXCEPT ![s] = "wait"]
          /\ unmatch_period_count' = [unmatch_period_count EXCEPT ![s] = Counted(s)]
          /\ UNCHANGED <<tracker_conn, opened, matchkey, tracker, clients>>
          /\ serverState'[s] = "wait"
      BY <1>2, <1>8, <2>1, <2>5 DEF Pong, ServerTypes
    <3> QED
      BY <1>6, <2>2, <3>1, LocalKeeps
  <2> QED
    BY <2>3, <2>4, <2>5
<1>9. CASE EndSession(s)
  BY <1>9, EndSessionKeeps
<1>10. ASSUME NEW c \in Clients, Welcome(s, c) PROVE TrackerInv' /\ ByPriority
  BY <1>10, WelcomeKeeps
<1>11. ASSUME NEW c \in Clients, Mismatch(s, c) PROVE TrackerInv' /\ ByPriority
  BY <1>11, TryAgainKeeps DEF Mismatch, Arrived
<1>12. ASSUME NEW c \in Clients, Broken(s, c) PROVE TrackerInv' /\ ByPriority
  <2>1. clientState[c] = "dead" /\ clientState' = clientState /\ Drop(s)
        /\ grant' = [grant EXCEPT ![c] = NoGrant]
    BY <1>12 DEF Broken, Gone
  <2>2. ClientTypes'
    BY <1>2, <2>1 DEF ClientTypes
  <2>3. \A d \in Clients : grant'[d] \in {grant[d], NoGrant} /\ (Holds(d) => grant'[d] = grant[d])
    BY <1>2, <2>1 DEF ClientTypes, Holds
  <2> QED
    BY <2>1, <2>2, <2>3, DropKeeps
<1> QED
  BY <1>3, <1>5, <1>7, <1>8, <1>9, <1>10, <1>11, <1>12 DEF ServerStep

LEMMA ClientStepKeeps ==
  ASSUME TrackerInv, NEW c \in Clients, ClientStep(c) \/ ClientDies(c)
  PROVE  TrackerInv' /\ ByPriority
<1>1. ClientTypes /\ ServerTypes
  BY DEF TrackerInv, TrackerTypes
<1>2. CASE Request(c)
  BY <1>2, RequestKeeps
<1>3. ASSUME UNCHANGED <<servers, tracker>>, NEW state \in ClientStates,
             clientState' = [clientState EXCEPT ![c] = state],
             \/ grant' = grant
             \/ grant' = [grant EXCEPT ![c] = NoGrant] /\ state \in {"done", "dead"},
             state = "arrived" => Holds(c),
             state \in {"arrived", "done", "dead"},
             state = "dead" \/ clientState[c] \notin {"queued", "dead"}
      PROVE  TrackerInv' /\ ByPriority
  <2>1. ClientTypes'
    BY <1>1, <1>3 DEF ClientTypes
  <2>2. ASSUME NEW d \in Clients
        PROVE  /\ grant'[d] \in {grant[d], NoGrant}
               /\ Holds(d)' => Holds(d) /\ grant'[d] = grant[d]
               /\ clientState'[d] = "granted" => clientState[d] = "granted"
               /\ clientState[d] \in {"queued", "dead"} /\ d \in Range(requests) =>
                    clientState'[d] \in {"queued", "dead"}
    <3>1. CASE d = c
      BY <1>1, <1>3, <3>1 DEF ClientTypes, Holds
    <3>2. CASE d # c
      BY <1>1, <1>3, <3>2 DEF ClientTypes, Holds
    <3> QED
      BY <3>1, <3>2
  <2>3. /\ opened' = opened /\ matchkey' = matchkey /\ tracker_conn' = tracker_conn
        /\ serverState' = serverState /\ unmatch_period_count' = unmatch_period_count
        /\ connections' = connections
    BY <1>3 DEF servers, tracker
  <2>4. ServerTypes'
    BY <1>1, <2>3 DEF ServerTypes
  <2>5. ASSUME NEW s \in Servers
        PROVE  /\ Registered(s)' =>
                    /\ Registered(s) /\ tracker_conn'[s] = tracker_conn[s]
                    /\ unmatch_period_count'[s] > 0 => matchkey[s] \notin KeysOffered(s, tracker_conn[s])
               /\ serverState'[s] \in {"serve", "offer"} =>
                    \A v \in Range(values) : v.server = s => v.key # matchkey[s]
    BY <2>3 DEF TrackerInv, CountMeansTaken, OffersCurrent, Registered, Connected
  <2> QED
    BY <1>3, <2>1, <2>2, <2>3, <2>4, <2>5, AwayFromTracker
<1>4. CASE Arrive(c)
  <2>1. Holds(c) /\ "arrived" \in ClientStates
    BY <1>4 DEF Arrive, Holds, ClientStates
  <2> QED
    BY <1>3, <1>4, <2>1 DEF Arrive
<1>5. CASE Finish(c)
  <2>1. "done" \in ClientStates
    BY DEF ClientStates
  <2> QED
    BY <1>3, <1>5, <2>1 DEF Finish
<1>6. CASE TrackerLost(c)
  BY <1>6, TryAgainKeeps DEF TrackerLost
<1>7. CASE ClientDies(c)
  <2>1. "dead" \in ClientStates
    BY DEF ClientStates
  <2>2. grant' = grant \/ grant' = [grant EXCEPT ![c] = NoGrant]
    BY <1>1, <1>7 DEF ClientDies, ClientTypes
  <2> QED
    BY <1>3, <1>7, <2>1, <2>2 DEF ClientDies
<1> QED
  BY <1>2, <1>4, <1>5, <1>6, <1>7 DEF ClientStep

LEMMA TrackerInvStep == TrackerInv /\ [TrackerNext]_trackerVars => TrackerInv' /\ ByPriority
<1> SUFFICES ASSUME TrackerInv, [TrackerNext]_trackerVars PROVE TrackerInv' /\ ByPriority
  OBVIOUS
<1>1. CASE \E s \in Servers : ServerStep(s)
  BY <1>1, ServerStepKeeps
<1>2. CASE \E c \in Clients : ClientStep(c) \/ ClientDies(c)
  BY <1>2, ClientStepKeeps
<1>3. CASE \E k \in connections : Close(k[1], k[2])
  BY <1>3, CloseKeeps
<1>4. CASE Restart
  BY <1>4, RestartKeeps
<1>5. CASE UNCHANGED trackerVars
  BY <1>5 DEF trackerVars, servers, tracker, clients, TrackerInv, TrackerTypes, ServerTypes,
              ClientTypes, NumbersKnown, Known, GrantsApart, Holds, RequestsWait, OffersCurrent,
              Registered, Connected, KeysOffered, NoIdleDevice, CountMeansTaken, ByPriority
<1> QED
  BY <1>1, <1>2, <1>3, <1>4, <1>5 DEF TrackerNext

(* The invariant holds in every reachable state of the tracker, its        *)
(* servers and its clients.                                                *)
THEOREM TrackerInvariant == TrackerSpec => []TrackerInv
<1>1. InitTracker => TrackerInv
  BY TrackerStarts
<1>2. TrackerInv /\ [TrackerNext]_trackerVars => TrackerInv'
  BY TrackerInvStep
<1> QED
  BY <1>1, <1>2, PTL DEF TrackerSpec

(* However many servers and clients there are, and whoever dies or drops   *)
(* its connection: what GET_PENDING_MATCHKEYS answers a server is what the *)
(* tracker still has on offer for it, one match key at most, and on_close  *)
(* leaves nothing on offer that came over the connection.                  *)
THEOREM TrackerOffersArePending == TrackerSpec => []OffersArePending
<1>1. TrackerInv => OffersArePending
  <2> SUFFICES ASSUME TrackerInv PROVE OffersArePending
    OBVIOUS
  <2>1. NumbersKnown /\ OffersCurrent
    BY DEF TrackerInv
  <2>2. ASSUME NEW s \in Servers, Registered(s)
        PROVE  /\ pending_matchkeys[s] = KeysOffered(s, tracker_conn[s])
               /\ Cardinality(pending_matchkeys[s]) <= 1
    <3>1. pending_matchkeys[s] \subseteq {matchkey[s]}
      BY <2>1, <2>2 DEF OffersCurrent
    <3>2. IsFiniteSet({matchkey[s]}) /\ Cardinality({matchkey[s]}) = 1
      BY FS_Singleton
    <3>3. Cardinality(pending_matchkeys[s]) <= Cardinality({matchkey[s]})
      BY <3>1, <3>2, FS_Subset
    <3> QED
      BY <2>1, <2>2, <3>2, <3>3 DEF OffersCurrent
  <2> QED
    BY <2>1, <2>2 DEF NumbersKnown, OffersArePending
<1> QED
  BY <1>1, TrackerInvariant, PTL

(* _schedule gives every match key to one client, and a server never puts  *)
(* a key again, also when it replaced one whose client is only slow.       *)
THEOREM TrackerGrantsOnce == TrackerSpec => []KeysGrantedOnce
<1>1. TrackerInv => KeysGrantedOnce
  <2> SUFFICES ASSUME TrackerInv, NEW c \in Clients, Holds(c)
               PROVE  /\ grant[c] \notin Range(values)
                      /\ \A d \in Clients \ {c} : Holds(d) => grant[c] # grant[d]
    BY DEF KeysGrantedOnce
  <2>1. \A d \in Clients : Holds(d) => grant[d] # NoGrant
    BY DEF TrackerInv, GrantsApart
  <2>2. /\ \A v \in Range(values) : ~SameKey(v, grant[c])
        /\ \A d \in Clients \ {c} : grant[d] # NoGrant => ~SameKey(grant[c], grant[d])
    BY <2>1 DEF TrackerInv, GrantsApart
  <2> QED
    BY <2>1, <2>2 DEF SameKey
<1> QED
  BY <1>1, TrackerInvariant, PTL

(* The loop of _schedule, run at every put(), request() and remove(), never *)
(* leaves a free device beside a waiting client, whatever priorities the   *)
(* requests have and whichever clients could not be reached.               *)
THEOREM TrackerNeverIdles == TrackerSpec => []NoIdleDevice
<1>1. TrackerInv => NoIdleDevice
  BY DEF TrackerInv
<1> QED
  BY <1>1, TrackerInvariant, PTL

(* unmatch_period_count of _accept_conn counts only while the key of the   *)
(* server is not on offer: a new key never replaces one still on offer.    *)
THEOREM TrackerCountsTaken == TrackerSpec => []CountMeansTaken
<1>1. TrackerInv => CountMeansTaken
  BY DEF TrackerInv
<1> QED
  BY <1>1, TrackerInvariant, PTL

(* Whenever PriorityScheduler answers a client, no client of a higher      *)
(* priority is left waiting: the request it popped was the first of the    *)
(* heap, and those popped before it could not be answered.                 *)
THEOREM TrackerFollowsPriority == TrackerSpec => GrantsFollowPriority
<1>1. TrackerInv /\ [TrackerNext]_trackerVars => [ByPriority]_trackerVars
  BY TrackerInvStep
<1> QED
  BY <1>1, TrackerInvariant, PTL DEF TrackerSpec, GrantsFollowPriority
=============================================================================
