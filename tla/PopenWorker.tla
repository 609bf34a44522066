----------------------------- MODULE PopenWorker -----------------------------
(***************************************************************************)
(* tvm.contrib.popen_pool.PopenWorker and the process behind it,           *)
(* tvm.exec.popen_worker: a channel on which a caller sends a function to  *)
(* a child process and receives what became of it.                         *)
(*                                                                         *)
(* The child's main thread runs the function while a timer thread waits to *)
(* answer in its place; a lock lets only one of them answer.  The process  *)
(* may die at any moment, also in the middle of an answer, and a function  *)
(* may run for ever.                                                       *)
(***************************************************************************)
EXTENDS Integers, Sequences

CONSTANTS
  Workers,    \* PopenWorker objects
  Requests    \* functions to run, each sent at most once

VARIABLES
  proc,       \* _proc of each worker: "none", "up", or "down" when it has died
  child,      \* [phase, request, ret, armed, fired] of that process
  writer,     \* the pipe to the child
  reader,     \* the pipe from the child
  status,     \* TimeoutStatus of each request
  deaths,     \* processes that died by themselves (history)
  cuts        \* those that died in the middle of an answer (history)

worker == <<proc, child, writer, reader, status, deaths, cuts>>

None == <<"none", 0>>   \* no request

(* A process that waits for its first request.  armed and fired are the    *)
(* requests whose timers still wait, or have run out and want the lock.    *)
NewChild == [phase |-> "read", request |-> None, ret |-> "none", armed |-> {}, fired |-> {}]

Answer(r, is) == [of |-> r, is |-> is]
Dead == Answer(None, "DEAD")   \* ChildProcessError
Cut == Answer(None, "CUT")     \* any other exception of unpacking an answer cut short

InitWorker ==
  /\ proc = [w \in Workers |-> "none"]
  /\ child = [w \in Workers |-> NewChild]
  /\ writer = [w \in Workers |-> << >>]
  /\ reader = [w \in Workers |-> << >>]
  /\ status = [r \in Requests |-> "RUNNING"]
  /\ deaths = 0 /\ cuts = 0

-----------------------------------------------------------------------------
(* The caller's side.                                                      *)

(* send(): a process is started if there is none.  Writing to a process    *)
(* that has died is an IOError, which is ignored.                          *)
Send(w, r) ==
  /\ proc' = [proc EXCEPT ![w] = IF @ = "none" THEN "up" ELSE @]
  /\ writer' = [writer EXCEPT ![w] = IF proc[w] = "down" THEN @ ELSE Append(@, r)]
  /\ UNCHANGED <<child, reader, status, deaths, cuts>>

(* kill() on every worker of a set, with their pipes. *)
KillAll(W) ==
  /\ proc' = [w \in Workers |-> IF w \in W THEN "none" ELSE proc[w]]
  /\ child' = [w \in Workers |-> IF w \in W THEN NewChild ELSE child[w]]
  /\ writer' = [w \in Workers |-> IF w \in W THEN << >> ELSE writer[w]]
  /\ reader' = [w \in Workers |-> IF w \in W THEN << >> ELSE reader[w]]
  /\ UNCHANGED <<status, deaths, cuts>>

(* recv() blocks until there is an answer, or the end of the pipe, which   *)
(* may also come in the middle of an answer.                               *)
Received(w) == IF reader[w] # << >> THEN Head(reader[w]) ELSE Dead

(* Mutants of Fatal: the process survives a timeout; a dead process is not *)
(* forgotten.                                                              *)
FatalOnDeath(answer) == answer.is = "DEAD"
FatalOnTimeout(answer) == answer.is = "TIMEOUT"

(* The answers after which the process is killed, to be started anew.  An  *)
(* answer cut short is no IOError, so the dead process is not forgotten.   *)
Fatal(answer) == answer.is \in {"TIMEOUT", "DEAD"}

Recv(w) ==
  /\ reader[w] # << >> \/ proc[w] = "down"
  /\ IF Fatal(Received(w))
     THEN KillAll({w})
     ELSE /\ reader' = [reader EXCEPT ![w] = IF @ = << >> THEN @ ELSE Tail(@)]
          /\ UNCHANGED <<proc, child, writer, status, deaths, cuts>>

-----------------------------------------------------------------------------
(* The child's side.                                                       *)

Read(w) ==
  /\ proc[w] = "up" /\ child[w].phase = "read" /\ writer[w] # << >>
  /\ LET r == Head(writer[w]) IN
       child' = [child EXCEPT ![w].phase = "run", ![w].request = r,
                              ![w].armed = @ \cup {r}]
  /\ writer' = [writer EXCEPT ![w] = Tail(@)]
  /\ UNCHANGED <<proc, reader, status, deaths, cuts>>

(* The function returns or raises, and the main thread cancels the timer,  *)
(* which has no effect on one that has run out already.                    *)
RunEnds(w, ret) ==
  /\ proc[w] = "up" /\ child[w].phase = "run"
  /\ child' = [child EXCEPT ![w].phase = "answer", ![w].ret = ret,
                            ![w].armed = @ \ {child[w].request}]
  /\ UNCHANGED <<proc, writer, reader, status, deaths, cuts>>

(* Under the lock: answer, unless the timer has. *)
MainAnswers(w) ==
  LET r == child[w].request IN
  /\ proc[w] = "up" /\ child[w].phase = "answer"
  /\ IF status[r] = "RUNNING"
     THEN /\ reader' = [reader EXCEPT ![w] = Append(@, Answer(r, child[w].ret))]
          /\ status' = [status EXCEPT ![r] = "COMPLETE"]
     ELSE UNCHANGED <<reader, status>>
  /\ child' = [child EXCEPT ![w].phase = "read", ![w].request = None, ![w].ret = "none"]
  /\ UNCHANGED <<proc, writer, deaths, cuts>>

TimerFires(w, r) ==
  /\ proc[w] = "up" /\ r \in child[w].armed
  /\ child' = [child EXCEPT ![w].armed = @ \ {r}, ![w].fired = @ \cup {r}]
  /\ UNCHANGED <<proc, writer, reader, status, deaths, cuts>>

(* Mutant of TimerAnswers: the status is not looked at. *)
TimerAnswersAnyway(w, r) ==
  /\ proc[w] = "up" /\ r \in child[w].fired
  /\ reader' = [reader EXCEPT ![w] = Append(@, Answer(r, "TIMEOUT"))]
  /\ status' = [status EXCEPT ![r] = "TIMEOUT"]
  /\ child' = [child EXCEPT ![w].fired = @ \ {r}]
  /\ UNCHANGED <<proc, writer, deaths, cuts>>

(* _cancel_run, under the lock: answer, unless the main thread has. *)
TimerAnswers(w, r) ==
  /\ proc[w] = "up" /\ r \in child[w].fired
  /\ IF status[r] = "RUNNING"
     THEN /\ reader' = [reader EXCEPT ![w] = Append(@, Answer(r, "TIMEOUT"))]
          /\ status' = [status EXCEPT ![r] = "TIMEOUT"]
     ELSE UNCHANGED <<reader, status>>
  /\ child' = [child EXCEPT ![w].fired = @ \ {r}]
  /\ UNCHANGED <<proc, writer, deaths, cuts>>

(* A thread of the process is answering, under the lock. *)
Answering(w) ==
  \/ child[w].phase = "answer" /\ status[child[w].request] = "RUNNING"
  \/ \E r \in child[w].fired : status[r] = "RUNNING"

(* The process dies; what it has written can still be read, were it only   *)
(* the first part of an answer.                                            *)
Die(w) ==
  /\ proc[w] = "up"
  /\ \/ UNCHANGED <<reader, cuts>>
     \/ /\ Answering(w)
        /\ reader' = [reader EXCEPT ![w] = Append(@, Cut)]
        /\ cuts' = cuts + 1
  /\ proc' = [proc EXCEPT ![w] = "down"]
  /\ child' = [child EXCEPT ![w] = NewChild]
  /\ writer' = [writer EXCEPT ![w] = << >>]
  /\ deaths' = deaths + 1
  /\ UNCHANGED status
=============================================================================
