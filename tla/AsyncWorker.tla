---------------------------- MODULE AsyncWorker ----------------------------
(***************************************************************************)
(* How node runs a Nan::AsyncWorker (external to this repository, modelled *)
(* from its use in src/src/{nodejs,segment,way}_bindings.cpp).             *)
(*                                                                         *)
(* A method called from JavaScript on the main thread either throws or     *)
(* hands a worker to Nan::AsyncQueueWorker.  The threads of the pool take  *)
(* workers in the order they were queued and run Execute; the main thread  *)
(* then runs HandleOKCallback (or HandleErrorCallback) of the finished     *)
(* ones in the order they finished, one at a time, and never while other   *)
(* JavaScript runs.                                                        *)
(*                                                                         *)
(* A Job is one method call.  The modules that extend this one say what a  *)
(* worker does between Begin and Finish, and between StartCallback and     *)
(* EndCallback, and conjoin these actions with their own.                  *)
(***************************************************************************)
EXTENDS Naturals, Sequences, FiniteSets

CONSTANTS
  Job,      (* the method calls made in a behaviour, each at most once    *)
  NoJob,    (* the main thread is in no callback                          *)
  Threads   (* size of the pool (UV_THREADPOOL_SIZE)                      *)

ASSUME JobAssumption == NoJob \notin Job
ASSUME ThreadsAssumption == Threads \in Nat \ {0}

VARIABLES
  phase,     (* where each call is on its way from call to callback       *)
  queue,     (* workers no thread has taken yet, oldest first             *)
  finished,  (* workers whose callback is due, first to finish first      *)
  main       (* the worker whose callback the main thread runs, or NoJob  *)

asyncVars == <<phase, queue, finished, main>>

Phases ==
  {"idle", "threw", "queued", "running", "completed", "callback", "delivered"}

AsyncTypeOK ==
  /\ phase \in [Job -> Phases]
  /\ queue \in Seq(Job)
  /\ finished \in Seq(Job)
  /\ main \in Job \cup {NoJob}

AsyncInit ==
  /\ phase = [j \in Job |-> "idle"]
  /\ queue = <<>>
  /\ finished = <<>>
  /\ main = NoJob

(* JavaScript can make call j: the main thread is in no native callback.   *)
CanCall(j) == phase[j] = "idle" /\ main = NoJob

(* Nan::AsyncQueueWorker(new ...Worker)                                    *)
Enqueue(j) ==
  /\ phase' = [phase EXCEPT ![j] = "queued"]
  /\ queue' = Append(queue, j)
  /\ UNCHANGED <<finished, main>>

(* return Nan::Throw...Error(...): no worker, no callback                  *)
Throw(j) ==
  /\ phase' = [phase EXCEPT ![j] = "threw"]
  /\ UNCHANGED <<queue, finished, main>>

Running == {j \in Job : phase[j] = "running"}

(* A thread of the pool takes the oldest worker and enters Execute.        *)
Begin(j) ==
  /\ queue # <<>>
  /\ j = Head(queue)
  /\ Cardinality(Running) < Threads
  /\ phase' = [phase EXCEPT ![j] = "running"]
  /\ queue' = Tail(queue)
  /\ UNCHANGED <<finished, main>>

(* Execute returns.                                                        *)
Finish(j) ==
  /\ phase[j] = "running"
  /\ phase' = [phase EXCEPT ![j] = "completed"]
  /\ finished' = Append(finished, j)
  /\ UNCHANGED <<queue, main>>

(* The event loop enters the callback of the worker that finished first.   *)
StartCallback(j) ==
  /\ main = NoJob
  /\ finished # <<>>
  /\ j = Head(finished)
  /\ phase' = [phase EXCEPT ![j] = "callback"]
  /\ finished' = Tail(finished)
  /\ main' = j
  /\ UNCHANGED queue

(* callback->Call(...) with the answer or the error, then the worker goes. *)
EndCallback(j) ==
  /\ main = j
  /\ phase' = [phase EXCEPT ![j] = "delivered"]
  /\ main' = NoJob
  /\ UNCHANGED <<queue, finished>>

(* Accepted calls that have not called back yet.                           *)
Outstanding(j) == phase[j] \in {"queued", "running", "completed", "callback"}

Settled == \A j \in Job : phase[j] \in {"idle", "threw", "delivered"}

(* seq is a list of the jobs that ph has in phase p, each of them once.    *)
Holds(ph, seq, p) ==
  /\ \A i \in 1 .. Len(seq) : ph[seq[i]] = p
  /\ \A i, k \in 1 .. Len(seq) : seq[i] = seq[k] => i = k
  /\ \A j \in Job : ph[j] = p => \E i \in 1 .. Len(seq) : seq[i] = j

(* No worker is lost or run twice on its way to its callback: a queue holds*)
(* exactly the calls that are due there, and the main thread runs one      *)
(* callback at a time.                                                     *)
EachOnce ==
  /\ Holds(phase, queue, "queued")
  /\ Holds(phase, finished, "completed")
  /\ \A j \in Job : phase[j] = "callback" <=> main = j
=============================================================================
