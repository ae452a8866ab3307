-------------------------- MODULE AsyncWorkerProofs --------------------------
(***************************************************************************)
(* Every action of AsyncWorker keeps AsyncTypeOK and EachOnce.  The proofs *)
(* about the modules that extend AsyncWorker cite these lemmas.            *)
(***************************************************************************)
EXTENDS AsyncWorker, SequenceTheorems, TLAPS

(* The inductive invariant.                                                *)
AsyncInv == AsyncTypeOK /\ EachOnce

(* No call has been made at first and every list is empty.                *)
LEMMA AsyncInitInv == AsyncInit => AsyncInv
<1> SUFFICES ASSUME AsyncInit PROVE AsyncInv
  OBVIOUS
<1>1. AsyncTypeOK
  BY EmptySeq DEF AsyncInit, AsyncTypeOK, Phases
<1>2. EachOnce
  BY JobAssumption DEF AsyncInit, EachOnce, Holds
<1> QED
  BY <1>1, <1>2 DEF AsyncInv

(* What appending an element does to a sequence.                          *)
LEMMA AppendElements ==
  ASSUME NEW S, NEW seq \in Seq(S), NEW e \in S
  PROVE  /\ Append(seq, e) \in Seq(S)
         /\ Len(seq) \in Nat
         /\ Len(Append(seq, e)) = Len(seq) + 1
         /\ \A i \in 1 .. Len(seq) : Append(seq, e)[i] = seq[i]
         /\ Append(seq, e)[Len(seq) + 1] = e
  BY AppendProperties, LenProperties

(* A job that enters phase p and is put at the end of the list of the     *)
(* jobs in that phase keeps the list complete and without repetitions.    *)
LEMMA QueueGrows ==
  ASSUME NEW p, NEW seq \in Seq(Job), NEW j \in Job,
         NEW ph \in [Job -> Phases], Holds(ph, seq, p), ph[j] # p
  PROVE  Holds([ph EXCEPT ![j] = p], Append(seq, j), p)
<1> DEFINE new == Append(seq, j)
           ph2 == [ph EXCEPT ![j] = p]
<1>1. /\ Len(seq) \in Nat /\ Len(new) = Len(seq) + 1
      /\ \A i \in 1 .. Len(seq) : new[i] = seq[i] /\ seq[i] \in Job
      /\ new[Len(seq) + 1] = j
  BY AppendElements, ElementOfSeq
<1>2. \A i \in 1 .. Len(new) : i \in 1 .. Len(seq) \/ i = Len(seq) + 1
  BY <1>1
<1>3. \A i \in 1 .. Len(seq) : ph[seq[i]] = p /\ seq[i] # j
  BY DEF Holds
<1>4. \A i \in 1 .. Len(new) : ph2[new[i]] = p
  BY <1>1, <1>2, <1>3
<1>5. ASSUME NEW i \in 1 .. Len(new), NEW k \in 1 .. Len(new), new[i] = new[k]
      PROVE  i = k
  <2>1. CASE i \in 1 .. Len(seq) /\ k \in 1 .. Len(seq)
    BY <1>1, <1>5, <2>1 DEF Holds
  <2>2. CASE i = Len(seq) + 1 /\ k \in 1 .. Len(seq)
    BY <1>1, <1>3, <1>5, <2>2
  <2>3. CASE k = Len(seq) + 1 /\ i \in 1 .. Len(seq)
    BY <1>1, <1>3, <1>5, <2>3
  <2> QED
    BY <1>2, <2>1, <2>2, <2>3
<1>6. ASSUME NEW k \in Job, ph2[k] = p
      PROVE  \E i \in 1 .. Len(new) : new[i] = k
  <2>1. CASE k = j
    <3>1. Len(seq) + 1 \in 1 .. Len(new)
      BY <1>1
    <3> QED
      BY <1>1, <2>1, <3>1
  <2>2. CASE k # j
    <3>1. ph[k] = p
      BY <1>6, <2>2
    <3>2. PICK i \in 1 .. Len(seq) : seq[i] = k
      BY <3>1 DEF Holds
    <3>3. i \in 1 .. Len(new)
      BY <1>1
    <3> QED
      BY <1>1, <3>2, <3>3
  <2> QED
    BY <2>1, <2>2
<1> QED
  BY <1>4, <1>5, <1>6 DEF Holds

(* So does the first job of the list when it is taken off and leaves the  *)
(* phase.                                                                 *)
LEMMA QueueShrinks ==
  ASSUME NEW p, NEW q, p # q, NEW seq \in Seq(Job), seq # <<>>,
         NEW ph \in [Job -> Phases], Holds(ph, seq, p)
  PROVE  Holds([ph EXCEPT ![Head(seq)] = q], Tail(seq), p)
<1> DEFINE new == Tail(seq)
           ph2 == [ph EXCEPT ![Head(seq)] = q]
<1>1. /\ Len(seq) \in Nat \ {0} /\ Len(new) = Len(seq) - 1
      /\ \A i \in 1 .. Len(new) : new[i] = seq[i + 1]
      /\ Head(seq) = seq[1] /\ Head(seq) \in Job
      /\ \A i \in 1 .. Len(seq) : seq[i] \in Job
  BY HeadTailProperties, EmptySeq, ElementOfSeq
<1>2. \A i \in 1 .. Len(new) : i + 1 \in 1 .. Len(seq) /\ 1 \in 1 .. Len(seq) /\ i + 1 # 1
  BY <1>1
<1>3. \A i \in 1 .. Len(new) : new[i] # Head(seq) /\ new[i] \in Job /\ ph[new[i]] = p
  BY <1>1, <1>2 DEF Holds
<1>4. \A i, k \in 1 .. Len(new) : new[i] = new[k] => i = k
  <2> SUFFICES ASSUME NEW i \in 1 .. Len(new), NEW k \in 1 .. Len(new), new[i] = new[k]
               PROVE  i = k
    OBVIOUS
  <2>1. i + 1 = k + 1
    BY <1>1, <1>2 DEF Holds
  <2> QED
    BY <2>1, <1>1
<1>5. ASSUME NEW k \in Job, ph2[k] = p
      PROVE  \E i \in 1 .. Len(new) : new[i] = k
  <2>1. k # Head(seq) /\ ph[k] = p
    BY <1>1, <1>5
  <2>2. PICK i \in 1 .. Len(seq) : seq[i] = k
    BY <2>1 DEF Holds
  <2>3. i # 1
    BY <1>1, <2>1, <2>2
  <2>4. i - 1 \in 1 .. Len(new) /\ (i - 1) + 1 = i
    BY <1>1, <2>3
  <2> QED
    BY <1>1, <2>2, <2>4
<1> QED
  BY <1>1, <1>3, <1>4, <1>5 DEF Holds

(* A call that hands over a worker, perhaps from inside a callback.       *)
LEMMA EnqueueIdleInv ==
  ASSUME AsyncInv, NEW j \in Job, phase[j] = "idle", Enqueue(j)
  PROVE  AsyncInv'
<1> USE DEF AsyncInv, AsyncTypeOK, EachOnce, Enqueue
<1>1. AsyncTypeOK'
  BY AppendElements DEF Phases
<1>2. Holds(phase', queue', "queued")
  BY QueueGrows
<1>3. Holds(phase', finished', "completed")
  BY ElementOfSeq DEF Holds
<1>4. (\A k \in Job : phase[k] = "callback" <=> main = k)'
  BY JobAssumption
<1> QED
  BY <1>1, <1>2, <1>3, <1>4

LEMMA EnqueueInv ==
  ASSUME AsyncInv, NEW j \in Job, CanCall(j), Enqueue(j)
  PROVE  AsyncInv'
BY EnqueueIdleInv DEF CanCall

(* A call that throws.                                                    *)
LEMMA ThrowInv ==
  ASSUME AsyncInv, NEW j \in Job, CanCall(j), Throw(j)
  PROVE  AsyncInv'
<1> USE DEF AsyncInv, AsyncTypeOK, EachOnce, Throw, CanCall
<1>1. AsyncTypeOK'
  BY DEF Phases
<1>2. Holds(phase', queue', "queued") /\ Holds(phase', finished', "completed")
  BY ElementOfSeq DEF Holds
<1>3. (\A k \in Job : phase[k] = "callback" <=> main = k)'
  BY JobAssumption
<1> QED
  BY <1>1, <1>2, <1>3

(* A thread takes the oldest worker, which is one that waits.             *)
LEMMA BeginInv ==
  ASSUME AsyncInv, NEW j \in Job, Begin(j)
  PROVE  AsyncInv' /\ phase[j] = "queued"
<1> USE DEF AsyncInv, AsyncTypeOK, EachOnce, Begin
<1>1. phase[j] = "queued"
  BY HeadTailProperties, EmptySeq DEF Holds
<1>2. AsyncTypeOK'
  BY HeadTailProperties DEF Phases
<1>3. Holds(phase', queue', "queued")
  <2>1. queue \in Seq(Job) /\ queue # <<>> /\ phase \in [Job -> Phases]
        /\ Holds(phase, queue, "queued") /\ "queued" # "running"
    OBVIOUS
  <2>2. Holds([phase EXCEPT ![Head(queue)] = "running"], Tail(queue), "queued")
    BY ONLY <2>1, QueueShrinks
  <2> QED
    BY <2>2
<1>4. Holds(phase', finished', "completed")
  BY <1>1, ElementOfSeq DEF Holds
<1>5. (\A k \in Job : phase[k] = "callback" <=> main = k)'
  BY <1>1
<1> QED
  BY <1>1, <1>2, <1>3, <1>4, <1>5

(* A worker whose Execute returns becomes due for its callback.           *)
LEMMA FinishInv ==
  ASSUME AsyncInv, NEW j \in Job, Finish(j)
  PROVE  AsyncInv'
<1> USE DEF AsyncInv, AsyncTypeOK, EachOnce, Finish
<1>1. AsyncTypeOK'
  BY AppendElements DEF Phases
<1>2. Holds(phase', finished', "completed")
  BY QueueGrows
<1>3. Holds(phase', queue', "queued")
  BY ElementOfSeq DEF Holds
<1>4. (\A k \in Job : phase[k] = "callback" <=> main = k)'
  OBVIOUS
<1> QED
  BY <1>1, <1>2, <1>3, <1>4

(* The event loop takes the worker that finished first, which has not     *)
(* called back yet.                                                       *)
LEMMA StartCallbackInv ==
  ASSUME AsyncInv, NEW j \in Job, StartCallback(j)
  PROVE  AsyncInv' /\ phase[j] = "completed"
<1> USE DEF AsyncInv, AsyncTypeOK, EachOnce, StartCallback
<1>1. phase[j] = "completed"
  BY HeadTailProperties, EmptySeq DEF Holds
<1>2. AsyncTypeOK'
  BY HeadTailProperties DEF Phases
<1>3. Holds(phase', finished', "completed")
  <2>1. finished \in Seq(Job) /\ finished # <<>> /\ phase \in [Job -> Phases]
        /\ Holds(phase, finished, "completed") /\ "completed" # "callback"
    OBVIOUS
  <2>2. Holds([phase EXCEPT ![Head(finished)] = "callback"], Tail(finished), "completed")
    BY ONLY <2>1, QueueShrinks
  <2> QED
    BY <2>2
<1>4. Holds(phase', queue', "queued")
  BY <1>1, ElementOfSeq DEF Holds
<1>5. (\A k \in Job : phase[k] = "callback" <=> main = k)'
  BY JobAssumption
<1> QED
  BY <1>1, <1>2, <1>3, <1>4, <1>5

(* The callback that ends is the one the main thread is in.               *)
LEMMA EndCallbackInv ==
  ASSUME AsyncInv, NEW j \in Job, EndCallback(j)
  PROVE  AsyncInv' /\ phase[j] = "callback"
<1> USE DEF AsyncInv, AsyncTypeOK, EachOnce, EndCallback
<1>1. phase[j] = "callback"
  OBVIOUS
<1>2. AsyncTypeOK'
  BY DEF Phases
<1>3. Holds(phase', queue', "queued") /\ Holds(phase', finished', "completed")
  BY <1>1, ElementOfSeq DEF Holds
<1>4. (\A k \in Job : phase[k] = "callback" <=> main = k)'
  BY JobAssumption
<1> QED
  BY <1>1, <1>2, <1>3, <1>4

(* A step that leaves the workers alone.                                  *)
LEMMA AsyncUnchangedInv ==
  ASSUME AsyncInv, UNCHANGED asyncVars
  PROVE  AsyncInv'
BY DEF AsyncInv, AsyncTypeOK, EachOnce, Holds, asyncVars
=============================================================================
