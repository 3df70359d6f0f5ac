---------------------- MODULE NotifyingPipelineProofs ----------------------
(***************************************************************************)
(* Safety of NotifyingPipeline for every set of entries, every set of      *)
(* producers and every number of additions, and its refinement of          *)
(* OrderedDelivery (without liveness, which TLC checks).                   *)
(***************************************************************************)
EXTENDS NotifyingPipeline, SequenceTheorems, TLAPS

(***************************************************************************)
(* The inductive invariant.  The four properties are not inductive alone:  *)
(* NoLostNotification needs that the deque is empty while the worker is    *)
(* about to block, which holds because add() takes the mutex the worker    *)
(* then holds; NoDeliveryAfterDestruction needs that the worker has left   *)
(* its loop when the owner's join() returns.                               *)
(***************************************************************************)
MutexInv == m_pipelineMutex = "held" <=> pc \in {"pred", "block"}
BlockInv == pc = "block" => m_pipeline = <<>>
JoinInv  == owner = "destroyed" => pc = "exit"

IInv ==
  /\ TypeOK
  /\ MutexInv
  /\ BlockInv
  /\ JoinInv
  /\ BatchIsInDeque
  /\ NoLostNotification
  /\ NothingLostOrRepeated

-----------------------------------------------------------------------------
(* Facts about sequences.                                                  *)

\* Appending to the tail: what add() does while the front entry is being
\* handed over.
LEMMA TailOfAppend ==
  ASSUME NEW S, NEW s \in Seq(S), NEW e \in S, s # <<>>
  PROVE  Tail(Append(s, e)) = Append(Tail(s), e)
OBVIOUS

\* Appending to the second part of a concatenation: add() appends to the
\* deque and to the history alike.
LEMMA AppendOfConcat ==
  \A s, t \in Seq(Entries), e \in Entries :
    Append(s \o t, e) = s \o Append(t, e)
OBVIOUS

\* Moving the head of the second part to the end of the first: what a call of
\* the delegate does.
LEMMA MoveHead ==
  ASSUME NEW S, NEW s \in Seq(S), NEW t \in Seq(S), t # <<>>
  PROVE  s \o t = (s \o <<Head(t)>>) \o Tail(t)
OBVIOUS

\* The first entry as a sequence: what the worker copies under the mutex.
LEMMA FirstOfSequence ==
  ASSUME NEW S, NEW s \in Seq(S), s # <<>>
  PROVE  /\ SubSeq(s, 1, 1) = <<Head(s)>>
         /\ <<Head(s)>> \in Seq(S)
<1>1. Len(s) >= 1 /\ Head(s) = s[1] /\ s[1] \in S
  OBVIOUS
<1>2. /\ SubSeq(s, 1, 1) \in Seq(S)
      /\ Len(SubSeq(s, 1, 1)) = 1
      /\ SubSeq(s, 1, 1)[1] = s[1]
  BY <1>1, SubSeqProperties
<1>3. <<s[1]>> \in Seq(S) /\ Len(<<s[1]>>) = 1 /\ <<s[1]>>[1] = s[1]
  BY <1>1
<1>4. SubSeq(s, 1, 1) = <<s[1]>>
  <2> DEFINE u == SubSeq(s, 1, 1)
             v == <<s[1]>>
  <2>1. Len(u) = Len(v) /\ \A j \in 1 .. Len(u) : u[j] = v[j]
    BY <1>2, <1>3
  <2>2. u \in Seq(S) /\ v \in Seq(S)
    BY <1>2, <1>3
  <2> HIDE DEF u, v
  <2>3. u = v
    BY <2>1, <2>2, SeqEqual
  <2> QED BY <2>3 DEF u, v
<1> QED
  BY <1>1, <1>3, <1>4

-----------------------------------------------------------------------------
(* The invariant.                                                          *)

\* Every step keeps the variables in their types.
LEMMA TypeStep ==
  ASSUME IInv, [Next]_vars
  PROVE  TypeOK'
<1> USE DEF TypeOK, WorkerPC, OwnerPC, deque, locals, Goto
<1>1. CASE Start BY <1>1 DEF IInv, Start
<1>2. CASE While BY <1>2 DEF IInv, While
<1>3. CASE Lock BY <1>3 DEF IInv, Lock
<1>4. CASE Predicate BY <1>4 DEF IInv, Predicate
<1>5. CASE Block BY <1>5 DEF IInv, Block
<1>6. CASE BatchSize BY <1>6 DEF IInv, BatchSize
<1>7. CASE Front
  <2>1. CASE i < entries
    <3>1. m_pipeline # <<>>
      BY <1>7, <2>1 DEF IInv, Front, BatchIsInDeque
    <3> QED BY <1>7, <2>1, <3>1, FirstOfSequence DEF IInv, Front
  <2>2. CASE i >= entries BY <1>7, <2>2 DEF IInv, Front
  <2> QED BY <2>1, <2>2 DEF IInv
<1>8. CASE Deliver BY <1>8 DEF IInv, Deliver
<1>9. CASE PopFront
  <2>1. m_pipeline # <<>>
    BY <1>9 DEF IInv, PopFront, BatchIsInDeque
  <2>2. Tail(m_pipeline) \in Seq(Entries)
    BY <2>1 DEF IInv
  <2> QED BY <1>9, <2>2 DEF IInv, PopFront
<1>10. CASE SpuriousWakeup BY <1>10 DEF IInv, SpuriousWakeup
<1>11. ASSUME NEW p \in Producers, Add(p) PROVE TypeOK'
  BY <1>11 DEF IInv, Add
<1>12. ASSUME NEW p \in Producers, ProducerNotify(p) PROVE TypeOK'
  BY <1>12 DEF IInv, ProducerNotify, NotifyAll
<1>13. ASSUME NEW p \in Producers, ProducerDone(p) PROVE TypeOK'
  BY <1>13 DEF IInv, ProducerDone
<1>14. CASE Construct BY <1>14 DEF IInv, Construct
<1>15. CASE StopStore BY <1>15 DEF IInv, StopStore
<1>16. CASE StopNotify BY <1>16 DEF IInv, StopNotify, NotifyAll
<1>17. CASE Join BY <1>17 DEF IInv, Join
<1>18. CASE UNCHANGED vars BY <1>18 DEF IInv, vars
<1> QED
  BY <1>1, <1>2, <1>3, <1>4, <1>5, <1>6, <1>7, <1>8, <1>9, <1>10, <1>11,
     <1>12, <1>13, <1>14, <1>15, <1>16, <1>17, <1>18 DEF Next, WorkerStep

\* The mutex is held exactly from the evaluation of the predicate to the
\* blocking, the deque is empty when the worker is about to block, and the
\* worker has left its loop when the destructor returns.
LEMMA ControlStep ==
  ASSUME IInv, [Next]_vars
  PROVE  MutexInv' /\ BlockInv' /\ JoinInv'
<1> USE DEF IInv, TypeOK, MutexInv, BlockInv, JoinInv, deque, locals, Goto
<1>1. CASE WorkerStep
  BY <1>1 DEF WorkerStep, Start, While, Lock, Predicate, WaitPredicate, Block,
              BatchSize, Front, Deliver, PopFront
<1>2. CASE SpuriousWakeup BY <1>2 DEF SpuriousWakeup
<1>3. ASSUME NEW p \in Producers, Add(p) \/ ProducerNotify(p) \/ ProducerDone(p)
      PROVE  MutexInv' /\ BlockInv' /\ JoinInv'
  BY <1>3 DEF Add, ProducerNotify, ProducerDone, NotifyAll
<1>4. CASE Construct \/ StopStore \/ StopNotify \/ Join
  BY <1>4 DEF Construct, StopStore, StopNotify, Join, NotifyAll
<1>5. CASE UNCHANGED vars BY <1>5 DEF vars
<1> QED BY <1>1, <1>2, <1>3, <1>4, <1>5 DEF Next

\* The batch stays inside the deque: only the worker removes entries.
LEMMA BatchStep ==
  ASSUME IInv, [Next]_vars
  PROVE  BatchIsInDeque'
<1> USE DEF IInv, TypeOK, BatchIsInDeque, deque, locals, Goto
<1>1. CASE Start \/ While \/ Lock \/ Predicate \/ Block
  BY <1>1 DEF Start, While, Lock, Predicate, Block
<1>2. CASE BatchSize BY <1>2 DEF BatchSize
<1>3. CASE Front
  <2>1. CASE i < entries
    <3>1. m_pipeline # <<>>
      BY <1>3, <2>1 DEF Front
    <3>2. SubSeq(m_pipeline, 1, 1) = <<Head(m_pipeline)>>
      BY <3>1, FirstOfSequence
    <3> QED BY <1>3, <2>1, <3>2 DEF Front
  <2>2. CASE i >= entries BY <1>3, <2>2 DEF Front
  <2> QED BY <2>1, <2>2
<1>4. CASE Deliver BY <1>4 DEF Deliver
<1>5. CASE PopFront
  <2>1. /\ m_pipeline # <<>>
        /\ Len(m_pipeline) >= entries - i
    BY <1>5 DEF PopFront
  <2>2. Len(Tail(m_pipeline)) = Len(m_pipeline) - 1
    BY <2>1
  <2> QED BY <1>5, <2>1, <2>2 DEF PopFront
<1>6. CASE SpuriousWakeup BY <1>6 DEF SpuriousWakeup
<1>7. ASSUME NEW p \in Producers, Add(p) PROVE BatchIsInDeque'
  <2>1. PICK e \in Entries : m_pipeline' = Append(m_pipeline, e)
    BY <1>7 DEF Add
  <2>2. /\ Len(m_pipeline') = Len(m_pipeline) + 1
        /\ m_pipeline # <<>> => Head(m_pipeline') = Head(m_pipeline)
    BY <2>1
  <2> QED BY <1>7, <2>2 DEF Add
<1>8. ASSUME NEW p \in Producers, ProducerNotify(p) \/ ProducerDone(p)
      PROVE  BatchIsInDeque'
  BY <1>8 DEF ProducerNotify, ProducerDone, NotifyAll
<1>9. CASE Construct \/ StopStore \/ StopNotify \/ Join
  BY <1>9 DEF Construct, StopStore, StopNotify, Join, NotifyAll
<1>10. CASE UNCHANGED vars BY <1>10 DEF vars
<1> QED
  BY <1>1, <1>2, <1>3, <1>4, <1>5, <1>6, <1>7, <1>8, <1>9, <1>10
     DEF Next, WorkerStep

\* No notification is lost: a producer that leaves an entry in front of a
\* sleeping worker still owes its notifyAll().
LEMMA NotificationStep ==
  ASSUME IInv, [Next]_vars
  PROVE  NoLostNotification'
<1> USE DEF IInv, TypeOK, NoLostNotification, BlockInv, JoinInv, deque, locals,
            Goto
<1>1. CASE WorkerStep
  BY <1>1 DEF WorkerStep, Start, While, Lock, Predicate, Block, BatchSize,
              Front, Deliver, PopFront
<1>2. CASE SpuriousWakeup BY <1>2 DEF SpuriousWakeup
<1>3. ASSUME NEW p \in Producers, Add(p) PROVE NoLostNotification'
  BY <1>3 DEF Add
<1>4. ASSUME NEW p \in Producers, ProducerNotify(p) PROVE NoLostNotification'
  BY <1>4 DEF ProducerNotify, NotifyAll
<1>5. ASSUME NEW p \in Producers, ProducerDone(p) PROVE NoLostNotification'
  BY <1>5 DEF ProducerDone
<1>6. CASE Construct \/ StopStore \/ StopNotify \/ Join
  BY <1>6 DEF Construct, StopStore, StopNotify, Join, NotifyAll
<1>7. CASE UNCHANGED vars BY <1>7 DEF vars
<1> QED BY <1>1, <1>2, <1>3, <1>4, <1>5, <1>6, <1>7 DEF Next

\* The facts about the deque that a call of the delegate relies on.
LEMMA DeliverFacts ==
  ASSUME IInv, Deliver
  PROVE  /\ m_pipeline # <<>>
         /\ entry = <<Head(m_pipeline)>>
         /\ Undelivered = m_pipeline
         /\ Undelivered' = Tail(m_pipeline)
<1> USE DEF IInv, TypeOK, BatchIsInDeque, Goto
<1>1. m_pipeline # <<>> BY DEF Deliver
<1> QED BY <1>1 DEF Deliver, Undelivered

\* What an addition does to the entries the delegate has not seen.
LEMMA AddFacts ==
  ASSUME IInv, NEW p \in Producers, NEW e \in Entries,
         m_pipeline' = Append(m_pipeline, e), pc' = pc
  PROVE  /\ Undelivered \in Seq(Entries)
         /\ Undelivered' = Append(Undelivered, e)
<1> USE DEF IInv, TypeOK, BatchIsInDeque
<1>1. CASE pc = "pop"
  <2>1. m_pipeline # <<>> BY <1>1
  <2>2. Tail(m_pipeline) \in Seq(Entries) BY <2>1
  <2>3. Tail(Append(m_pipeline, e)) = Append(Tail(m_pipeline), e)
    BY <2>1, TailOfAppend
  <2> QED BY <1>1, <2>2, <2>3 DEF Undelivered
<1>2. CASE pc # "pop" BY <1>2 DEF Undelivered
<1> QED BY <1>1, <1>2

\* A step that neither adds, nor delivers, nor destroys leaves the entries the
\* delegate has not seen as they are; popping the front entry does so too.
LEMMA SilentStep ==
  ASSUME IInv,
         \/ Start \/ While \/ Lock \/ Predicate \/ Block \/ BatchSize
         \/ Front \/ PopFront \/ SpuriousWakeup
         \/ \E p \in Producers : ProducerNotify(p) \/ ProducerDone(p)
         \/ Construct \/ StopStore \/ StopNotify \/ UNCHANGED vars
  PROVE  /\ Undelivered' = Undelivered
         /\ UNCHANGED <<added, delivered, m_delegate>>
         /\ (owner' = "destroyed") = (owner = "destroyed")
<1> USE DEF IInv, TypeOK, deque, locals, Goto
<1>1. CASE Start \/ While \/ Lock \/ Predicate \/ Block \/ BatchSize
           \/ Front \/ PopFront \/ SpuriousWakeup
  BY <1>1 DEF Start, While, Lock, Predicate, Block, BatchSize, Front, PopFront,
              SpuriousWakeup, Undelivered
<1>2. ASSUME NEW p \in Producers, ProducerNotify(p) \/ ProducerDone(p)
      PROVE  /\ Undelivered' = Undelivered
             /\ UNCHANGED <<added, delivered, m_delegate>>
             /\ (owner' = "destroyed") = (owner = "destroyed")
  BY <1>2 DEF ProducerNotify, ProducerDone, NotifyAll, Undelivered
<1>3. CASE Construct \/ StopStore \/ StopNotify
  BY <1>3 DEF Construct, StopStore, StopNotify, NotifyAll, Undelivered
<1>4. CASE UNCHANGED vars BY <1>4 DEF vars, Undelivered
<1> QED BY <1>1, <1>2, <1>3, <1>4

\* Entries are conserved by every step.
LEMMA ConservationStep ==
  ASSUME IInv, [Next]_vars
  PROVE  NothingLostOrRepeated'
<1> USE DEF NothingLostOrRepeated
<1>1. CASE Deliver
  <2>1. /\ m_pipeline # <<>>
        /\ entry = <<Head(m_pipeline)>>
        /\ Undelivered = m_pipeline
        /\ Undelivered' = Tail(m_pipeline)
    BY <1>1, DeliverFacts
  <2>2. delivered \o m_pipeline
          = (delivered \o <<Head(m_pipeline)>>) \o Tail(m_pipeline)
    BY <2>1, MoveHead DEF IInv, TypeOK
  <2> QED BY <1>1, <2>1, <2>2 DEF IInv, Deliver
<1>2. ASSUME NEW p \in Producers, Add(p) PROVE NothingLostOrRepeated'
  <2>1. PICK e \in Entries : /\ m_pipeline' = Append(m_pipeline, e)
                             /\ added' = Append(added, e)
    BY <1>2 DEF Add
  <2>2. Undelivered \in Seq(Entries) /\ Undelivered' = Append(Undelivered, e)
    BY <1>2, <2>1, AddFacts DEF Add
  <2>3. Append(delivered \o Undelivered, e)
          = delivered \o Append(Undelivered, e)
    <3>1. delivered \in Seq(Entries) /\ Undelivered \in Seq(Entries)
      BY <2>2 DEF IInv, TypeOK
    <3> QED BY <3>1, AppendOfConcat
  <2> QED BY <1>2, <2>1, <2>2, <2>3 DEF IInv, Add
<1>3. CASE Join BY <1>3 DEF Join
<1>4. CASE \/ Start \/ While \/ Lock \/ Predicate \/ Block \/ BatchSize
           \/ Front \/ PopFront \/ SpuriousWakeup
           \/ \E p \in Producers : ProducerNotify(p) \/ ProducerDone(p)
           \/ Construct \/ StopStore \/ StopNotify \/ UNCHANGED vars
  BY <1>4, SilentStep DEF IInv
<1> QED BY <1>1, <1>2, <1>3, <1>4 DEF Next, WorkerStep

\* The invariant holds in every reachable state of the pipeline.
THEOREM PipelineInvariant == Spec => []IInv
<1>1. Init => IInv
  <2> SUFFICES ASSUME Init PROVE IInv OBVIOUS
  <2>1. <<>> \o <<>> = <<>> OBVIOUS
  <2>2. NothingLostOrRepeated
    BY <2>1 DEF Init, NothingLostOrRepeated, Undelivered
  <2>3. TypeOK
    <3>1. <<>> \in Seq(Entries) OBVIOUS
    <3>2. pc \in WorkerPC /\ owner \in OwnerPC BY DEF Init, WorkerPC, OwnerPC
    <3>3. producer \in [Producers -> {"idle", "owes", "done"}] BY DEF Init
    <3> QED BY <3>1, <3>2, <3>3 DEF Init, TypeOK
  <2> QED
    BY <2>2, <2>3 DEF Init, IInv, MutexInv, BlockInv, JoinInv,
                      BatchIsInDeque, NoLostNotification
<1>2. IInv /\ [Next]_vars => IInv'
  BY TypeStep, ControlStep, BatchStep, NotificationStep, ConservationStep
     DEF IInv
<1> QED BY <1>1, <1>2, PTL DEF Spec

\* processPipeline() hands every entry given to add() to the delegate exactly
\* once and in order, whatever is added between its critical sections.
THEOREM EntriesAreConserved == Spec => []NothingLostOrRepeated
<1>1. IInv => NothingLostOrRepeated BY DEF IInv
<1> QED BY <1>1, PipelineInvariant, PTL

\* Every variable of the pipeline keeps its type: the worker's locals hold a
\* batch size and at most one entry, the mutex one of its two holders.
THEOREM PipelineTypeCorrect == Spec => []TypeOK
<1>1. IInv => TypeOK BY DEF IInv
<1> QED BY <1>1, PipelineInvariant, PTL

\* front() and pop_front() never meet an empty deque.
THEOREM BatchesAreInTheDeque == Spec => []BatchIsInDeque
<1>1. IInv => BatchIsInDeque BY DEF IInv
<1> QED BY <1>1, PipelineInvariant, PTL

\* add() followed by notifyAll() never leaves the worker asleep in front of an
\* entry.
THEOREM NotificationsAreNotLost == Spec => []NoLostNotification
<1>1. IInv => NoLostNotification BY DEF IInv
<1> QED BY <1>1, PipelineInvariant, PTL

\* The delegate is never called after ~NotifyingPipeline() has returned.
THEOREM DestructionIsFinal == Spec => NoDeliveryAfterDestruction
<1>1. IInv /\ [Next]_vars => [owner = "destroyed" => UNCHANGED delivered]_vars
  BY DEF IInv, JoinInv, Next, vars, deque, locals, Goto, WorkerStep, Start,
         While, Lock, Predicate, Block, BatchSize, Front, Deliver, PopFront,
         SpuriousWakeup, Add, ProducerNotify, ProducerDone, Construct,
         StopStore, StopNotify, Join
<1> QED BY <1>1, PipelineInvariant, PTL DEF Spec, NoDeliveryAfterDestruction

-----------------------------------------------------------------------------
(* Refinement of OrderedDelivery.                                          *)

\* NotifyingPipeline implements the FIFO: a step of it is an addition, a
\* delivery or the end of the destructor, or changes nothing its users see.
THEOREM PipelineImplementsFifo == Spec => Fifo!Spec
<1>1. Init => Fifo!Init
  BY DEF Init, Fifo!Init, Undelivered
<1>2. IInv /\ [Next]_vars => [Fifo!Next]_(Fifo!vars)
  <2> SUFFICES ASSUME IInv, [Next]_vars PROVE [Fifo!Next]_(Fifo!vars)
    OBVIOUS
  <2>1. CASE Deliver
    <3>1. /\ m_pipeline # <<>>
          /\ entry = <<Head(m_pipeline)>>
          /\ Undelivered = m_pipeline
          /\ Undelivered' = Tail(m_pipeline)
      BY <2>1, DeliverFacts
    <3>2. delivered \o <<Head(m_pipeline)>> = Append(delivered, Head(m_pipeline))
      BY <3>1 DEF IInv, TypeOK
    <3>3. owner # "destroyed"
      BY <2>1 DEF IInv, JoinInv, Deliver, Goto
    <3> QED BY <2>1, <3>1, <3>2, <3>3 DEF Deliver, Fifo!Next, Fifo!Take
  <2>2. ASSUME NEW p \in Producers, Add(p) PROVE Fifo!Next
    <3>1. PICK e \in Entries : m_pipeline' = Append(m_pipeline, e)
      BY <2>2 DEF Add
    <3>2. Undelivered' = Append(Undelivered, e)
      BY <2>2, <3>1, AddFacts DEF Add
    <3> QED BY <2>2, <3>2 DEF Add, Fifo!Next, Fifo!Put
  <2>3. CASE Join
    BY <2>3 DEF Join, Fifo!Next, Fifo!Close, Undelivered
  <2>4. CASE \/ Start \/ While \/ Lock \/ Predicate \/ Block \/ BatchSize
             \/ Front \/ PopFront \/ SpuriousWakeup
             \/ \E p \in Producers : ProducerNotify(p) \/ ProducerDone(p)
             \/ Construct \/ StopStore \/ StopNotify \/ UNCHANGED vars
    BY <2>4, SilentStep DEF Fifo!vars
  <2> QED BY <2>1, <2>2, <2>3, <2>4 DEF Next, WorkerStep
<1> QED BY <1>1, <1>2, PipelineInvariant, PTL DEF Spec, Fifo!Spec
=============================================================================
