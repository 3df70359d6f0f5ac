------------------------- MODULE NotifyingPipeline -------------------------
(***************************************************************************)
(* cluon::NotifyingPipeline<T> (libcluon/include/cluon/                    *)
(* NotifyingPipeline.hpp): a deque guarded by a mutex, a condition         *)
(* variable, and one worker thread that hands every entry to a delegate.   *)
(* Three kinds of threads take steps:                                      *)
(*   - the worker, running processPipeline();                              *)
(*   - producers (the readFromSocket threads of UDPReceiver and            *)
(*     TCPConnection), which add() entries and then call notifyAll();      *)
(*   - the owner, which constructs the pipeline and, once its producers    *)
(*     are joined, destroys it.                                            *)
(* A step is what a thread does between two points at which another thread *)
(* can observe or change what it uses: a whole critical section, one       *)
(* atomic load or store, one notify_all, or one call of the delegate.      *)
(***************************************************************************)
EXTENDS Naturals, Sequences

CONSTANTS
  Entries,      \* the values handed to add()
  Producers,    \* the threads calling add() and notifyAll()
  MaxAdds       \* bound on the number of calls of add()

ASSUME PipelineAssumption == MaxAdds \in Nat

VARIABLES
  m_pipeline,               \* the deque
  m_pipelineMutex,          \* "free", or "held" by the worker between steps
  m_pipelineThreadRunning,  \* the atomic flag
  m_delegate,               \* TRUE iff the delegate is not null
  pc,                       \* where the worker is in processPipeline()
  entries, i, entry,        \* the locals of processPipeline()
  producer,                 \* per producer: "idle", "owes" a notifyAll, "done"
  owner,                    \* where the owner is in the pipeline's lifetime
  added,                    \* history: the arguments of add(), in order
  delivered                 \* history: the arguments of m_delegate(), in order

deque  == <<m_pipeline, m_pipelineMutex, m_delegate, added, delivered>>
locals == <<entries, i, entry>>
vars   == <<deque, m_pipelineThreadRunning, pc, locals, producer, owner>>

WorkerPC == {"start", "while", "lock", "pred", "block", "blocked", "relock",
             "size", "front", "deliver", "pop", "exit"}
OwnerPC  == {"constructing", "alive", "notify", "join", "destroyed"}

TypeOK ==
  /\ m_pipeline \in Seq(Entries)
  /\ m_pipelineMutex \in {"free", "held"}
  /\ m_pipelineThreadRunning \in BOOLEAN
  /\ m_delegate \in BOOLEAN
  /\ pc \in WorkerPC
  /\ entries \in Nat
  /\ i \in Nat
  /\ entry \in Seq(Entries)
  /\ producer \in [Producers -> {"idle", "owes", "done"}]
  /\ owner \in OwnerPC
  /\ added \in Seq(Entries)
  /\ delivered \in Seq(Entries)

Init ==
  /\ m_pipeline = <<>>
  /\ m_pipelineMutex = "free"
  /\ m_pipelineThreadRunning = FALSE
  /\ m_delegate \in BOOLEAN
  /\ pc = "start"
  /\ entries = 0
  /\ i = 0
  /\ entry = <<>>
  /\ producer = [p \in Producers |-> "idle"]
  /\ owner = "constructing"
  /\ added = <<>>
  /\ delivered = <<>>

-----------------------------------------------------------------------------
(* The worker: processPipeline().                                          *)

Goto(from, to) == pc = from /\ pc' = to

\* Line 68: tell the constructor that the thread runs.
Start ==
  /\ Goto("start", "while")
  /\ m_pipelineThreadRunning' = TRUE
  /\ UNCHANGED <<deque, locals, producer, owner>>

\* Line 70: the loop's condition.
While ==
  /\ Goto("while", IF m_pipelineThreadRunning THEN "lock" ELSE "exit")
  /\ UNCHANGED <<deque, m_pipelineThreadRunning, locals, producer, owner>>

\* Line 71, and the re-acquisition inside wait() after a wake-up.
Lock ==
  /\ Goto("lock", "pred") \/ Goto("relock", "pred")
  /\ m_pipelineMutex = "free"
  /\ m_pipelineMutex' = "held"
  /\ UNCHANGED <<m_pipeline, m_delegate, added, delivered,
                 m_pipelineThreadRunning, locals, producer, owner>>

\* Faults: one of the two reasons to wake up is forgotten.
WaitForStopOnly == ~m_pipelineThreadRunning
WaitForDataOnly == m_pipeline # <<>>

WaitPredicate == ~m_pipelineThreadRunning \/ m_pipeline # <<>>

\* Lines 73-77: the predicate is evaluated with the mutex held; when it holds,
\* wait() returns and the mutex is released.
Predicate ==
  /\ \/ /\ WaitPredicate
        /\ Goto("pred", "size")
        /\ m_pipelineMutex' = "free"
     \/ /\ ~WaitPredicate
        /\ Goto("pred", "block")
        /\ UNCHANGED m_pipelineMutex
  /\ UNCHANGED <<m_pipeline, m_delegate, added, delivered,
                 m_pipelineThreadRunning, locals, producer, owner>>

\* Line 73: wait() releases the mutex and blocks in one atomic step, which
\* comes after the evaluation of the predicate.
Block ==
  /\ Goto("block", "blocked")
  /\ m_pipelineMutex' = "free"
  /\ UNCHANGED <<m_pipeline, m_delegate, added, delivered,
                 m_pipelineThreadRunning, locals, producer, owner>>

\* A condition variable may wake up for no reason.
SpuriousWakeup ==
  /\ Goto("blocked", "relock")
  /\ UNCHANGED <<deque, m_pipelineThreadRunning, locals, producer, owner>>

\* Fault: the last entry is left for the next batch.
BatchSizeButOne ==
  /\ Goto("size", "front")
  /\ m_pipelineMutex = "free"
  /\ entries' = Len(m_pipeline) - 1
  /\ i' = 0
  /\ UNCHANGED <<deque, m_pipelineThreadRunning, entry, producer, owner>>

\* Lines 79-85: the number of entries of this batch.
BatchSize ==
  /\ Goto("size", "front")
  /\ m_pipelineMutex = "free"
  /\ entries' = Len(m_pipeline)
  /\ i' = 0
  /\ UNCHANGED <<deque, m_pipelineThreadRunning, entry, producer, owner>>

\* Lines 85-91: copy the front entry, or end the batch.  entry is the copy,
\* <<>> before the first one.
Front ==
  /\ m_pipelineMutex = "free"
  /\ \/ /\ i < entries
        /\ Goto("front", "deliver")
        /\ entry' = SubSeq(m_pipeline, 1, 1)
     \/ /\ i >= entries
        /\ Goto("front", "while")
        /\ UNCHANGED entry
  /\ UNCHANGED <<deque, m_pipelineThreadRunning, entries, i, producer, owner>>

\* Lines 93-95: hand the copy to the delegate, without the mutex.
Deliver ==
  /\ Goto("deliver", "pop")
  /\ delivered' = IF m_delegate THEN delivered \o entry ELSE delivered
  /\ UNCHANGED <<m_pipeline, m_pipelineMutex, m_delegate, added,
                 m_pipelineThreadRunning, locals, producer, owner>>

\* Fault: pops the youngest entry.
PopBack ==
  /\ Goto("pop", "front")
  /\ m_pipelineMutex = "free"
  /\ m_pipeline' = SubSeq(m_pipeline, 1, Len(m_pipeline) - 1)
  /\ i' = i + 1
  /\ UNCHANGED <<m_pipelineMutex, m_delegate, added, delivered,
                 m_pipelineThreadRunning, entries, entry, producer, owner>>

\* Fault: the loop's counter is not advanced.
PopFrontNotCounted ==
  /\ Goto("pop", "front")
  /\ m_pipelineMutex = "free"
  /\ m_pipeline' = Tail(m_pipeline)
  /\ UNCHANGED <<m_pipelineMutex, m_delegate, added, delivered,
                 m_pipelineThreadRunning, locals, producer, owner>>

\* Lines 97-101, and the loop's increment.
PopFront ==
  /\ Goto("pop", "front")
  /\ m_pipelineMutex = "free"
  /\ m_pipeline' = Tail(m_pipeline)
  /\ i' = i + 1
  /\ UNCHANGED <<m_pipelineMutex, m_delegate, added, delivered,
                 m_pipelineThreadRunning, entries, entry, producer, owner>>

WorkerStep == \/ Start \/ While \/ Lock \/ Predicate \/ Block
              \/ BatchSize \/ Front \/ Deliver \/ PopFront

-----------------------------------------------------------------------------
(* The producers.                                                          *)

\* notify_all(): wakes the worker if it is blocked, and is lost otherwise.
NotifyAll == pc' = IF pc = "blocked" THEN "relock" ELSE pc

\* Fault: the deque is changed without the mutex.
AddUnlocked(p) ==
  /\ owner = "alive"
  /\ producer[p] # "done"
  /\ Len(added) < MaxAdds
  /\ \E e \in Entries :
       /\ m_pipeline' = Append(m_pipeline, e)
       /\ added' = Append(added, e)
  /\ producer' = [producer EXCEPT ![p] = "owes"]
  /\ UNCHANGED <<m_pipelineMutex, m_delegate, delivered,
                 m_pipelineThreadRunning, pc, locals, owner>>

\* add(): one critical section.
Add(p) ==
  /\ owner = "alive"
  /\ producer[p] # "done"
  /\ m_pipelineMutex = "free"
  /\ Len(added) < MaxAdds
  /\ \E e \in Entries :
       /\ m_pipeline' = Append(m_pipeline, e)
       /\ added' = Append(added, e)
  /\ producer' = [producer EXCEPT ![p] = "owes"]
  /\ UNCHANGED <<m_pipelineMutex, m_delegate, delivered,
                 m_pipelineThreadRunning, pc, locals, owner>>

\* notifyAll(), which the reader threads call after one or more add().
ProducerNotify(p) ==
  /\ producer[p] = "owes"
  /\ NotifyAll
  /\ producer' = [producer EXCEPT ![p] = "idle"]
  /\ UNCHANGED <<deque, m_pipelineThreadRunning, locals, owner>>

\* The reader thread leaves its loop, which it does only between two batches.
ProducerDone(p) ==
  /\ owner = "alive"
  /\ producer[p] = "idle"
  /\ producer' = [producer EXCEPT ![p] = "done"]
  /\ UNCHANGED <<deque, m_pipelineThreadRunning, pc, locals, owner>>

-----------------------------------------------------------------------------
(* The owner.                                                              *)

\* Lines 32-39: the constructor spins until the worker has set the flag.
Construct ==
  /\ owner = "constructing"
  /\ m_pipelineThreadRunning
  /\ owner' = "alive"
  /\ UNCHANGED <<deque, m_pipelineThreadRunning, pc, locals, producer>>

\* Line 42: the destructor stores the flag, without the mutex.  Its callers
\* have joined the reader thread before.
StopStore ==
  /\ owner = "alive"
  /\ \A p \in Producers : producer[p] = "done"
  /\ m_pipelineThreadRunning' = FALSE
  /\ owner' = "notify"
  /\ UNCHANGED <<deque, pc, locals, producer>>

\* Line 45.
StopNotify ==
  /\ owner = "notify"
  /\ NotifyAll
  /\ owner' = "join"
  /\ UNCHANGED <<deque, m_pipelineThreadRunning, locals, producer>>

\* Fault: the thread is detached instead of joined, and goes on with what it
\* finds in the memory of the deque.
Detach ==
  /\ owner = "join"
  /\ owner' = "destroyed"
  /\ UNCHANGED <<deque, m_pipelineThreadRunning, pc, locals, producer>>

\* Lines 47-53: join(), then the members are destroyed.
Join ==
  /\ owner = "join"
  /\ pc = "exit"
  /\ owner' = "destroyed"
  /\ m_pipeline' = <<>>
  /\ UNCHANGED <<m_pipelineMutex, m_delegate, added, delivered,
                 m_pipelineThreadRunning, pc, locals, producer>>

-----------------------------------------------------------------------------
Next ==
  \/ WorkerStep
  \/ SpuriousWakeup
  \/ \E p \in Producers : Add(p) \/ ProducerNotify(p) \/ ProducerDone(p)
  \/ Construct \/ StopStore \/ StopNotify \/ Join

Spec == Init /\ [][Next]_vars

(***************************************************************************)
(* The operating system schedules every runnable thread and every thread   *)
(* of the program carries on: the worker, the constructor's spin loop, a   *)
(* destructor that was entered, and a producer that has added entries.     *)
(* Nothing forces a producer to add, the owner to destroy the pipeline, or *)
(* a spurious wake-up to happen.                                           *)
(***************************************************************************)
Fairness ==
  /\ WF_vars(WorkerStep)
  /\ WF_vars(Construct)
  /\ WF_vars(StopNotify)
  /\ WF_vars(Join)
  /\ \A p \in Producers : WF_vars(ProducerNotify(p))

FairSpec == Spec /\ Fairness

-----------------------------------------------------------------------------
(* Properties.                                                             *)

\* The entries the delegate has not seen: during "pop" the front entry of the
\* deque has been handed over already.
Undelivered == IF pc = "pop" THEN Tail(m_pipeline) ELSE m_pipeline

\* Every entry given to add() is either handed to the delegate or still in the
\* deque, exactly once and in the order of the calls, although the worker
\* copies the front entry, calls the delegate and pops in three critical
\* sections with additions in between.
NothingLostOrRepeated ==
  m_delegate /\ owner # "destroyed" => added = delivered \o Undelivered

\* front() and pop_front() are never called on an empty deque: the batch size
\* read once stays a lower bound of what is in the deque.
BatchIsInDeque ==
  /\ pc \in {"front", "deliver", "pop"} => Len(m_pipeline) >= entries - i
  /\ pc \in {"deliver", "pop"} => i < entries
  /\ pc = "deliver" => entry = <<Head(m_pipeline)>>

\* No wake-up for an entry is lost: when the worker sleeps while the deque is
\* not empty, some producer has still to call notifyAll().
NoLostNotification ==
  pc = "blocked" /\ m_pipeline # <<>> =>
    \E p \in Producers : producer[p] = "owes"

\* The delegate, which runs code of the class that owns the pipeline, is never
\* called once the destructor has returned.
NoDeliveryAfterDestruction ==
  [][owner = "destroyed" => UNCHANGED delivered]_vars

\* The pipeline implements the FIFO its users rely on, with its liveness.
Fifo == INSTANCE OrderedDelivery
          WITH pending <- Undelivered, delivered <- delivered,
               sink <- m_delegate, open <- owner # "destroyed"
ImplementsOrderedDelivery == Fifo!FairSpec

\* "Wake any waiting threads." (line 44): a destructor that has cleared the
\* flag wakes the worker and returns.
DestructorReturns == owner = "notify" ~> owner = "destroyed"

\* The destructor does return whenever the flag was not cleared between the
\* worker's evaluation of the predicate and its blocking.
DestructorReturnsOutsideWindow ==
  (owner = "notify" /\ pc # "block") ~> owner = "destroyed"
=============================================================================
