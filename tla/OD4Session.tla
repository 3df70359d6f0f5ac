----------------------------- MODULE OD4Session -----------------------------
(***************************************************************************)
(* cluon::OD4Session (libcluon/src/OD4Session.cpp, include/cluon/          *)
(* OD4Session.hpp): the callback that the receiver's pipeline runs for     *)
(* every datagram, the data-triggered delegates that user threads install  *)
(* and remove meanwhile, and the order in which the session's members are  *)
(* constructed and destroyed.  The receiver is taken by what UDPReceiver   *)
(* shows of it: datagrams of other senders, one at a time, from one        *)
(* thread.                                                                 *)
(* A datagram is the identifier of the message in it, or Garbage when      *)
(* extractEnvelope() fails on it.                                          *)
(***************************************************************************)
EXTENDS Naturals, FiniteSets

CONSTANTS
  MessageIDs,       \* message identifiers
  Garbage,          \* a datagram that holds no Envelope
  Functions,        \* the delegates users install
  Null,             \* an empty std::function
  Users,            \* the threads calling dataTrigger
  CatchAll,         \* SUBSET BOOLEAN: is m_delegate given to the constructor?
  ReentrantUse,     \* do delegates call dataTrigger themselves?
  MaxCalls          \* bound on the calls of dataTrigger

ASSUME OD4Assumption ==
  /\ Garbage \notin MessageIDs
  /\ Null \notin Functions
  /\ CatchAll \subseteq BOOLEAN
  /\ ReentrantUse \in BOOLEAN
  /\ MaxCalls \in Nat

VARIABLES
  m_delegate,       \* TRUE iff the catch-all delegate is not null
  m_mapOfDataTriggeredDelegates,
  mapMutex,         \* "free", or held by the "worker" between steps
  members,          \* "alive", or "destroyed" once the session's other members are
  m_receiver,       \* "null", "alive" or "destroyed"
  owner,            \* where the owner is: "constructing", "alive", "destroying", "gone"
  pc,               \* where the worker is in callback()
  data,             \* its argument
  numberOfDataTriggeredDelegates,
  running,          \* the delegate that is running, or Null
  eligible,         \* history: data's delegate is installed since callback() looked
  user,             \* per user: Idle, or the call <<identifier, delegate>> it waits with
  calls             \* number of calls of dataTrigger so far

map   == m_mapOfDataTriggeredDelegates
life  == <<members, m_receiver, owner, m_delegate>>
local == <<pc, data, numberOfDataTriggeredDelegates, running, eligible>>
vars  == <<map, mapMutex, life, local, user, calls>>

Delegates == Functions \union {Null}
Idle == <<>>  \* no call under way

TypeOK ==
  /\ m_delegate \in BOOLEAN
  /\ DOMAIN map \subseteq MessageIDs
  /\ \A m \in DOMAIN map : map[m] \in Delegates
  /\ mapMutex \in {"free", "worker"}
  /\ members \in {"alive", "destroyed"}
  /\ m_receiver \in {"null", "alive", "destroyed"}
  /\ owner \in {"constructing", "alive", "destroying", "gone"}
  /\ pc \in {"idle", "size", "unpack", "dispatch", "delegate", "catchall", "reenter"}
  /\ data \in MessageIDs \union {Garbage}
  /\ numberOfDataTriggeredDelegates \in Nat
  /\ running \in Delegates
  /\ eligible \in BOOLEAN
  /\ user \in [Users -> {Idle} \union (MessageIDs \X Delegates)]
  /\ calls \in 0 .. MaxCalls

Init ==
  /\ m_delegate \in CatchAll
  /\ map = [m \in {} |-> Null]
  /\ mapMutex = "free"
  /\ members = "alive"
  /\ m_receiver = "null"
  /\ owner = "constructing"
  /\ pc = "idle"
  /\ data = Garbage
  /\ numberOfDataTriggeredDelegates = 0
  /\ running = Null
  /\ eligible = FALSE
  /\ user = [u \in Users |-> Idle]
  /\ calls = 0

-----------------------------------------------------------------------------
(* The session's lifetime.                                                 *)

\* The constructor of the receiver returns, and m_receiver is assigned; its
\* threads run before that.
Construct ==
  /\ owner = "constructing"
  /\ owner' = "alive"
  /\ m_receiver' = "alive"
  /\ UNCHANGED <<map, mapMutex, members, m_delegate, local, user, calls>>

\* There is no destructor: members are destroyed in the reverse order of their
\* declaration, the map, its mutex, m_delegate and m_sender before m_receiver.
DestroyMembers ==
  /\ owner = "alive"
  /\ \A u \in Users : user[u] = Idle
  /\ owner' = "destroying"
  /\ members' = "destroyed"
  /\ UNCHANGED <<map, mapMutex, m_receiver, m_delegate, local, user, calls>>


\* ~UDPReceiver joins the reader and the pipeline's worker.
DestroyReceiver ==
  /\ owner = "destroying"
  /\ pc = "idle"
  /\ owner' = "gone"
  /\ m_receiver' = "destroyed"
  /\ UNCHANGED <<map, mapMutex, members, m_delegate, local, user, calls>>

-----------------------------------------------------------------------------
(* dataTrigger().                                                          *)

\* A user calls dataTrigger(m, f): nothing happens when there is a catch-all
\* delegate (it returns false), otherwise the user waits for the map's mutex.
CallDataTrigger(u, m, f) ==
  /\ owner = "alive"
  /\ user[u] = Idle
  /\ calls < MaxCalls
  /\ calls' = calls + 1
  /\ user' = IF m_delegate THEN user ELSE [user EXCEPT ![u] = <<m, f>>]
  /\ UNCHANGED <<map, mapMutex, life, local>>

Without(fn, m) == [n \in DOMAIN fn \ {m} |-> fn[n]]
With(fn, m, f) == [n \in DOMAIN fn \union {m} |-> IF n = m THEN f ELSE fn[n]]

\* Fault: the delegate is stored for the message received last.
AssignToData(m, f) ==
  m_mapOfDataTriggeredDelegates' =
    IF f = Null /\ m \in DOMAIN map THEN Without(map, m) ELSE With(map, data, f)

\* The critical section: nullptr erases an entry that exists; everything else,
\* nullptr for an identifier without entry included, is stored.
Assign(m, f) ==
  m_mapOfDataTriggeredDelegates' =
    IF f = Null /\ m \in DOMAIN map THEN Without(map, m) ELSE With(map, m, f)

DataTrigger(u) ==
  /\ user[u] # Idle
  /\ mapMutex = "free"
  /\ LET m == user[u][1]
         f == user[u][2]
     IN  /\ Assign(m, f)
         /\ eligible' = (eligible /\ (m = data => f # Null))
  /\ user' = [user EXCEPT ![u] = Idle]
  /\ UNCHANGED <<mapMutex, life, pc, data, numberOfDataTriggeredDelegates,
                 running, calls>>

-----------------------------------------------------------------------------
(* callback(), run by the worker of the receiver's pipeline.               *)

\* There is a non-empty function for the message.
Callable(m) == m \in DOMAIN map /\ map[m] # Null

At(from, to) == pc = from /\ pc' = to

\* A datagram arrives, also before m_receiver is assigned.
Receive(d) ==
  /\ owner # "gone"
  /\ At("idle", "size")
  /\ data' = d
  /\ UNCHANGED <<map, mapMutex, life, numberOfDataTriggeredDelegates, running,
                 eligible, user, calls>>

\* The number of delegates, read under the map's mutex.
Size ==
  /\ At("size", "unpack")
  /\ mapMutex = "free"
  /\ numberOfDataTriggeredDelegates' = Cardinality(DOMAIN map)
  /\ eligible' = Callable(data)
  /\ UNCHANGED <<map, mapMutex, life, data, running, user, calls>>

\* Where an unpacked Envelope goes, n being the number of delegates that makes
\* unpacking worthwhile.
UnpackAbove(n) ==
  /\ IF /\ m_delegate \/ numberOfDataTriggeredDelegates > n
        /\ data # Garbage
     THEN At("unpack", IF m_delegate THEN "catchall" ELSE "dispatch")
     ELSE At("unpack", "idle")
  /\ UNCHANGED <<map, mapMutex, life, data, numberOfDataTriggeredDelegates,
                 running, eligible, user, calls>>

\* Fault: one delegate alone is overlooked.
UnpackForSeveral == UnpackAbove(1)

\* The Envelope is unpacked only when someone is interested in it.
Unpack == UnpackAbove(0)

\* The catch-all delegate runs, and returns.
CatchAllReturns ==
  /\ At("catchall", "idle")
  /\ UNCHANGED <<map, mapMutex, life, data, numberOfDataTriggeredDelegates,
                 running, eligible, user, calls>>

\* Fault: the delegate is looked up under the mutex and called after it.
DispatchUnlocked ==
  /\ mapMutex = "free"
  /\ \/ /\ Callable(data)
        /\ At("dispatch", "delegate")
        /\ running' = map[data]
     \/ /\ ~Callable(data)
        /\ At("dispatch", "idle")
        /\ UNCHANGED running
  /\ UNCHANGED <<map, mapMutex, life, data, numberOfDataTriggeredDelegates,
                 eligible, user, calls>>

\* With the mutex held, the delegate for the message is called; calling an
\* empty function throws bad_function_call, which is caught.
Dispatch ==
  /\ mapMutex = "free"
  /\ \/ /\ Callable(data)
        /\ At("dispatch", "delegate")
        /\ mapMutex' = "worker"
        /\ running' = map[data]
     \/ /\ ~Callable(data)
        /\ At("dispatch", "idle")
        /\ UNCHANGED <<mapMutex, running>>
  /\ UNCHANGED <<map, life, data, numberOfDataTriggeredDelegates, eligible,
                 user, calls>>

\* The delegate itself calls dataTrigger(), which waits for the mutex that its
\* own thread holds (std::mutex is not recursive): no step leaves "reenter".
Reenter ==
  /\ ReentrantUse
  /\ At("delegate", "reenter")
  /\ UNCHANGED <<map, mapMutex, life, data, numberOfDataTriggeredDelegates,
                 running, eligible, user, calls>>

\* Fault: the mutex is not released on the way out.
DelegateReturnsLocked ==
  /\ At("delegate", "idle")
  /\ running' = Null
  /\ UNCHANGED <<map, mapMutex, life, data, numberOfDataTriggeredDelegates,
                 eligible, user, calls>>

DelegateReturns ==
  /\ At("delegate", "idle")
  /\ mapMutex' = "free"
  /\ running' = Null
  /\ UNCHANGED <<map, life, data, numberOfDataTriggeredDelegates, eligible,
                 user, calls>>

WorkerStep == \/ Size \/ Unpack \/ CatchAllReturns \/ Dispatch
              \/ DelegateReturns

-----------------------------------------------------------------------------
Next ==
  \/ Construct \/ DestroyMembers \/ DestroyReceiver
  \/ \E u \in Users, m \in MessageIDs, f \in Delegates : CallDataTrigger(u, m, f)
  \/ \E u \in Users : DataTrigger(u)
  \/ \E d \in MessageIDs \union {Garbage} : Receive(d)
  \/ WorkerStep \/ Reenter

Spec == Init /\ [][Next]_vars

(***************************************************************************)
(* The worker and the threads inside dataTrigger() are scheduled.  For a   *)
(* user the fairness is strong: the mutex is released between two          *)
(* delegates, and a waiting thread gets it eventually.                     *)
(***************************************************************************)
Fairness ==
  /\ WF_vars(WorkerStep)
  /\ WF_vars(Construct)
  /\ \A u \in Users : SF_vars(DataTrigger(u))

FairSpec == Spec /\ Fairness

-----------------------------------------------------------------------------
(* Properties.                                                             *)

\* A delegate that runs is the one installed for the message at this moment:
\* when dataTrigger() has replaced or erased it, it is not running any more.
RunningDelegateIsInstalled ==
  pc = "delegate" => data \in DOMAIN map /\ map[data] = running

\* callback() ends without calling a delegate only if none was installed for
\* the message all the time since it looked, although it looks at the number
\* of delegates and at the map in two critical sections.
NoEnvelopeMissed ==
  [][(pc \in {"unpack", "dispatch"} /\ pc' = "idle") => eligible = FALSE]_vars


\* Every callback comes to its end, and with it the receiver goes on, unless a
\* delegate calls dataTrigger() itself.
CallbackReturns == pc # "idle" ~> pc \in {"idle", "reenter"}


\* The delegate is the "Function to call on newly arriving Envelopes"
\* (OD4Session.hpp:88): callback() uses the session's delegates only as long
\* as they exist.
CallbackUsesLiveMembers == pc # "idle" => members = "alive"
=============================================================================
