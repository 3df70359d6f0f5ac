---------------------------- MODULE UDPReceiver ----------------------------
(***************************************************************************)
(* cluon::UDPReceiver (libcluon/src/UDPReceiver.cpp): a socket, a reader   *)
(* thread that drains the socket into a NotifyingPipeline in batches, and  *)
(* the pipeline's worker, which calls the delegate.  The pipeline is kept  *)
(* to what NotifyingPipeline shows of it here: its content, and whether    *)
(* its worker sleeps until the next notifyAll().                           *)
(* A datagram is a record [id, from, bytes] with from = <<IP, port>>; one  *)
(* unit of bytes stands for any positive number of bytes.                  *)
(***************************************************************************)
EXTENDS Integers, Sequences

CONSTANTS
  Sources,          \* the senders, pairs <<IP, port>>
  LocalIPs,         \* m_listOfLocalIPAddresses
  SendFromPort,     \* m_localSendFromPort
  ThreadsMayFail,   \* may the construction of a std::thread throw?
  MaxDatagrams,     \* bound on the datagrams that arrive
  Int32Max          \* 2^31 in units of bytes: (int32_t) wraps there

ASSUME UDPAssumption ==
  /\ ThreadsMayFail \in BOOLEAN
  /\ MaxDatagrams \in Nat
  /\ Int32Max \in Nat \ {0}

VARIABLES
  m_socket,                       \* "open" or "closed" (-1)
  m_isBlockingSocket,             \* O_NONBLOCK could not be set
  m_readFromSocketThreadRunning,
  m_delegate,                     \* TRUE iff not null
  m_pipeline,                     \* TRUE iff the shared_ptr is not null
  pending,                        \* datagrams in the pipeline
  asleep,                         \* the pipeline's worker is blocked in wait()
  reader,                         \* where the reader is in readFromSocket()
  totalBytesRead,                 \* its local
  owner,                          \* where the owner is
  arrived,                        \* external: number of datagrams so far
  queue,                          \* external: the socket's receive queue
  readAlive,                      \* history: datagrams read since the constructor returned
  delivered                       \* history: datagrams given to the delegate

network == <<arrived, queue>>
config  == <<m_isBlockingSocket, m_delegate>>
flags   == <<m_socket, m_readFromSocketThreadRunning, m_pipeline>>
worker  == <<pending, asleep, delivered>>
vars == <<network, config, flags, worker, reader, totalBytesRead, owner, readAlive>>

Datagrams == [id : 1 .. MaxDatagrams, from : Sources, bytes : {0, 1}]

TypeOK ==
  /\ m_socket \in {"open", "closed"}
  /\ m_isBlockingSocket \in BOOLEAN
  /\ m_readFromSocketThreadRunning \in BOOLEAN
  /\ m_delegate \in BOOLEAN
  /\ m_pipeline \in BOOLEAN
  /\ pending \in Seq(Datagrams)
  /\ asleep \in BOOLEAN
  /\ reader \in {"none", "start", "while", "select", "recvfrom", "notify", "exit"}
  /\ totalBytesRead \in 0 .. MaxDatagrams
  /\ owner \in {"setup", "spin", "pipeline", "alive", "join", "reset", "close", "gone"}
  /\ arrived \in 0 .. MaxDatagrams
  /\ queue \in Seq(Datagrams)
  /\ readAlive \subseteq Datagrams
  /\ delivered \in Seq(Datagrams)

Init ==
  /\ m_socket = "open"
  /\ m_isBlockingSocket \in BOOLEAN
  /\ m_readFromSocketThreadRunning = FALSE
  /\ m_delegate \in BOOLEAN
  /\ m_pipeline = FALSE
  /\ pending = <<>>
  /\ asleep = FALSE
  /\ reader = "none"
  /\ totalBytesRead = 0
  /\ owner = "setup"
  /\ arrived = 0
  /\ queue = <<>>
  /\ readAlive = {}
  /\ delivered = <<>>

-----------------------------------------------------------------------------
(* The owner.                                                              *)

OwnerAt(from, to) == owner = from /\ owner' = to

\* The address is not valid, or socket(), setsockopt() or bind() fails:
\* no thread is started.
SetupFails ==
  /\ OwnerAt("setup", "alive")
  /\ m_socket' = "closed"
  /\ UNCHANGED <<network, config, worker, m_readFromSocketThreadRunning,
                 m_pipeline, reader, totalBytesRead, readAlive>>

\* The socket is bound, and the group joined; the reader thread is created.
StartReader ==
  /\ OwnerAt("setup", "spin")
  /\ reader' = "start"
  /\ UNCHANGED <<network, config, flags, worker, totalBytesRead, readAlive>>

\* "Constructing the receiving thread could fail."
ReaderThreadFails ==
  /\ ThreadsMayFail
  /\ OwnerAt("setup", "pipeline")
  /\ m_socket' = "closed"
  /\ UNCHANGED <<network, config, worker, m_readFromSocketThreadRunning,
                 m_pipeline, reader, totalBytesRead, readAlive>>

Spin ==
  /\ OwnerAt("spin", "pipeline")
  /\ m_readFromSocketThreadRunning
  /\ UNCHANGED <<network, config, flags, worker, reader, totalBytesRead, readAlive>>

\* The pipeline is created after the reader thread has been started.
MakePipeline ==
  /\ OwnerAt("pipeline", "alive")
  /\ m_pipeline' = TRUE
  /\ UNCHANGED <<network, config, worker, m_socket,
                 m_readFromSocketThreadRunning, reader, totalBytesRead, readAlive>>

\* Its thread could not be created: the socket is closed, the reader goes on.
PipelineFails ==
  /\ ThreadsMayFail
  /\ OwnerAt("pipeline", "alive")
  /\ m_socket' = "closed"
  /\ UNCHANGED <<network, config, worker, m_readFromSocketThreadRunning,
                 m_pipeline, reader, totalBytesRead, readAlive>>


Destruct ==
  /\ OwnerAt("alive", "join")
  /\ m_readFromSocketThreadRunning' = FALSE
  /\ UNCHANGED <<network, config, worker, m_socket, m_pipeline, reader,
                 totalBytesRead, readAlive>>

\* Fault: the reader is not joined.
JoinNobody ==
  /\ OwnerAt("join", "reset")
  /\ UNCHANGED <<network, config, flags, worker, reader, totalBytesRead, readAlive>>

JoinReader ==
  /\ OwnerAt("join", "reset")
  /\ reader \in {"none", "exit"}
  /\ UNCHANGED <<network, config, flags, worker, reader, totalBytesRead, readAlive>>


\* m_pipeline.reset() joins the worker; what is pending is lost.
ResetPipeline ==
  /\ OwnerAt("reset", "close")
  /\ m_pipeline' = FALSE
  /\ pending' = <<>>
  /\ UNCHANGED <<network, config, asleep, delivered, m_socket,
                 m_readFromSocketThreadRunning, reader, totalBytesRead, readAlive>>

closeSocket ==
  /\ OwnerAt("close", "gone")
  /\ m_socket' = "closed"
  /\ UNCHANGED <<network, config, worker, m_readFromSocketThreadRunning,
                 m_pipeline, reader, totalBytesRead, readAlive>>

-----------------------------------------------------------------------------
(* The reader thread.                                                      *)

ReaderAt(from, to) == reader = from /\ reader' = to

ReadStart ==
  /\ ReaderAt("start", "while")
  /\ m_readFromSocketThreadRunning' = TRUE
  /\ UNCHANGED <<network, config, worker, m_socket, m_pipeline,
                 totalBytesRead, owner, readAlive>>

ReadWhile ==
  /\ ReaderAt("while", IF m_readFromSocketThreadRunning THEN "select" ELSE "exit")
  /\ UNCHANGED <<network, config, flags, worker, totalBytesRead, owner, readAlive>>

\* What select() may report.  On a socket that was closed (-1) FD_SET is
\* undefined: anything.
Readable == IF m_socket = "open" THEN {queue # <<>>} ELSE BOOLEAN

\* select() with its timeout; without data, the batch is empty.
Select ==
  /\ \E readable \in Readable :
       ReaderAt("select", IF readable THEN "recvfrom" ELSE "notify")
  /\ totalBytesRead' = 0
  /\ UNCHANGED <<network, config, flags, worker, owner, readAlive>>

\* Fault: the sender is recognised by its port only.
FromOurPort(d) == d.from[2] = SendFromPort


\* "Check if the bytes actually came from us."
SentFromUs(d) == d.from[1] \in LocalIPs /\ d.from[2] = SendFromPort

\* Fault: the newest datagram is put in front.
StorePushesToFront(d) ==
  pending' = IF ~SentFromUs(d) /\ m_pipeline THEN <<d>> \o pending ELSE pending

\* What becomes of a datagram that is to be handled: add(), unless it is our
\* own or there is no pipeline yet.
StoreEntry(d) ==
  pending' = IF ~SentFromUs(d) /\ m_pipeline THEN Append(pending, d) ELSE pending

\* Fault: the datagram is looked at and stays in the socket's queue.
PeekBytes ==
  /\ queue # <<>>
  /\ Head(queue).bytes > 0
  /\ ReaderAt("recvfrom", IF m_isBlockingSocket THEN "notify" ELSE "recvfrom")
  /\ IF m_delegate
     THEN /\ StoreEntry(Head(queue))
          /\ totalBytesRead' = totalBytesRead + Head(queue).bytes
     ELSE UNCHANGED <<pending, totalBytesRead>>
  /\ UNCHANGED <<network, config, flags, asleep, delivered, owner, readAlive>>

\* recvfrom() returns a datagram with bytes; on a non-blocking socket the loop
\* goes on.
RecvBytes ==
  /\ m_socket = "open" /\ queue # <<>>
  /\ Head(queue).bytes > 0
  /\ ReaderAt("recvfrom", IF m_isBlockingSocket THEN "notify" ELSE "recvfrom")
  /\ queue' = Tail(queue)
  /\ IF m_delegate
     THEN /\ StoreEntry(Head(queue))
          /\ totalBytesRead' = totalBytesRead + Head(queue).bytes
     ELSE UNCHANGED <<pending, totalBytesRead>>
  /\ readAlive' = readAlive \union IF owner = "alive" THEN {Head(queue)} ELSE {}
  /\ UNCHANGED <<arrived, config, flags, asleep, delivered, owner>>

\* recvfrom() returns an empty datagram, which ends the batch.
RecvEmpty ==
  /\ m_socket = "open" /\ queue # <<>>
  /\ Head(queue).bytes = 0
  /\ ReaderAt("recvfrom", "notify")
  /\ queue' = Tail(queue)
  /\ UNCHANGED <<arrived, config, flags, worker, totalBytesRead, owner, readAlive>>

\* recvfrom() finds nothing more on a non-blocking socket, or fails on a closed
\* one.
RecvNothing ==
  /\ (queue = <<>> /\ ~m_isBlockingSocket) \/ m_socket = "closed"
  /\ ReaderAt("recvfrom", "notify")
  /\ UNCHANGED <<network, config, flags, worker, totalBytesRead, owner, readAlive>>

\* static_cast<int32_t>
ToInt32(n) == LET m == n % (2 * Int32Max)
              IN  IF m >= Int32Max THEN m - 2 * Int32Max ELSE m

\* Fault: off by one, the smallest batch is not notified.
NotifyLargeBatches ==
  /\ ReaderAt("notify", "while")
  /\ asleep' = IF ToInt32(totalBytesRead) > 1 /\ m_pipeline THEN FALSE ELSE asleep
  /\ UNCHANGED <<network, config, flags, pending, delivered, totalBytesRead,
                 owner, readAlive>>

\* One notifyAll() for the batch, if it had any bytes.
Notify ==
  /\ ReaderAt("notify", "while")
  /\ asleep' = IF ToInt32(totalBytesRead) > 0 /\ m_pipeline THEN FALSE ELSE asleep
  /\ UNCHANGED <<network, config, flags, pending, delivered, totalBytesRead,
                 owner, readAlive>>

ReaderStep == \/ ReadStart \/ ReadWhile \/ Select \/ RecvBytes \/ RecvEmpty
              \/ RecvNothing \/ Notify

-----------------------------------------------------------------------------
(* The pipeline's worker.                                                  *)

\* It calls the delegate with the oldest entry.
Deliver ==
  /\ m_pipeline
  /\ ~asleep
  /\ pending # <<>>
  /\ delivered' = Append(delivered, Head(pending))
  /\ pending' = Tail(pending)
  /\ UNCHANGED <<network, config, flags, asleep, reader, totalBytesRead, owner, readAlive>>

\* It finds the pipeline empty and waits for the next notifyAll().
Sleep ==
  /\ m_pipeline
  /\ ~asleep
  /\ pending = <<>>
  /\ asleep' = TRUE
  /\ UNCHANGED <<network, config, flags, pending, delivered, reader,
                 totalBytesRead, owner, readAlive>>

-----------------------------------------------------------------------------
(* The network: datagrams, empty ones included, arrive at an open socket.  *)

Arrive ==
  /\ m_socket = "open"
  /\ arrived < MaxDatagrams
  /\ arrived' = arrived + 1
  /\ \E s \in Sources, b \in {0, 1} :
       queue' = Append(queue, [id |-> arrived + 1, from |-> s, bytes |-> b])
  /\ UNCHANGED <<config, flags, worker, reader, totalBytesRead, owner, readAlive>>

Next ==
  \/ SetupFails \/ StartReader \/ ReaderThreadFails \/ Spin \/ MakePipeline
  \/ PipelineFails \/ Destruct \/ JoinReader \/ ResetPipeline \/ closeSocket
  \/ ReaderStep \/ Deliver \/ Sleep \/ Arrive

Spec == Init /\ [][Next]_vars

\* Every thread of the program is scheduled; the start of the destructor and
\* the network are free.
Fairness ==
  /\ WF_vars(ReaderStep)
  /\ WF_vars(Deliver \/ Sleep)
  /\ WF_vars(SetupFails \/ StartReader \/ Spin \/ MakePipeline)
  /\ WF_vars(JoinReader \/ ResetPipeline \/ closeSocket)

FairSpec == Spec /\ Fairness

-----------------------------------------------------------------------------
(* Properties.                                                             *)

Ids(s) == {s[k].id : k \in DOMAIN s}

\* The delegate sees datagrams in the order in which they arrived and never
\* one twice, whatever was dropped before the pipeline existed.
InOrder ==
  \A j, k \in DOMAIN delivered : j < k => delivered[j].id < delivered[k].id


\* Once the constructor has returned, every datagram read from another sender
\* (another port of this host and the same port of another host included) is
\* delivered or still in the pipeline.
NothingReadIsLost ==
  owner = "alive" /\ m_delegate /\ m_pipeline =>
    \A d \in readAlive : \/ d.from[1] \in LocalIPs /\ d.from[2] = SendFromPort
                         \/ d.id \in Ids(delivered) \union Ids(pending)

\* "Wait until the thread should stop or data is available."
\* (NotifyingPipeline.hpp:72): the worker does not sleep in front of entries
\* unless the reader is still going to notify it.
WorkerIsWokenForData ==
  asleep /\ pending # <<>> /\ owner = "alive" => reader \in {"recvfrom", "notify"}

\* The delegate is never called once the destructor has returned.
NoCallbackAfterDestruction == [][owner = "gone" => UNCHANGED delivered]_vars

\* A destructor that was entered returns.
DestructorReturns == owner = "join" ~> owner = "gone"

\* What is in the pipeline reaches the delegate, unless the receiver is
\* destroyed first.
EntriesAreDelivered ==
  \A n \in 1 .. MaxDatagrams :
    n \in Ids(pending) ~> (n \in Ids(delivered) \/ owner # "alive")
=============================================================================
