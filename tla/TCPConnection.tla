--------------------------- MODULE TCPConnection ---------------------------
(***************************************************************************)
(* cluon::TCPConnection (libcluon/src/TCPConnection.cpp): a socket, a      *)
(* reader thread (readFromSocket), a NotifyingPipeline whose worker calls  *)
(* the newDataDelegate, and the owner, which constructs the connection,    *)
(* exchanges its delegates, sends, and destroys it.  The pipeline is taken *)
(* by its promise, OrderedDelivery, which NotifyingPipeline implements:    *)
(* pending is its content, Deliver its worker's call of the delegate.      *)
(* The peer sends numbered blocks of bytes; a block is what one recv()     *)
(* returns.                                                                *)
(***************************************************************************)
EXTENDS Naturals, Sequences

CONSTANTS
  InitialDelegates, \* SUBSET BOOLEAN: is a newDataDelegate given to the constructor?
  SetDelegates,     \* SUBSET BOOLEAN: the arguments of setOnNewData (FALSE: nullptr)
  ThreadsMayFail,   \* may the construction of a std::thread throw?
  Interrupts,       \* may a signal interrupt select()?
  MaxBlocks,        \* bound on the blocks the peer sends
  MaxSends          \* bound on the calls of send() that find the connection lost

ASSUME TCPAssumption ==
  /\ InitialDelegates \subseteq BOOLEAN
  /\ SetDelegates \subseteq BOOLEAN
  /\ ThreadsMayFail \in BOOLEAN
  /\ Interrupts \in BOOLEAN
  /\ MaxBlocks \in Nat
  /\ MaxSends \in Nat

VARIABLES
  m_socket,                       \* "open" or "closed" (-1)
  m_readFromSocketThreadRunning,  \* the atomic flag of the reader
  m_newDataDelegate,              \* TRUE iff not null
  m_connectionLostDelegate,       \* TRUE iff not null
  m_pipeline,                     \* TRUE iff the shared_ptr is not null
  pending,                        \* blocks in the pipeline
  reader,                         \* where the reader is in readFromSocket()
  hasNewDataDelegate,             \* its local
  buffer,                         \* the block it has read and not yet stored
  owner,                          \* where the owner is
  peer,                           \* external: "open", "closed" or "reset"
  sent,                           \* external: number of blocks sent by the peer
  inFlight,                       \* external: blocks not yet read
  delivered,                      \* history: blocks given to the newDataDelegate
  lostCalls,                      \* history: calls of the connectionLostDelegate
  refused,                        \* number of send() that returned ENOTCONN
  terminated                      \* TRUE after std::terminate()

network   == <<peer, sent, inFlight>>
delegates == <<m_newDataDelegate, m_connectionLostDelegate>>
readerVars == <<reader, hasNewDataDelegate, buffer>>
history   == <<delivered, lostCalls, refused, terminated>>
flags     == <<m_socket, m_readFromSocketThreadRunning, m_pipeline>>
vars == <<network, delegates, readerVars, history, flags, pending, owner>>

Blocks == 1 .. MaxBlocks

TypeOK ==
  /\ m_socket \in {"open", "closed"}
  /\ m_readFromSocketThreadRunning \in BOOLEAN
  /\ m_newDataDelegate \in BOOLEAN
  /\ m_connectionLostDelegate \in BOOLEAN
  /\ m_pipeline \in BOOLEAN
  /\ pending \in Seq(Blocks)
  /\ reader \in {"none", "start", "while", "select", "recv", "store", "lost", "exit"}
  /\ hasNewDataDelegate \in BOOLEAN
  /\ buffer \in Seq(Blocks)
  /\ owner \in {"connect", "spin", "pipeline", "alive", "join", "reset", "close", "gone"}
  /\ peer \in {"open", "closed", "reset"}
  /\ sent \in 0 .. MaxBlocks
  /\ inFlight \in Seq(Blocks)
  /\ delivered \in Seq(Blocks)
  /\ lostCalls \in 0 .. refused + 1
  /\ refused \in 0 .. MaxSends
  /\ terminated \in BOOLEAN

Init ==
  /\ m_socket = "open"
  /\ m_readFromSocketThreadRunning = FALSE
  /\ m_newDataDelegate \in InitialDelegates
  /\ m_connectionLostDelegate \in BOOLEAN
  /\ m_pipeline = FALSE
  /\ pending = <<>>
  /\ reader = "none"
  /\ hasNewDataDelegate = FALSE
  /\ buffer = <<>>
  /\ owner = "connect"
  /\ peer = "open"
  /\ sent = 0
  /\ inFlight = <<>>
  /\ delivered = <<>>
  /\ lostCalls = 0
  /\ refused = 0
  /\ terminated = FALSE

-----------------------------------------------------------------------------
(* The owner.                                                              *)

\* std::terminate() ends every thread.
OwnerAt(from, to) == ~terminated /\ owner = from /\ owner' = to

\* The address is not valid, or connect() fails: the socket is closed and no
\* thread is started.
ConnectFails ==
  /\ OwnerAt("connect", "alive")
  /\ m_socket' = "closed"
  /\ UNCHANGED <<network, delegates, readerVars, history, pending,
                 m_readFromSocketThreadRunning, m_pipeline>>

\* The socket is connected (or was accepted by a TCPServer):
\* startReadingFromSocket() creates the reader thread.
StartReader ==
  /\ OwnerAt("connect", "spin")
  /\ reader' = "start"
  /\ UNCHANGED <<network, delegates, hasNewDataDelegate, buffer, history,
                 pending, flags>>

\* "Constructing a thread could fail."
ReaderThreadFails ==
  /\ ThreadsMayFail
  /\ OwnerAt("connect", "pipeline")
  /\ m_socket' = "closed"
  /\ UNCHANGED <<network, delegates, readerVars, history, pending,
                 m_readFromSocketThreadRunning, m_pipeline>>

\* "Let the operating system spawn the thread.": a poll that sees the flag.
Spin ==
  /\ OwnerAt("spin", "pipeline")
  /\ m_readFromSocketThreadRunning
  /\ UNCHANGED <<network, delegates, readerVars, history, pending, flags>>

\* The pipeline is created after the reader thread has been started.
MakePipeline ==
  /\ OwnerAt("pipeline", "alive")
  /\ m_pipeline' = TRUE
  /\ UNCHANGED <<network, delegates, readerVars, history, pending, m_socket,
                 m_readFromSocketThreadRunning>>

\* The pipeline's thread could not be created: the socket is closed, and the
\* reader thread goes on.
PipelineFails ==
  /\ ThreadsMayFail
  /\ OwnerAt("pipeline", "alive")
  /\ m_socket' = "closed"
  /\ UNCHANGED <<network, delegates, readerVars, history, pending,
                 m_readFromSocketThreadRunning, m_pipeline>>

setOnNewData(d) ==
  /\ ~terminated
  /\ owner = "alive"
  /\ m_newDataDelegate' = d
  /\ UNCHANGED <<network, m_connectionLostDelegate, readerVars, history,
                 pending, flags, owner>>

setOnConnectionLost(d) ==
  /\ ~terminated
  /\ owner = "alive"
  /\ m_connectionLostDelegate' = d
  /\ UNCHANGED <<network, m_newDataDelegate, readerVars, history, pending,
                 flags, owner>>

\* Fault: any send() that fails reports a lost connection.
SendReportsAnyFailure ==
  /\ ~terminated
  /\ owner = "alive"
  /\ m_socket = "open"
  /\ refused < MaxSends
  /\ refused' = refused + 1
  /\ lostCalls' = IF m_connectionLostDelegate THEN lostCalls + 1 ELSE lostCalls
  /\ UNCHANGED <<network, delegates, readerVars, delivered, terminated,
                 pending, flags, owner>>

\* send() on an open socket whose reader has stopped calls the
\* connectionLostDelegate and returns ENOTCONN.  The other outcomes (EBADF, no
\* bytes, E2BIG, the result of ::send) change nothing here.
SendOnLostConnection ==
  /\ ~terminated
  /\ owner = "alive"
  /\ m_socket = "open"
  /\ ~m_readFromSocketThreadRunning
  /\ refused < MaxSends
  /\ refused' = refused + 1
  /\ lostCalls' = IF m_connectionLostDelegate THEN lostCalls + 1 ELSE lostCalls
  /\ UNCHANGED <<network, delegates, readerVars, delivered, terminated,
                 pending, flags, owner>>


\* The destructor stops the reader.
Destruct ==
  /\ OwnerAt("alive", "join")
  /\ m_readFromSocketThreadRunning' = FALSE
  /\ UNCHANGED <<network, delegates, readerVars, history, pending, m_socket,
                 m_pipeline>>

\* Fault: the reader is not joined.
JoinNobody ==
  /\ OwnerAt("join", "reset")
  /\ UNCHANGED <<network, delegates, readerVars, history, pending, flags>>

\* It joins the reader, if there is one.
JoinReader ==
  /\ OwnerAt("join", "reset")
  /\ reader \in {"none", "exit"}
  /\ UNCHANGED <<network, delegates, readerVars, history, pending, flags>>

\* m_pipeline.reset() joins the pipeline's worker; what is pending is lost.
ResetPipeline ==
  /\ OwnerAt("reset", "close")
  /\ m_pipeline' = FALSE
  /\ pending' = <<>>
  /\ UNCHANGED <<network, delegates, readerVars, history, m_socket,
                 m_readFromSocketThreadRunning>>

closeSocket ==
  /\ OwnerAt("close", "gone")
  /\ m_socket' = "closed"
  /\ UNCHANGED <<network, delegates, readerVars, history, pending,
                 m_readFromSocketThreadRunning, m_pipeline>>

-----------------------------------------------------------------------------
(* The reader thread.                                                      *)

ReaderAt(from, to) == ~terminated /\ reader = from /\ reader' = to

ReadStart ==
  /\ ReaderAt("start", "while")
  /\ m_readFromSocketThreadRunning' = TRUE
  /\ UNCHANGED <<network, delegates, hasNewDataDelegate, buffer, history,
                 pending, m_socket, m_pipeline, owner>>

ReadWhile ==
  /\ ReaderAt("while", IF m_readFromSocketThreadRunning THEN "select" ELSE "exit")
  /\ UNCHANGED <<network, delegates, hasNewDataDelegate, buffer, history,
                 pending, flags, owner>>

\* What select() may report.  On a socket that was closed (-1) FD_SET is
\* undefined: anything.
Readable == IF m_socket = "open" THEN {inFlight # <<>> \/ peer # "open"} ELSE BOOLEAN

\* Fault: the socket is read whether or not there is a newDataDelegate.
SelectUngated ==
  /\ UNCHANGED hasNewDataDelegate
  /\ \E readable \in Readable : ReaderAt("select", IF readable THEN "recv" ELSE "while")
  /\ UNCHANGED <<network, delegates, buffer, history, pending, flags, owner>>

\* select() with its timeout, then the delegate is looked at under its mutex
\* until it was seen once; the socket is read only after that.
Select ==
  /\ hasNewDataDelegate' = (hasNewDataDelegate \/ m_newDataDelegate)
  /\ \E readable \in Readable :
       ReaderAt("select", IF readable /\ hasNewDataDelegate' THEN "recv" ELSE "while")
  /\ UNCHANGED <<network, delegates, buffer, history, pending, flags, owner>>

\* An interrupted select() returns -1 and leaves its set of descriptors as it
\* was; the code does not look at the result, and goes on to recv().
SelectInterrupted ==
  /\ Interrupts
  /\ hasNewDataDelegate' = (hasNewDataDelegate \/ m_newDataDelegate)
  /\ ReaderAt("select", IF hasNewDataDelegate' THEN "recv" ELSE "while")
  /\ UNCHANGED <<network, delegates, buffer, history, pending, flags, owner>>

\* recv() on a blocking socket: the next block, or the end of the stream or an
\* error, which clears the flag.
Recv ==
  /\ \/ /\ m_socket = "open"
        /\ inFlight # <<>>
        /\ ReaderAt("recv", "store")
        /\ buffer' = <<Head(inFlight)>>
        /\ inFlight' = Tail(inFlight)
        /\ UNCHANGED m_readFromSocketThreadRunning
     \/ /\ (inFlight = <<>> /\ peer # "open") \/ m_socket = "closed"
        /\ ReaderAt("recv", "lost")
        /\ m_readFromSocketThreadRunning' = FALSE
        /\ UNCHANGED <<buffer, inFlight>>
  /\ UNCHANGED <<peer, sent, delegates, hasNewDataDelegate, history, pending,
                 m_socket, m_pipeline, owner>>

\* Fault: the delegate is not called when the stream ends.
EndSilently ==
  /\ ReaderAt("lost", "exit")
  /\ UNCHANGED <<network, delegates, hasNewDataDelegate, buffer, history,
                 pending, flags, owner>>

\* Fault: the loop goes on after the end of the stream.
ConnectionLostAgain ==
  /\ ReaderAt("lost", "select")
  /\ lostCalls' = IF m_connectionLostDelegate THEN lostCalls + 1 ELSE lostCalls
  /\ UNCHANGED <<network, delegates, hasNewDataDelegate, buffer, delivered,
                 refused, terminated, pending, flags, owner>>

\* The connectionLostDelegate is called under its mutex, and the loop is left.
ConnectionLost ==
  /\ ReaderAt("lost", "exit")
  /\ lostCalls' = IF m_connectionLostDelegate THEN lostCalls + 1 ELSE lostCalls
  /\ UNCHANGED <<network, delegates, hasNewDataDelegate, buffer, delivered,
                 refused, terminated, pending, flags, owner>>

\* Fault: the block stays in the buffer and is stored a second time.
StoreTwice ==
  /\ ReaderAt("store", "while")
  /\ pending' = IF m_newDataDelegate /\ m_pipeline
                THEN pending \o buffer \o buffer ELSE pending
  /\ buffer' = <<>>
  /\ UNCHANGED <<network, delegates, hasNewDataDelegate, history, flags, owner>>

\* Under the mutex of the delegate: the block goes to the pipeline, if there
\* is a delegate and a pipeline, and is dropped otherwise.
Store ==
  /\ ReaderAt("store", "while")
  /\ pending' = IF m_newDataDelegate /\ m_pipeline
                THEN pending \o buffer ELSE pending
  /\ buffer' = <<>>
  /\ UNCHANGED <<network, delegates, hasNewDataDelegate, history, flags, owner>>

ReaderStep == \/ ReadStart \/ ReadWhile \/ Select \/ SelectInterrupted
              \/ Recv \/ ConnectionLost \/ Store

-----------------------------------------------------------------------------
(* The pipeline's worker runs the lambda of startReadingFromSocket(), which *)
(* calls m_newDataDelegate without its mutex; a null function throws        *)
(* bad_function_call out of a noexcept thread function.                     *)

Deliver ==
  /\ ~terminated
  /\ m_pipeline
  /\ pending # <<>>
  /\ pending' = Tail(pending)
  /\ \/ /\ m_newDataDelegate
        /\ delivered' = Append(delivered, Head(pending))
        /\ UNCHANGED terminated
     \/ /\ ~m_newDataDelegate
        /\ terminated' = TRUE
        /\ UNCHANGED delivered
  /\ UNCHANGED <<network, delegates, readerVars, lostCalls, refused, flags, owner>>

-----------------------------------------------------------------------------
(* The peer.                                                               *)

PeerSend ==
  /\ peer = "open"
  /\ sent < MaxBlocks
  /\ sent' = sent + 1
  /\ inFlight' = Append(inFlight, sent + 1)
  /\ UNCHANGED <<peer, delegates, readerVars, history, pending, flags, owner>>

\* An orderly shutdown; what is in flight can still be read.
PeerClose ==
  /\ peer = "open"
  /\ peer' = "closed"
  /\ UNCHANGED <<sent, inFlight, delegates, readerVars, history, pending,
                 flags, owner>>

\* A reset discards what is in flight.
PeerReset ==
  /\ peer = "open"
  /\ peer' = "reset"
  /\ inFlight' = <<>>
  /\ UNCHANGED <<sent, delegates, readerVars, history, pending, flags, owner>>

-----------------------------------------------------------------------------
Next ==
  \/ ConnectFails \/ StartReader \/ ReaderThreadFails \/ Spin
  \/ MakePipeline \/ PipelineFails
  \/ \E d \in SetDelegates : setOnNewData(d)
  \/ \E d \in BOOLEAN : setOnConnectionLost(d)
  \/ SendOnLostConnection
  \/ Destruct \/ JoinReader \/ ResetPipeline \/ closeSocket
  \/ ReaderStep \/ Deliver
  \/ PeerSend \/ PeerClose \/ PeerReset

Spec == Init /\ [][Next]_vars

(***************************************************************************)
(* Every thread of the program is scheduled: the reader, the pipeline's    *)
(* worker, the rest of a constructor and the rest of a destructor.  The    *)
(* peer, the calls of the owner and the start of the destructor are free.  *)
(***************************************************************************)
Fairness ==
  /\ WF_vars(ReaderStep)
  /\ WF_vars(Deliver)
  /\ WF_vars(ConnectFails \/ StartReader \/ Spin \/ MakePipeline)
  /\ WF_vars(JoinReader \/ ResetPipeline \/ closeSocket)

FairSpec == Spec /\ Fairness

-----------------------------------------------------------------------------
(* Properties.                                                             *)

\* The newDataDelegate never sees a block twice or before an earlier one,
\* whatever is dropped while there is no pipeline or no delegate.
InOrder ==
  \A j, k \in DOMAIN delivered : j < k => delivered[j] < delivered[k]

\* The blocks that reached the newDataDelegate, are in the pipeline or in the
\* reader's buffer are the first ones the peer sent: the stream has no hole.
\* (newDataDelegate "is called whenever new bytes are available to be
\* processed", TCPConnection.hpp:42-43.)
NoHoles ==
  LET received == delivered \o pending \o buffer
  IN  owner \in {"connect", "spin", "pipeline", "alive"} =>
        \A k \in DOMAIN received : received[k] = k

\* The connectionLostDelegate is called, by the reader or by send(), only when
\* the peer has closed or reset the connection, or the constructor has failed
\* and closed the socket.
LostMeansLost == lostCalls > 0 => peer # "open" \/ m_socket = "closed"


\* Neither delegate is called once the destructor has returned.
NoCallbackAfterDestruction ==
  [][owner = "gone" => UNCHANGED <<delivered, lostCalls>>]_vars

\* "Let the operating system spawn the thread." (TCPConnection.cpp:155): the
\* constructor waits for the reader thread to start, then returns.
ConstructorReturns == owner = "spin" ~> owner = "alive"

\* A destructor that was entered returns, whatever the peer does: the reader
\* looks at its flag at least every 20 ms ("Check for new data with 50Hz.",
\* TCPConnection.cpp:235).  It holds as long as no select() is interrupted.
DestructorReturns == owner = "join" ~> (owner = "gone" \/ terminated)

\* A lost connection is reported: once the peer has gone, an open connection
\* with both delegates whose reader is still running, and that is neither
\* changed nor destroyed, calls the connectionLostDelegate.  (Without a
\* newDataDelegate recv() is not called, and nobody sees the end.)
LossIsReported ==
  (/\ peer # "open" /\ owner = "alive" /\ reader \notin {"none", "exit"}
   /\ m_socket = "open"
   /\ m_newDataDelegate /\ m_connectionLostDelegate)
    ~> (\/ lostCalls > 0 \/ owner # "alive" \/ terminated
        \/ ~m_newDataDelegate \/ ~m_connectionLostDelegate)
=============================================================================
