-------------------------- MODULE OrderedDelivery --------------------------
(***************************************************************************)
(* What a cluon::NotifyingPipeline promises the classes that use it        *)
(* (UDPReceiver and TCPConnection): an unbounded FIFO between the threads  *)
(* that add entries and the delegate, which receives every entry once, in  *)
(* the order of the additions, until the pipeline is destroyed.            *)
(***************************************************************************)
EXTENDS Sequences

CONSTANT Entries        \* the values handed to add()

VARIABLES
  pending,              \* entries added and not yet handed to the delegate
  delivered,            \* entries handed to the delegate, in order
  sink,                 \* TRUE iff the pipeline was given a non-null delegate
  open                  \* FALSE once the destructor has returned

vars == <<pending, delivered, sink, open>>

Init ==
  /\ pending = <<>>
  /\ delivered = <<>>
  /\ sink \in BOOLEAN
  /\ open = TRUE

\* A producer hands over one entry.
Put ==
  /\ open
  /\ \E e \in Entries : pending' = Append(pending, e)
  /\ UNCHANGED <<delivered, sink, open>>

\* The oldest entry is handed to the delegate, or dropped when there is none.
Take ==
  /\ open
  /\ pending # <<>>
  /\ delivered' = IF sink THEN Append(delivered, Head(pending)) ELSE delivered
  /\ pending' = Tail(pending)
  /\ UNCHANGED <<sink, open>>

\* The destructor returns; what is still pending is lost.
Close ==
  /\ open
  /\ open' = FALSE
  /\ pending' = <<>>
  /\ UNCHANGED <<delivered, sink>>

Next == Put \/ Take \/ Close

Spec == Init /\ [][Next]_vars

\* No entry waits for ever in a pipeline that stays open.
FairSpec == Spec /\ WF_vars(Take)
=============================================================================
