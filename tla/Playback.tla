------------------------------ MODULE Playback ------------------------------
(***************************************************************************)
(* What a cluon::Player promises to the program that replays a recording:  *)
(* the entries of the recording one after the other, each of them as it    *)
(* was recorded, from wherever the program last went to.                   *)
(* An entry is named by its place 1 .. N in chronological order.           *)
(***************************************************************************)
EXTENDS Integers

CONSTANT N

VARIABLES
  rewinds,    \* at the end, the player starts again
  position,   \* the entry to be returned next; N + 1 at the end
  result      \* the last answer, [valid, entry]

playbackVars == <<rewinds, position, result>>

Nothing == [valid |-> FALSE, entry |-> 0]

PlaybackInit ==
  /\ rewinds \in BOOLEAN
  /\ position = 1
  /\ result = Nothing

\* The next entry is returned.
Return ==
  /\ position <= N
  /\ result' = [valid |-> TRUE, entry |-> position]
  /\ position' = position + 1
  /\ UNCHANGED rewinds

\* There is none, and the player does not start again.
AtEnd ==
  /\ position = N + 1
  /\ ~rewinds \/ N = 0
  /\ result' = Nothing
  /\ UNCHANGED <<rewinds, position>>

Rewind ==
  /\ position' = 1
  /\ result' = Nothing
  /\ UNCHANGED rewinds

Seek ==
  /\ \E k \in 1 .. N : position' = k
  /\ result' = Nothing
  /\ UNCHANGED rewinds

PlaybackNext == Return \/ AtEnd \/ Rewind \/ Seek

PlaybackSpec == PlaybackInit /\ [][PlaybackNext]_playbackVars
=============================================================================
