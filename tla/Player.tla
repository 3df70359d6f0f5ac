------------------------------- MODULE Player -------------------------------
(***************************************************************************)
(* cluon::Player (libcluon/src/Player.cpp): replays a .rec file.  The      *)
(* index of the file is in memory, the envelopes are read ahead into a     *)
(* cache, by a thread of its own (threading) or one per returned envelope. *)
(*                                                                         *)
(* The entries of m_index are 1 .. N in the order of their time stamps;    *)
(* N + 1 is m_index.end().  A cached envelope is named by its entry; 0 is  *)
(* a default-constructed one.  The keys of m_envelopeCache are cache       *)
(* (envelopes read from the file) and blank (default-constructed by        *)
(* operator[]).  The file could be opened.                                 *)
(***************************************************************************)
EXTENDS Integers, FiniteSets

CONSTANTS
  N,               \* m_index.size()
  Stamps,          \* the time stamps of the entries
  Desired,         \* m_desiredInitialLevel; 5000 or more in the code
  Threading,       \* the constructor's argument
  MaxDelay,        \* MAX_DELAY_IN_MICROSECONDS
  Uint32,          \* 2^32, at which m_delay wraps
  SeekBelowFirst,  \* may seekTo() be asked for a ratio in (0, 1 / N)?
  ReadsMayFail     \* may an indexed entry be unreadable later?

ASSUME PlayerAssumption ==
  /\ N \in Nat
  /\ Stamps \in [1 .. N -> Nat]
  /\ \A j, k \in 1 .. N : j <= k => Stamps[j] <= Stamps[k]
  /\ Desired \in Nat /\ Desired >= 4
  /\ MaxDelay \in Nat
  /\ Uint32 \in Nat /\ Uint32 > MaxDelay
  /\ {Threading, SeekBelowFirst, ReadsMayFail} \subseteq BOOLEAN

VARIABLES
  m_autoRewind,
  prevprev, prev, cur,    \* m_previousPrevious.., m_previous.., m_current..
  next,                   \* m_nextEntryToReadFromRecFile
  cache, blank,           \* m_envelopeCache
  count,                  \* m_numberOfReturnedEnvelopesInTotal
  m_delay,
  m_envelopeCacheFillingThreadIsRunning,
  m_playerListener,       \* TRUE iff not null
  filler, quota, seen,    \* manageCache(): where it is, and its locals
  pc, call, target,       \* the program: where it is, in which call, seekTo's entry
  returned,               \* the last answer of getNextEnvelopeToBeReplayed()
  promised,               \* hasMoreData() when it was called
  status                  \* the last published currentEntryForPlayback

iterators == <<prevprev, prev, cur>>
contents  == <<next, cache, blank>>
position  == <<iterators, contents, count, m_delay>>
thread    == <<m_envelopeCacheFillingThreadIsRunning, filler, quota, seen, status>>
answer    == <<returned, promised>>
config    == <<m_autoRewind, m_playerListener>>
vars == <<config, position, thread, pc, call, target, answer>>

End == N + 1

TypeOK ==
  /\ {m_autoRewind, m_playerListener, promised,
      m_envelopeCacheFillingThreadIsRunning} \subseteq BOOLEAN
  /\ {prevprev, prev, cur, next} \subseteq 1 .. End
  /\ cache \subseteq 1 .. N /\ blank \subseteq 1 .. N
  /\ cache \intersect blank = {}
  /\ count \in 0 .. N
  /\ m_delay \in 0 .. Uint32 - 1
  /\ filler \in {"none", "loop", "size", "fill", "pause", "status", "publish",
                 "exit", "stuck"}
  /\ quota \in Nat
  /\ seen \in 0 .. N /\ status \in 0 .. N
  /\ pc \in {"idle", "check", "take", "refill", "join", "reset", "fill",
             "restart", "gone", "stuck", "undefined"}
  /\ call \in {"none", "construct", "getNext", "rewind", "autoRewind", "seek",
               "seekInside", "destroy"}
  /\ target \in 0 .. End
  /\ returned \in [valid : BOOLEAN, entry : 0 .. N]

NoEnvelope == [valid |-> FALSE, entry |-> 0]

\* The constructor has built the index and is about to fill the cache.
Init ==
  /\ m_autoRewind \in BOOLEAN
  /\ m_playerListener = FALSE
  /\ prevprev = End /\ prev = 1 /\ cur = 1 /\ next = 1
  /\ cache = {} /\ blank = {}
  /\ count = 0 /\ m_delay = 0
  /\ m_envelopeCacheFillingThreadIsRunning = FALSE
  /\ filler = "none" /\ quota = 0 /\ seen = 0 /\ status = 0
  /\ pc = "reset" /\ call = "construct" /\ target = 0
  /\ returned = NoEnvelope
  /\ promised = FALSE

Goto(from, to) == pc = from /\ pc' = to

\* seekTo() turns threading off while it works.
m_threading == Threading /\ call \notin {"seek", "seekInside"}

\* Fault: what is left to be read is taken for what is left to be replayed.
MoreToRead == m_autoRewind \/ next # End

hasMoreData == m_autoRewind \/ cur # End

delay == IF m_delay < MaxDelay THEN m_delay ELSE MaxDelay

-----------------------------------------------------------------------------
(* Reading ahead.                                                          *)

\* Up to n entries, without the one that is not read any more.
ReadUpTo(n) == IF next + n < End THEN next + n ELSE End

\* Fault: the entry is advanced before it is read.
FillAfterNext(n) ==
  /\ next' = ReadUpTo(n)
  /\ cache' = cache \union ((next + 1 .. ReadUpTo(n) - 1) \ blank)
  /\ UNCHANGED blank

\* emplace() does not replace an envelope that operator[] has put there.
fillEnvelopeCache(n) ==
  /\ next' = ReadUpTo(n)
  /\ cache' = cache \union ((next .. ReadUpTo(n) - 1) \ blank)
  /\ UNCHANGED blank

-----------------------------------------------------------------------------
(* rewind(), seekTo() and the destructor stop the filling thread, join it, *)
(* reset everything, fill the cache and start a new thread.                *)

\* Fault: the thread is not told to stop.
StopNothing == UNCHANGED m_envelopeCacheFillingThreadIsRunning

StopFilling ==
  m_envelopeCacheFillingThreadIsRunning' =
    IF Threading THEN FALSE ELSE m_envelopeCacheFillingThreadIsRunning

Begin(c) ==
  /\ Goto("idle", "join")
  /\ call' = c
  /\ StopFilling
  /\ UNCHANGED <<config, position, filler, quota, seen, status, returned>>

rewind == Begin("rewind") /\ UNCHANGED <<target, promised>>

Destruct == Begin("destroy") /\ UNCHANGED <<target, promised>>

\* seekTo(ratio): target is the entry (from 1) at which the loop that skips
\* (uint32_t)(N * ratio) - 1 entries stops, 0 if that number wraps.
SeekToBegin == Begin("seek") /\ target' = 1 /\ UNCHANGED promised

SeekToEnd ==
  /\ N > 0 \/ SeekBelowFirst
  /\ Begin("seek")
  /\ target' = N
  /\ UNCHANGED promised

SeekInside ==
  /\ \E j \in 0 .. N - 1 : (j > 0 \/ SeekBelowFirst) /\ target' = j
  /\ Begin("seekInside")
  /\ UNCHANGED promised

\* Fault: the thread is not joined.
JoinNobody ==
  /\ Goto("join", IF call = "destroy" THEN "gone" ELSE "reset")
  /\ UNCHANGED <<config, position, thread, call, target, answer>>

Join ==
  /\ Goto("join", IF call = "destroy" THEN "gone" ELSE "reset")
  /\ filler \in {"none", "exit"}
  /\ filler' = "none"
  /\ UNCHANGED <<config, position, m_envelopeCacheFillingThreadIsRunning, quota,
                 seen, status, call, target, answer>>

\* Where the iterators are put: the first entry, or where seekTo() goes.
StartEntry == IF call \in {"seek", "seekInside"} THEN target ELSE 1


resetIterators ==
  /\ prevprev' = End
  /\ prev' = StartEntry /\ cur' = StartEntry /\ next' = StartEntry

\* Fault: the number of returned envelopes is kept.
ClearCache ==
  /\ m_delay' = 0
  /\ cache' = {} /\ blank' = {}
  /\ UNCHANGED count

\* seekTo() counts the entries that it skips.
resetCaches ==
  /\ m_delay' = 0
  /\ count' = StartEntry - 1
  /\ cache' = {} /\ blank' = {}

\* What was returned before is forgotten: the abstract player returns nothing
\* from these calls.
Reset ==
  /\ Goto("reset", "fill")
  /\ StartEntry # 0
  /\ resetCaches
  /\ resetIterators
  /\ target' = 1
  /\ returned' = NoEnvelope
  /\ promised' = (promised /\ call = "autoRewind")
  /\ UNCHANGED <<config, thread, call>>

\* 0 - 1 entries are skipped: the iterator is moved past the end of the index.
SkipTooMany ==
  /\ Goto("reset", "undefined")
  /\ StartEntry = 0
  /\ UNCHANGED <<config, position, thread, call, target, answer>>

Fill ==
  /\ Goto("fill", IF call = "seekInside" THEN "check" ELSE "restart")
  /\ fillEnvelopeCache(IF call \in {"seek", "seekInside"}
                       THEN (3 * Desired) \div 10 ELSE Desired)
  /\ UNCHANGED <<config, iterators, count, m_delay, thread, call, target, answer>>

\* The thread is started; a getNextEnvelopeToBeReplayed() that has rewound
\* goes on.
Restart ==
  /\ pc = "restart"
  /\ m_envelopeCacheFillingThreadIsRunning' = Threading
  /\ filler' = IF Threading THEN "loop" ELSE "none"
  /\ IF call = "autoRewind" /\ cur # End
     THEN pc' = "check" /\ call' = "getNext"
     ELSE pc' = "idle" /\ call' = "none"
  /\ UNCHANGED <<config, position, quota, seen, status, target, answer>>

-----------------------------------------------------------------------------
(* getNextEnvelopeToBeReplayed().                                          *)

GetNext ==
  /\ cur # End
  /\ Goto("idle", "check")
  /\ call' = "getNext"
  /\ promised' = hasMoreData
  /\ UNCHANGED <<config, position, thread, target, returned>>

GetNextAtEnd ==
  /\ pc = "idle"
  /\ cur = End
  /\ ~m_autoRewind
  /\ promised' = hasMoreData
  /\ returned' = NoEnvelope
  /\ UNCHANGED <<config, position, thread, pc, call, target>>

GetNextRewinds ==
  /\ cur = End
  /\ m_autoRewind
  /\ Begin("autoRewind")
  /\ promised' = hasMoreData
  /\ UNCHANGED target

\* checkAvailabilityOfNextEnvelopeToBeReplayed(): the cache is not empty.
Check ==
  /\ Goto("check", "take")
  /\ cache \union blank # {}
  /\ UNCHANGED <<config, position, thread, call, target, answer>>

\* Faults: the wrong envelope is dropped from the cache.
EvictNext == IF prevprev # End THEN {cur + 1} ELSE {}
EvictLate == IF prevprev # End THEN {prevprev} ELSE {}

Evicted == IF prevprev # End THEN {prev} ELSE {}

\* operator[] inserts a default-constructed envelope if there is none.  What
\* seekTo() gets is thrown away.
Take ==
  /\ Goto("take", IF m_threading THEN "idle" ELSE "refill")
  /\ call' = IF m_threading THEN "none" ELSE call
  /\ returned' = IF call = "seekInside" THEN returned
                 ELSE [valid |-> TRUE, entry |-> IF cur \in cache THEN cur ELSE 0]
  /\ cache' = cache \ Evicted
  /\ blank' = (blank \union ({cur} \ cache)) \ Evicted
  /\ m_delay' = (Stamps[cur] - Stamps[prev]) % Uint32
  /\ prevprev' = prev
  /\ prev' = cur
  /\ cur' = cur + 1
  /\ count' = count + 1
  /\ UNCHANGED <<config, next, thread, target, promised>>

\* Fault: nothing is read for what was returned.
RefillNothing ==
  /\ Goto("refill", IF call = "seekInside" THEN "restart" ELSE "idle")
  /\ call' = IF call = "seekInside" THEN call ELSE "none"
  /\ UNCHANGED <<config, position, thread, target, answer>>

\* A player without a thread reads one entry for each it returns.
Refill ==
  /\ Goto("refill", IF call = "seekInside" THEN "restart" ELSE "idle")
  /\ call' = IF call = "seekInside" THEN call ELSE "none"
  /\ fillEnvelopeCache(1)
  /\ UNCHANGED <<config, iterators, count, m_delay, thread, target, answer>>

\* An entry cannot be read: it is tried again without end, on a stream whose
\* error is not cleared.
FillFails ==
  /\ ReadsMayFail
  /\ pc \in {"fill", "refill"}
  /\ next # End
  /\ pc' = "stuck"
  /\ UNCHANGED <<config, position, thread, call, target, answer>>

setPlayerListener ==
  /\ pc = "idle"
  /\ m_playerListener' \in BOOLEAN
  /\ UNCHANGED <<m_autoRewind, position, thread, pc, call, target, answer>>

-----------------------------------------------------------------------------
(* The filling thread: manageCache().                                      *)

FillerAt(from, to) == filler = from /\ filler' = to

FillerLoop ==
  /\ FillerAt("loop", IF m_envelopeCacheFillingThreadIsRunning THEN "size" ELSE "exit")
  /\ UNCHANGED <<config, position, m_envelopeCacheFillingThreadIsRunning, quota,
                 seen, status, pc, call, target, answer>>

\* The number of cached envelopes is looked at; below 35 % of the desired
\* level, 110 % of it or more (the multiplicator grows) is to be read, or
\* what is left.
FillerSize ==
  /\ IF 100 * Cardinality(cache \union blank) < 35 * Desired
     THEN /\ FillerAt("size", "fill")
          /\ quota' \in {q \in 0 .. End - next :
                         q >= (11 * Desired) \div 10 \/ q = End - next}
     ELSE FillerAt("size", "pause") /\ UNCHANGED quota
  /\ UNCHANGED <<config, position, m_envelopeCacheFillingThreadIsRunning, seen,
                 status, pc, call, target, answer>>

\* One entry is read and put into the cache.
FillerFill ==
  /\ filler = "fill"
  /\ IF next # End /\ quota > 0
     THEN fillEnvelopeCache(1) /\ quota' = quota - 1 /\ UNCHANGED filler
     ELSE filler' = "pause" /\ quota' = 0 /\ UNCHANGED contents
  /\ UNCHANGED <<config, iterators, count, m_delay, seen, status, pc, call, target,
                 answer, m_envelopeCacheFillingThreadIsRunning>>

FillerFillFails ==
  /\ ReadsMayFail
  /\ next # End /\ quota > 0
  /\ FillerAt("fill", "stuck")
  /\ UNCHANGED <<config, position, m_envelopeCacheFillingThreadIsRunning, quota,
                 seen, status, pc, call, target, answer>>

\* It sleeps; every tenth time it publishes its statistics.
FillerSleep ==
  /\ filler = "pause"
  /\ filler' \in {"loop", "status"}
  /\ UNCHANGED <<config, position, m_envelopeCacheFillingThreadIsRunning, quota,
                 seen, status, pc, call, target, answer>>

FillerStatus ==
  /\ FillerAt("status", "publish")
  /\ seen' = count
  /\ UNCHANGED <<config, position, m_envelopeCacheFillingThreadIsRunning, quota,
                 status, pc, call, target, answer>>

FillerPublish ==
  /\ FillerAt("publish", "loop")
  /\ status' = IF m_playerListener THEN seen ELSE status
  /\ seen' = 0
  /\ UNCHANGED <<config, position, m_envelopeCacheFillingThreadIsRunning, quota,
                 pc, call, target, answer>>

FillerStep == \/ FillerLoop \/ FillerSize \/ FillerFill \/ FillerSleep
              \/ FillerStatus \/ FillerPublish

-----------------------------------------------------------------------------
CallStep == Join \/ Reset \/ Fill \/ Restart \/ Check \/ Take \/ Refill

Next ==
  \/ rewind \/ SeekToBegin \/ SeekToEnd \/ SeekInside \/ Destruct
  \/ GetNext \/ GetNextAtEnd \/ GetNextRewinds \/ setPlayerListener
  \/ CallStep \/ SkipTooMany \/ FillFails
  \/ FillerStep \/ FillerFillFails

Spec == Init /\ [][Next]_vars

\* Both threads are scheduled; the program need not call again.
FairSpec == Spec /\ WF_vars(CallStep) /\ WF_vars(FillerStep)

-----------------------------------------------------------------------------
(* Properties.                                                             *)

\* What has been read ahead of the position is in the cache as it was read,
\* and nothing made up by operator[] is waiting to be replayed.
ReadAheadIsCached ==
  /\ cur .. next - 1 \subseteq cache
  /\ \A k \in blank : k < cur

\* A player without a thread never returns an envelope that it has not read
\* from the file ("Pair of bool and next cluon::data::Envelope to be
\* replayed; if bool is false, no next Envelope is available.",
\* Player.hpp:67-68).
ReturnedIsRecorded == returned.valid => returned.entry \in 1 .. N

\* The cache of a player without a thread does not grow: what was replayed
\* is dropped.
CacheIsBounded == ~Threading => Cardinality(cache \union blank) <= Desired + 1


\* hasMoreData() says whether the next call returns an envelope ("@return true
\* if there is more data to replay.", Player.hpp:78).
PromiseIsKept == pc = "idle" => returned.valid = promised

\* The status that is published is never ahead of the player, whatever the
\* program does between the reading of the number and its publication.
StatusNeverAhead == [][status' # status => status' <= count]_vars

\* Every call returns, the destructor included, unless an entry of the file
\* cannot be read any more.
CallsReturn ==
  pc \notin {"idle", "gone"} ~> (pc \in {"idle", "gone", "stuck"} \/ filler = "stuck")

\* Where the abstract player is: a seekTo() that is under way has one entry
\* to go.
abstractPosition ==
  IF call = "seekInside" /\ pc \in {"fill", "check", "take"} THEN cur + 1 ELSE cur

Abstract == INSTANCE Playback
  WITH rewinds <- m_autoRewind, position <- abstractPosition, result <- returned

\* A player without a thread returns the entries of the recording one after
\* the other from wherever it was sent to, none twice and none left out.
ImplementsPlayback == Abstract!PlaybackSpec
=============================================================================
