----------------------------- MODULE ChatState -----------------------------
(***************************************************************************)
(* The state adapter that the chat SDK keeps its locks, its record of      *)
(* seen messages and its queues in.  The bots of one platform share the    *)
(* tables; all but one put a name of their own before every key.  The SDK  *)
(* may make any call at any time; each is one transaction.                 *)
(***************************************************************************)
EXTENDS Integers, FiniteSets, Sequences

CONSTANTS
  Bots,        (* adapter instances of one platform                        *)
  MaxTtl,      (* longest time to live (bound)                             *)
  MaxTokens,   (* tokens handed out (bound)                                *)
  Entries,     (* entries of a queue                                       *)
  MaxSize,     (* its size                                                 *)
  MaxIndex     (* largest index of a list (bound)                          *)

ASSUME ChatStateConstants ==
  /\ MaxTtl \in Nat \ {0} /\ MaxTokens \in Nat /\ MaxSize \in Nat \ {0}
  /\ MaxIndex \in Nat

VARIABLES
  lockRows,  (* chat_sdk_locks of one thread: [key, token, left]           *)
  handles,   (* locks given to the SDK: [bot, token, left]                 *)
  tokens,    (* tokens handed out                                          *)
  seenRows,  (* chat_sdk_kv for one message: [key, left]                   *)
  wins,      (* history: calls of setIfNotExists that succeeded: [bot, left] *)
  callers,     (* history: bots that have called it                          *)
  queueRows, (* chat_sdk_lists of one thread: [key, idx, value]            *)
  robbed     (* history: tokens of locks that were released by force       *)

lockVars == <<lockRows, handles, tokens, robbed>>
seenVars == <<seenRows, wins, callers>>
chatVars == <<lockVars, seenVars, queueRows>>

(* The time left until expires_at; a row is expired when this is below 0.  *)
Unexpired(rows) == {r \in rows : r.left >= 0}

Ttls == 1 .. MaxTtl
Times == -1 .. MaxTtl

ChatInit ==
  /\ lockRows = {} /\ handles = {} /\ tokens = 0 /\ robbed = {}
  /\ seenRows = {} /\ wins = {} /\ callers = {}
  /\ queueRows = {}

(* k(): the SDK's ids are the same for all bots, their keys are not.       *)
Key(bot) == bot

(* Every variable has its type; the tables' keys are unique.               *)
ChatTypeOK ==
  /\ lockRows \subseteq [key : Bots, token : 1 .. tokens, left : Times]
  /\ handles \subseteq [bot : Bots, token : 1 .. tokens, left : Times]
  /\ tokens \in 0 .. MaxTokens
  /\ seenRows \subseteq [key : Bots, left : Times]
  /\ wins \subseteq [bot : Bots, left : Ttls \cup {0}] /\ callers \subseteq Bots
  /\ \A r \in queueRows : r.key \in Bots /\ r.idx \in Nat /\ r.value \in Entries
  /\ robbed \subseteq 1 .. tokens
  /\ \A r, q \in lockRows : r.key = q.key => r = q
  /\ \A r, q \in seenRows : r.key = q.key => r = q
  /\ \A r, q \in queueRows : r.key = q.key /\ r.idx = q.idx => r = q

Of(rows, bot) == {r \in rows : r.key = Key(bot)}

-----------------------------------------------------------------------------
(* Locks.                                                                  *)

(* acquireLock: an expired row of the thread goes first.                   *)
AcquireLock(bot, ttl) ==
  /\ tokens < MaxTokens
  /\ Unexpired(Of(lockRows, bot)) = {}
  /\ tokens' = tokens + 1
  /\ lockRows' = (lockRows \ Of(lockRows, bot))
                   \cup {[key |-> Key(bot), token |-> tokens + 1, left |-> ttl]}
  /\ handles' = handles \cup {[bot |-> bot, token |-> tokens + 1, left |-> ttl]}
  /\ UNCHANGED <<robbed, seenVars, queueRows>>

Row(h) == {r \in Of(lockRows, h.bot) : r.token = h.token}

(* Mutant of ReleaseLock: the token is not compared. *)
ReleaseLockAny(h) ==
  /\ h \in handles /\ handles' = handles \ {h}
  /\ lockRows' = lockRows \ Of(lockRows, h.bot)
  /\ UNCHANGED <<tokens, robbed, seenVars, queueRows>>

ReleaseLock(h) ==
  /\ h \in handles /\ handles' = handles \ {h}
  /\ lockRows' = lockRows \ Row(h)
  /\ UNCHANGED <<tokens, robbed, seenVars, queueRows>>

(* A lock can be extended as long as its row is there, expired or not.     *)
ExtendLock(h, ttl) ==
  /\ h \in handles /\ Row(h) # {}
  /\ lockRows' = (lockRows \ Row(h)) \cup {[key |-> Key(h.bot), token |-> h.token, left |-> ttl]}
  /\ handles' = (handles \ {h}) \cup {[h EXCEPT !.left = ttl]}
  /\ UNCHANGED <<tokens, robbed, seenVars, queueRows>>

(* forceReleaseLock; the handle is still in somebody's hands.              *)
ForceReleaseLock(bot) ==
  /\ Of(lockRows, bot) # {}
  /\ lockRows' = lockRows \ Of(lockRows, bot)
  /\ robbed' = robbed \cup {r.token : r \in Of(lockRows, bot)}
  /\ UNCHANGED <<handles, tokens, seenVars, queueRows>>

-----------------------------------------------------------------------------
(* Seen messages.                                                          *)

SetIfNotExists(bot, ttl) ==
  /\ callers' = callers \cup {bot}
  /\ IF Unexpired(Of(seenRows, bot)) # {} THEN UNCHANGED <<seenRows, wins>>
     ELSE /\ seenRows' = (seenRows \ Of(seenRows, bot)) \cup {[key |-> Key(bot), left |-> ttl]}
          /\ wins' = wins \cup {[bot |-> bot, left |-> ttl]}
  /\ UNCHANGED <<lockVars, queueRows>>

(* cleanup, with every get: all that is expired goes.                      *)
Cleanup ==
  /\ lockRows' = Unexpired(lockRows) /\ seenRows' = Unexpired(seenRows)
  /\ <<lockRows', seenRows'>> # <<lockRows, seenRows>>
  /\ UNCHANGED <<handles, tokens, robbed, wins, callers, queueRows>>

-----------------------------------------------------------------------------
(* Queues.                                                                 *)

MaxIdx(rows) == CHOOSE i \in {r.idx : r \in rows} : \A r \in rows : r.idx <= i

NextIdx(rows) == IF rows = {} THEN 0 ELSE MaxIdx(rows) + 1

(* Mutant of Enqueue: the cut keeps one row too many. *)
EnqueueWide(bot, entry) ==
  LET next == NextIdx(Of(queueRows, bot)) IN
  /\ next <= MaxIndex
  /\ queueRows' = {r \in queueRows : r.key = Key(bot) => r.idx > next - MaxSize - 1}
                    \cup {[key |-> Key(bot), idx |-> next, value |-> entry]}
  /\ UNCHANGED <<lockVars, seenVars>>

(* appendToList: a new highest index, and what lies maxLength below goes.  *)
Enqueue(bot, entry) ==
  LET next == NextIdx(Of(queueRows, bot)) IN
  /\ next <= MaxIndex
  /\ queueRows' = {r \in queueRows : r.key = Key(bot) => r.idx > next - MaxSize}
                    \cup {[key |-> Key(bot), idx |-> next, value |-> entry]}
  /\ UNCHANGED <<lockVars, seenVars>>

Dequeue(bot) ==
  /\ \E first \in Of(queueRows, bot) :
       /\ \A r \in Of(queueRows, bot) : first.idx <= r.idx
       /\ queueRows' = queueRows \ {first}
  /\ UNCHANGED <<lockVars, seenVars>>

-----------------------------------------------------------------------------
Older(rows) == {[r EXCEPT !.left = IF r.left > 0 THEN r.left - 1 ELSE -1] : r \in rows}

(* Time passes; the tables do not meet, so that each may have a clock.     *)
LocksTick ==
  /\ lockRows' = Older(lockRows) /\ handles' = Older(handles)
  /\ <<lockRows', handles'>> # <<lockRows, handles>>
  /\ UNCHANGED <<tokens, robbed, seenVars, queueRows>>

SeenTick ==
  /\ seenRows' = Older(seenRows) /\ wins' = Unexpired(Older(wins))
  /\ <<seenRows', wins'>> # <<seenRows, wins>>
  /\ UNCHANGED <<lockVars, callers, queueRows>>

LocksNext ==
  \/ \E bot \in Bots : ForceReleaseLock(bot) \/ \E ttl \in Ttls : AcquireLock(bot, ttl)
  \/ \E h \in handles : ReleaseLock(h) \/ \E ttl \in Ttls : ExtendLock(h, ttl)
  \/ Cleanup \/ LocksTick

SeenNext ==
  \/ \E bot \in Bots, ttl \in Ttls : SetIfNotExists(bot, ttl)
  \/ Cleanup \/ SeenTick

QueueNext ==
  \E bot \in Bots : Dequeue(bot) \/ \E entry \in Entries : Enqueue(bot, entry)

ChatNext == LocksNext \/ SeenNext \/ QueueNext

ChatSpec == ChatInit /\ [][ChatNext]_chatVars

-----------------------------------------------------------------------------
(***************************************************************************)
(* Properties.                                                             *)
(***************************************************************************)

(* Two locks of a thread are in force at once only when the older one was  *)
(* taken away by force: whatever late releases and extensions of expired   *)
(* locks come in between.                                                  *)
LockExclusive ==
  \A h, q \in Unexpired(handles) :
    h.bot = q.bot /\ h.token < q.token => h.token \in robbed

(* Of the calls that report a message to one bot within the time to live,  *)
(* one is told that it is the first.                                       *)
OneWinner == \A w, x \in wins : w.bot = x.bot => w = x

(* One bot of those that compete gets the thread, and one the message.     *)
ChatSafe == LockExclusive /\ OneWinner

(* "The second bot silently drops every message the first processed" does  *)
(* not happen: a bot's first report of a message is told so.               *)
FirstReportWins ==
  [][callers' # callers => \E w \in wins' : w.bot \in callers' \ callers]_chatVars

(* What rows hold, in the order of their indices.                          *)
Ordered(rows) ==
  LET Rank(r) == Cardinality({q \in rows : q.idx <= r.idx})
  IN  [n \in 1 .. Cardinality(rows) |-> (CHOOSE r \in rows : Rank(r) = n).value]

(* A bot's queue.                                                          *)
Values(bot) == Ordered(Of(queueRows, bot))

Fifo == INSTANCE BoundedFifo WITH Owners <- Bots, queues <- [bot \in Bots |-> Values(bot)]

(* Each bot's queue is a bounded FIFO, whatever the other bots do and      *)
(* however indices start again after the queue was empty.                  *)
QueuesAreFifo == Fifo!FifoSpec

=============================================================================
