---------------------------- MODULE MessageNumbers ----------------------------
(***************************************************************************)
(* The numbers (seq) of a session's messages: the host numbers messages_in *)
(* with even numbers, the processes of the container number messages_out   *)
(* with odd ones, and the host now and then writes to messages_out itself. *)
(* A writer of the container reads both maxima and inserts later; the      *)
(* statements of the host are atomic.                                      *)
(*                                                                         *)
(* Both columns are UNIQUE and rows are never deleted, so that each        *)
(* table's maximum is kept in a variable of its own.                       *)
(***************************************************************************)
EXTENDS Naturals

CONSTANTS
  Writers,     (* processes of the container that write messages_out       *)
  MaxNumber    (* largest number given (bound)                             *)

ASSUME NumbersConstants == MaxNumber \in Nat /\ "host" \notin Writers

VARIABLES
  inRows,    (* numbers in messages_in                                     *)
  inMax,     (* SELECT MAX(seq) of messages_in                             *)
  outRows,   (* messages_out: [seq, by]                                    *)
  outMax,    (* SELECT MAX(seq) of messages_out                            *)
  draft,     (* each writer: where it is between its reads and its insert  *)
  given,     (* numbers that tools have returned to the agent: [seq, by]   *)
  stale,     (* history: somebody wrote messages_out since a writer read   *)
  lost       (* history: writers whose insert threw                        *)

numbersVars == <<inRows, inMax, outRows, outMax, draft, given, stale, lost>>

NotWriting == [at |-> "idle"]

NumbersInit ==
  /\ inRows = {} /\ inMax = 0 /\ outRows = {} /\ outMax = 0
  /\ draft = [w \in Writers |-> NotWriting]
  /\ given = {} /\ stale = {} /\ lost = {}

IsEven(n) == n % 2 = 0

(* Every variable has its type; a number is in a table once.               *)
NumbersTypeOK ==
  /\ inRows \subseteq 1 .. inMax /\ inMax \in 0 .. MaxNumber
  /\ outRows \subseteq [seq : 1 .. outMax, by : Writers \cup {"host"}]
  /\ outMax \in 0 .. MaxNumber
  /\ draft \in [Writers -> [at : {"read"}, out : 0 .. MaxNumber]
                             \cup [at : {"numbered"}, seq : 1 .. MaxNumber] \cup {NotWriting}]
  /\ given \subseteq outRows
  /\ stale \subseteq Writers /\ lost \subseteq Writers
  /\ \A r, q \in outRows : r.seq = q.seq => r = q

-----------------------------------------------------------------------------
(* Mutant of NextEven: the next number, whatever its parity. *)
NextAny(max) == max + 1

(* nextEvenSeq. *)
NextEven(max) == IF max < 2 THEN 2 ELSE max + 2 - (max % 2)

NextOdd(max) == IF IsEven(max) THEN max + 1 ELSE max + 2

Larger(a, b) == IF a < b THEN b ELSE a

(* Any message the host stores for the agent.                              *)
HostStores ==
  /\ NextEven(inMax) <= MaxNumber
  /\ inMax' = NextEven(inMax)
  /\ inRows' = inRows \cup {NextEven(inMax)}
  /\ UNCHANGED <<outRows, outMax, draft, given, stale, lost>>

Drafting == {w \in Writers : draft[w] # NotWriting}

InsertOut(seq, by) ==
  /\ outRows' = outRows \cup {[seq |-> seq, by |-> by]}
  /\ outMax' = Larger(outMax, seq)

(* writeOutboundDirect: a denied command, answered without the agent.      *)
HostReplies ==
  /\ outMax + 2 <= MaxNumber
  /\ InsertOut(outMax + 2, "host")
  /\ stale' = stale \cup Drafting
  /\ UNCHANGED <<inRows, inMax, draft, given, lost>>

(* writeMessageOut of one process.                                         *)
ReadOut(w) ==
  /\ draft[w] = NotWriting
  /\ draft' = [draft EXCEPT ![w] = [at |-> "read", out |-> outMax]]
  /\ stale' = stale \ {w}
  /\ UNCHANGED <<inRows, inMax, outRows, outMax, given, lost>>

ReadIn(w) ==
  /\ draft[w].at = "read"
  /\ LET seq == NextOdd(Larger(draft[w].out, inMax)) IN
       /\ seq <= MaxNumber
       /\ draft' = [draft EXCEPT ![w] = [at |-> "numbered", seq |-> seq]]
  /\ UNCHANGED <<inRows, inMax, outRows, outMax, given, stale, lost>>

(* The insert gives the tool its number, or throws when it is taken.       *)
Insert(w) ==
  /\ draft[w].at = "numbered" /\ draft' = [draft EXCEPT ![w] = NotWriting]
  /\ IF \E r \in outRows : r.seq = draft[w].seq
     THEN lost' = lost \cup {w} /\ UNCHANGED <<outRows, outMax, given, stale>>
     ELSE /\ InsertOut(draft[w].seq, w)
          /\ given' = given \cup {[seq |-> draft[w].seq, by |-> w]}
          /\ stale' = (stale \cup Drafting) \ {w}
          /\ UNCHANGED lost
  /\ UNCHANGED <<inRows, inMax>>

NumbersNext ==
  \/ HostStores \/ HostReplies
  \/ \E w \in Writers : ReadOut(w) \/ ReadIn(w) \/ Insert(w)

NumbersSpec == NumbersInit /\ [][NumbersNext]_numbersVars

-----------------------------------------------------------------------------
(***************************************************************************)
(* Properties.                                                             *)
(***************************************************************************)

(* getMessageIdBySeq and getRoutingBySeq: the number is looked up in       *)
(* messages_in first.                                                      *)
Denotes(seq, r) == seq \notin inRows /\ r \in outRows /\ r.seq = seq

(* A number that a tool has returned keeps naming the message it was       *)
(* returned for, however the host and the other process number theirs      *)
(* later: an edit never hits another message.                              *)
NumbersDenote == \A g \in given : Denotes(g.seq, g)

(* An insert throws only when somebody else wrote messages_out since the   *)
(* writer read it.                                                         *)
LostOnlyInRace ==
  \A w \in Writers :
    draft[w].at = "numbered" /\ (\E r \in outRows : r.seq = draft[w].seq) => w \in stale

(* Numbers are not shared, neither within a table nor between the two.     *)
NumbersSafe == NumbersDenote /\ LostOnlyInRace

(* What does not hold.  session-manager.ts: "the even host seq stays out   *)
(* of the container's odd-seq space".                                      *)
HostStaysEven == \A r \in outRows : r.by = "host" => IsEven(r.seq)

=============================================================================
